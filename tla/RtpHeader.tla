------------------------------ MODULE RtpHeader ------------------------------
(***************************************************************************)
(* RTP packets on the wire (src/src/rtp.js): the fixed header, the list of *)
(* contributing sources, the block of one-byte header extensions, the      *)
(* payload, and the padding counted by the packet's last octet.            *)
(*                                                                         *)
(* The fixed header is a record of its fields; everything after it is      *)
(* "body", a sequence of octets, and the code's offsets are offsets in     *)
(* body.  An octet says what it was written as, its value, and which octet *)
(* of the value it is: a value of several octets is whole in each of them. *)
(***************************************************************************)
EXTENDS Integers, Sequences

Seqs == INSTANCE SequencesExt

CONSTANTS
    SeqSpace,           \* 2^16
    WordSpace,          \* 2^32
    AbsSpace,           \* 2^24, of the send time, which counts ticks
    TickRate,           \* 2^18 ticks in a second
    MsPerSec,           \* 1000
    Epoch               \* 2208988800 seconds from 1900 to 1970

Octet(what, v, i)  == [what |-> what, v |-> v, at |-> i]
Octets(what, v, n) == [i \in 1 .. n |-> Octet(what, v, i)]
OneByte  == 48862                          \* PROFILE_ONE_BYTE, 0xBEDE
Element(id, len) == Octet("element", 16 * id + len - 1, 1)
Zero     == Octet("element", 0, 1)
NoExts   == <<>>
NoPacket == [none |-> TRUE]
Least(a, b) == IF a <= b THEN a ELSE b
Put(f, k, v) == [i \in DOMAIN f \cup {k} |-> IF i = k THEN v ELSE f[i]]

-----------------------------------------------------------------------------
(* A block of extensions, a function from ids to octets.  JavaScript gives *)
(* the numeric keys of an object in ascending order; an id is one of the   *)
(* four bits, and a value fits when its length less one has four bits too. *)
Writable(exts) == \A id \in DOMAIN exts : Len(exts[id]) \in 1 .. 16

WriteExtensions(exts) ==
    LET data  == Seqs!FlattenSeq([i \in 1 .. 16 |->
                     IF i - 1 \notin DOMAIN exts THEN <<>>
                     ELSE <<Element(i - 1, Len(exts[i - 1]))>> \o exts[i - 1]])
        words == (Len(data) + 3) \div 4
    IN  Octets("profile", OneByte, 2) \o Octets("words", words, 2) \o data
        \o [i \in 1 .. 4 * words - Len(data) |-> Zero]

(* The elements a scan of a block's data stops at.  A careful scan ends at *)
(* the reserved id 15 and at an element that does not fit.                 *)
Elements(data, careful) ==
    LET scan[i \in 1 .. Len(data) + 17] ==
            IF i > Len(data) THEN <<>>
            ELSE LET id  == data[i].v \div 16
                     len == (data[i].v % 16) + 1
                 IN  IF data[i].v = 0 THEN scan[i + 1]
                     ELSE IF careful /\ (id = 15 \/ i + len > Len(data)) THEN <<>>
                     ELSE <<[at |-> i, id |-> id, len |-> len]>> \o scan[i + 1 + len]
    IN  scan[1]
ValueOf(data, e) == SubSeq(data, e.at + 1, e.at + e.len)

ParseExtensions(data) ==
    LET found == Elements(data, TRUE)
        LastOf(id) == CHOOSE i \in DOMAIN found :
                          found[i].id = id /\ \A j \in i + 1 .. Len(found) : found[j].id # id
    IN  [id \in {found[i].id : i \in DOMAIN found} |-> ValueOf(data, found[LastOf(id)])]

-----------------------------------------------------------------------------
(* A field keeps the low bits it has room for.  A value that does not fit  *)
(* its element throws a RangeError, and no packet is built.                *)
Serialize(r) ==
    IF ~Writable(r.exts) THEN NoPacket
    ELSE [p |-> r.padding, x |-> r.exts # NoExts, cc |-> Len(r.csrc) % 16, m |-> r.marker,
          pt |-> r.pt % 128, seq |-> r.seq % SeqSpace, ts |-> r.ts % WordSpace, ssrc |-> r.ssrc % WordSpace,
          body |-> [i \in 1 .. 4 * Len(r.csrc) |->
                        Octet("csrc", r.csrc[(i + 3) \div 4] % WordSpace, ((i - 1) % 4) + 1)]
                   \o (IF r.exts = NoExts THEN <<>> ELSE WriteExtensions(r.exts))
                   \o r.payload]

CsrcEnd(pkt)  == 4 * pkt.cc
HasBlock(pkt) == pkt.x /\ Len(pkt.body) >= CsrcEnd(pkt) + 4
BlockEnd(pkt) == CsrcEnd(pkt) + 4 + 4 * pkt.body[CsrcEnd(pkt) + 3].v
IsOneByte(pkt) == pkt.body[CsrcEnd(pkt) + 1].v = OneByte
BlockData(pkt) == SubSeq(pkt.body, CsrcEnd(pkt) + 5, Least(BlockEnd(pkt), Len(pkt.body)))

(* Where the payload begins; -1 when the packet is too short.              *)
PayloadOffset(pkt) ==
    IF Len(pkt.body) < CsrcEnd(pkt) THEN -1
    ELSE IF HasBlock(pkt) THEN Least(BlockEnd(pkt), Len(pkt.body))
    ELSE CsrcEnd(pkt)

(* A pad count outside what the packet can hold is ignored.                *)
PaddingOf(pkt, from) ==
    LET count == pkt.body[Len(pkt.body)].v
    IN  IF pkt.p /\ Len(pkt.body) > from /\ count \in 1 .. Len(pkt.body) - from THEN count ELSE 0

Parse(pkt) ==
    LET from == PayloadOffset(pkt)
    IN  IF from < 0 THEN NoPacket
        ELSE [padding |-> pkt.p, marker |-> pkt.m, pt |-> pkt.pt, seq |-> pkt.seq,
              ts |-> pkt.ts, ssrc |-> pkt.ssrc,
              csrc    |-> [i \in 1 .. pkt.cc |-> pkt.body[4 * i].v],
              exts    |-> IF HasBlock(pkt) /\ IsOneByte(pkt) /\ BlockEnd(pkt) <= Len(pkt.body)
                          THEN ParseExtensions(BlockData(pkt)) ELSE NoExts,
              payload |-> SubSeq(pkt.body, from + 1, Len(pkt.body) - PaddingOf(pkt, from))]

(* One extension straight from the packet: the first with the id, or <<>>. *)
ReadExtension(pkt, id) ==
    IF ~(HasBlock(pkt) /\ IsOneByte(pkt)) THEN <<>>
    ELSE LET found == Elements(BlockData(pkt), TRUE)
             hits  == {i \in DOMAIN found : found[i].id = id}
         IN  IF hits = {} THEN <<>>
             ELSE ValueOf(BlockData(pkt), found[CHOOSE i \in hits : \A j \in hits : i <= j])

(* The ids rewritten in place; an extension without a new id is blanked.   *)
RemapExtensionIds(pkt, idMap) ==
    LET data  == BlockData(pkt)
        scan  == Elements(data, FALSE)
        found == {scan[i] : i \in DOMAIN scan}
        New(i) ==
            LET e == CHOOSE f \in found : i \in f.at .. f.at + f.len
            IN  IF ~\E f \in found : i \in f.at .. f.at + f.len THEN data[i]
                ELSE IF e.id \notin DOMAIN idMap THEN Zero
                ELSE IF i = e.at THEN Element(idMap[e.id], e.len)
                ELSE data[i]
    IN  IF ~(HasBlock(pkt) /\ IsOneByte(pkt)) THEN pkt
        ELSE [pkt EXCEPT !.body = SubSeq(@, 1, CsrcEnd(pkt) + 4) \o [i \in DOMAIN data |-> New(i)]
                                  \o SubSeq(@, PayloadOffset(pkt) + 1, Len(@))]

-----------------------------------------------------------------------------
(* Extensions added to, or replaced in, a packet that is already built.    *)
(* A block of another form is left alone.                                  *)
SetHeaderExtensions(pkt, add) ==
    LET valid == {id \in DOMAIN add : id \in 1 .. 14 /\ Len(add[id]) \in 1 .. 16}
        old   == IF pkt.x THEN ParseExtensions(BlockData(pkt)) ELSE NoExts
        from  == IF pkt.x THEN BlockEnd(pkt) ELSE CsrcEnd(pkt)
    IN  IF \/ pkt.x /\ ~(HasBlock(pkt) /\ IsOneByte(pkt) /\ BlockEnd(pkt) <= Len(pkt.body))
           \/ ~pkt.x /\ valid = {}
        THEN pkt
        ELSE [pkt EXCEPT !.x = TRUE,
                         !.body = SubSeq(@, 1, CsrcEnd(pkt))
                                  \o WriteExtensions([id \in valid \cup DOMAIN old |->
                                         IF id \in valid THEN add[id] ELSE old[id]])
                                  \o SubSeq(@, from + 1, Len(@))]
SetHeaderExtension(pkt, id, data) ==
    IF id \in 1 .. 14 /\ Len(data) \in 1 .. 16 THEN SetHeaderExtensions(pkt, [i \in {id} |-> data]) ELSE pkt

(* The extensions' values.  The transport-wide number; the send time, in   *)
(* ticks since 1900, whole ones (the code's doubles are off by less than   *)
(* one), of which the counter keeps the low bits and a reader makes        *)
(* seconds, a fraction <<numerator, denominator>>; and the audio level.    *)
TransportCC(seq) == Octets("twcc", seq % SeqSpace, 2)
Fixed(now)       == ((now * TickRate) \div MsPerSec + Epoch * TickRate) % AbsSpace
AbsSendTime(now) == Octets("abs", Fixed(now), 3)
ReadAbsSendTime(data)      == IF Len(data) < 3 THEN <<0, 1>> ELSE <<data[1].v, TickRate>>
AudioLevel(level, voice)   == Octets("level", (IF voice THEN 128 ELSE 0) + (level % 128), 1)
ReadAudioLevel(data)       == [level |-> data[1].v % 128, voice |-> data[1].v >= 128]
=============================================================================
