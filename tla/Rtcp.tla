-------------------------------- MODULE Rtcp --------------------------------
(***************************************************************************)
(* RTCP messages (src/src/rtcp.js, with the two parsers of bandwidth.js).  *)
(*                                                                         *)
(* A datagram is a sequence of 32-bit words, some messages one after the   *)
(* other; each begins with a word that gives its count or format, its      *)
(* type, and how many words follow.  A word is a record of its fields, or  *)
(* of four octets.                                                         *)
(***************************************************************************)
EXTENDS Integers, Sequences, TLC
LOCAL INSTANCE FiniteSetsExt

Seqs == INSTANCE SequencesExt

CONSTANTS
    SeqSpace,           \* 2^16
    WordSpace,          \* 2^32
    BlpBits,            \* 16: packets a NACK entry names after its first
    LostMod,            \* 2^24, of the cumulative loss
    FirMod,             \* 2^8, of the FIR number
    MantissaMax,        \* 0x3FFFF
    Quantum,            \* 250 microseconds
    SmallMax,           \* 0xFF, the largest delta of one octet, in quanta
    LargeMax,           \* 0x7FFF, the largest delta of two octets, in quanta
    RefUnit, RefMax,    \* 64 ms, and the largest reference time: 0x7FFFFF
    VectorLen,          \* 14 symbols of one bit in a status vector
    MaxRun              \* 8191 packets in a run-length chunk

(* Assumed by ControlPath.                                                 *)
RtcpAssumption ==
    /\ SeqSpace \in Nat \ {0} /\ BlpBits \in Nat \ {0} /\ Quantum \in Nat \ {0}
    /\ VectorLen \in Nat \ {0} /\ VectorLen % 2 = 0 /\ MaxRun >= VectorLen
    /\ SmallMax <= LargeMax
    /\ WordSpace \in Nat \ {0} /\ WordSpace % 2 = 0

(* The signed 32-bit integer that JavaScript's bitwise operators work on.  *)
ToInt32(n) == ((n + WordSpace \div 2) % WordSpace) - (WordSpace \div 2)

AtMost(a, b) == IF a <= b THEN a ELSE b
W(n)    == [w |-> n]
Byte(n) == [b |-> n]
Low     == [low |-> 0]              \* the second octet of a 16-bit field
HeadWord(count, pt, words) == [count |-> count, pt |-> pt, length |-> Len(words)]
Message(count, pt, words) == <<HeadWord(count, pt, words)>> \o words

(* Octets in words, filled up with zeros.                                  *)
InWords(octets) ==
    LET n == (Len(octets) + 3) \div 4
        full == octets \o [i \in 1 .. 4 * n - Len(octets) |-> Byte(0)]
    IN  [i \in 1 .. n |-> [o |-> SubSeq(full, 4 * i - 3, 4 * i)]]
OctetsOf(words) == Seqs!FlattenSeq([i \in DOMAIN words |-> words[i].o])

-----------------------------------------------------------------------------
(* The builders.                                                           *)
BuildSR(o) == Message(0, 200, <<W(o.ssrc), W(o.ntp[1]), W(o.ntp[2]), W(o.rtp), W(o.packets), W(o.octets)>>)
BuildRR(o) ==
    Message(1, 201, <<W(o.ssrc), W(o.mediaSsrc),
                      [fraction |-> o.fractionLost % 256, lost |-> o.totalLost % LostMod],
                      W(o.highestSeq), W(o.jitter), W(o.lastSR), W(o.delaySinceLastSR)>>)
BuildPLI(ssrc, media) == Message(1, 206, <<W(ssrc), W(media)>>)
BuildFIR(ssrc, media, n) == Message(4, 206, <<W(ssrc), W(0), W(media), [fir |-> n % FirMod]>>)
BuildSDES(ssrc, cname) ==
    Message(1, 202, <<W(ssrc)>> \o InWords(<<Byte(1), Byte(Len(cname))>>
                        \o [i \in DOMAIN cname |-> Byte(cname[i])] \o <<Byte(0)>>))
BuildBYE(ssrcs, reason) ==
    Message(Len(ssrcs), 203, [i \in DOMAIN ssrcs |-> W(ssrcs[i])]
        \o (IF reason = <<>> THEN <<>>
            ELSE InWords(<<Byte(Len(reason))>> \o [i \in DOMAIN reason |-> Byte(reason[i])])))
BuildCompound(messages) == Seqs!FlattenSeq(messages)

(* The lost numbers in ascending order, each entry a number and the set of *)
(* those among the next BlpBits that are lost too.                         *)
BuildNackEntriesBitOff(list) ==       \* slip: bit 0 stands for the entry's own number
    LET add(entries, seq) ==
            IF entries # <<>> /\ seq - Seqs!Last(entries).pid <= BlpBits
            THEN [entries EXCEPT ![Len(entries)].blp = @ \cup {seq - Seqs!Last(entries).pid}]
            ELSE Append(entries, [pid |-> seq, blp |-> {}])
    IN  Seqs!FoldLeft(add, <<>>, SortSeq(list, <))

BuildNackEntries(list) ==
    LET add(entries, seq) ==
            IF entries # <<>> /\ seq - Seqs!Last(entries).pid <= BlpBits
            THEN [entries EXCEPT ![Len(entries)].blp = @ \cup
                     (IF seq > Seqs!Last(entries).pid THEN {seq - Seqs!Last(entries).pid - 1} ELSE {})]
            ELSE Append(entries, [pid |-> seq, blp |-> {}])
        sorted == SortSeq(list, <)
        entriesOf[i \in 0 .. Len(list)] == IF i = 0 THEN <<>> ELSE add(entriesOf[i - 1], sorted[i])
    IN  entriesOf[Len(list)]
BuildNACK(ssrc, media, list) ==
    Message(1, 205, <<W(ssrc), W(media)>> \o BuildNackEntries(list))

(* A bitrate is halved, each time as a signed 32-bit integer, until it     *)
(* fits the mantissa, which keeps the low bits of what is left.            *)
Halved(bitrate, n) ==
    LET half[i \in 0 .. n] == IF i = 0 THEN bitrate ELSE ToInt32(half[i - 1]) \div 2 IN half[n]
Exponent(bitrate) == Min({e \in 0 .. 31 : Halved(bitrate, e) <= MantissaMax})
BuildREMB(ssrc, medias, bitrate) ==
    Message(15, 206, <<W(ssrc), W(0), [tag |-> "REMB"],
                       [num |-> Len(medias) % 256, exp |-> Exponent(bitrate),
                        mantissa |-> Halved(bitrate, Exponent(bitrate)) % (MantissaMax + 1)]>>
                     \o [i \in DOMAIN medias |-> W(medias[i])])

-----------------------------------------------------------------------------
(* Transport-wide feedback.  packets gives for each number from base on    *)
(* whether it was received and the time since the one before it.           *)
Quanta(us) == (2 * ToInt32(us) + Quantum) \div (2 * Quantum)   \* Math.round
Symbol(p) ==
    IF ~p.received THEN 0
    ELSE IF Quanta(p.us) \in 0 .. SmallMax THEN 1
    ELSE IF Quanta(p.us) \in -LargeMax - 1 .. LargeMax THEN 2
    ELSE 0                            \* out of range: reported as lost
RecvDelta(p) ==
    CASE Symbol(p) = 0 -> <<>>
      [] Symbol(p) = 1 -> <<[d |-> Quanta(p.us)]>>
      [] Symbol(p) = 2 -> <<[d |-> Quanta(p.us)], Low>>

(* A long run of one symbol, else a vector of one-bit symbols, else one of *)
(* two-bit symbols; a vector's unused symbols are zeros.                   *)
Chunks(symbols) ==
    LET n == Len(symbols)
        RunEnd(i) == Max({j \in i .. AtMost(n, i + MaxRun - 1) :
                              \A k \in i .. j : symbols[k] = symbols[i]})
        Vector(i, len) == [k \in 1 .. len |-> IF i + k - 1 > n THEN 0 ELSE symbols[i + k - 1]]
        chunk[i \in 1 .. n + VectorLen + 1] ==
            IF i > n THEN <<>>
            ELSE IF RunEnd(i) - i + 1 >= VectorLen
                 THEN <<[symbol |-> symbols[i], run |-> RunEnd(i) - i + 1]>> \o chunk[RunEnd(i) + 1]
            ELSE IF \A k \in i .. AtMost(n, i + VectorLen - 1) : symbols[k] <= 1
                 THEN <<[bits |-> Vector(i, VectorLen)]>> \o chunk[i + VectorLen]
            ELSE <<[pairs |-> Vector(i, VectorLen \div 2)]>> \o chunk[i + VectorLen \div 2]
    IN  chunk[1]

BuildTransportCC(ssrc, media, base, refMs, fbCount, packets) ==
    LET chunks == Chunks([i \in DOMAIN packets |-> Symbol(packets[i])])
    IN  Message(15, 205,
            <<W(ssrc), W(media), [base |-> base, statuses |-> Len(packets)],
              [ref |-> AtMost(refMs \div RefUnit, RefMax), fb |-> fbCount]>>
            \o InWords(Seqs!FlattenSeq([i \in DOMAIN chunks |-> <<chunks[i], Low>>])
                       \o Seqs!FlattenSeq([i \in DOMAIN packets |-> RecvDelta(packets[i])])))

Expanded(chunk) ==
    IF "run" \in DOMAIN chunk THEN [i \in 1 .. chunk.run |-> chunk.symbol]
    ELSE IF "bits" \in DOMAIN chunk THEN chunk.bits
    ELSE chunk.pairs
NoReport == [none |-> TRUE]
ParseTransportCC(fci) ==
    LET octets == OctetsOf(SubSeq(fci, 3, Len(fci)))
        n      == fci[1].statuses
        read[k \in 0 .. Len(octets) \div 2] ==      \* the symbols of the first k chunks
            IF k = 0 THEN <<>>
            ELSE IF Len(read[k - 1]) = n THEN read[k - 1]
            ELSE LET more == read[k - 1] \o Expanded(octets[2 * k - 1])
                 IN  SubSeq(more, 1, AtMost(Len(more), n))
        ks      == {k \in DOMAIN read : Len(read[k]) = n}
        symbols == read[Min(ks)]
        off[i \in 1 .. n + 1] ==                    \* where the delta of packet i begins
            IF i = 1 THEN 2 * Min(ks) + 1
            ELSE off[i - 1] + (IF symbols[i - 1] = 3 THEN 0 ELSE symbols[i - 1])
    IN  IF ks = {} THEN NoReport
        ELSE IF off[n + 1] > Len(octets) + 1 THEN NoReport
        ELSE [base |-> fci[1].base, refMs |-> fci[2].ref * RefUnit, fb |-> fci[2].fb,
              packets |-> [i \in 1 .. n |->
                  [seq |-> (fci[1].base + i - 1) % SeqSpace, received |-> symbols[i] # 0,
                   timed |-> symbols[i] \in {1, 2},
                   us |-> IF symbols[i] \in {1, 2} THEN octets[off[i]].d * Quantum ELSE 0]]]

ParseREMB(fci) ==
    IF Len(fci) < 2 \/ "tag" \notin DOMAIN fci[1] THEN NoReport
    ELSE [bitrate |-> fci[2].mantissa * 2^fci[2].exp,
          ssrcs |-> [i \in 1 .. AtMost(fci[2].num, Len(fci) - 2) |-> fci[2 + i].w]]

-----------------------------------------------------------------------------
(* The parsers.  m is one message, its first word included.                *)
ParseNackEntries(entries) ==
    Seqs!FlattenSeq([i \in DOMAIN entries |->
        <<entries[i].pid>> \o Seqs!FlattenSeq([bit \in 1 .. BlpBits |->
            IF bit - 1 \in entries[i].blp THEN <<entries[i].pid + bit>> ELSE <<>>])])
Block(m, at) ==
    [mediaSsrc |-> m[at].w, fractionLost |-> m[at + 1].fraction, totalLost |-> m[at + 1].lost,
     highestSeq |-> m[at + 2].w, jitter |-> m[at + 3].w, lastSR |-> m[at + 4].w,
     delaySinceLastSR |-> m[at + 5].w]
Blocks(m, at) == [i \in 1 .. AtMost(m[1].count, (Len(m) - at + 1) \div 6) |-> Block(m, at + 6 * (i - 1))]
Items(octets) ==
    LET item[i \in 1 .. Len(octets) + 258] ==
            IF i + 1 > Len(octets) \/ octets[i].b = 0 THEN <<>>
            ELSE IF i + 1 + octets[i + 1].b > Len(octets) THEN <<>>
            ELSE <<[type |-> octets[i].b,
                    value |-> [k \in 1 .. octets[i + 1].b |-> octets[i + 1 + k].b]]>>
                 \o item[i + 2 + octets[i + 1].b]
    IN  item[1]
Reason(octets) ==
    IF octets = <<>> \/ octets[1].b = 0 \/ octets[1].b + 1 > Len(octets) THEN <<>>
    ELSE [k \in 1 .. octets[1].b |-> octets[1 + k].b]

ParseRTCP(m) ==
    LET pt == m[1].pt
        count == m[1].count
        n == Len(m)
        From(i) == SubSeq(m, i, n)
    IN  CASE pt = 200 /\ n >= 7 ->
                [name |-> "SR", ssrc |-> m[2].w, ntp |-> <<m[3].w, m[4].w>>, rtp |-> m[5].w,
                 packets |-> m[6].w, octets |-> m[7].w, reports |-> Blocks(m, 8)]
          [] pt = 206 /\ count = 1 /\ n >= 3 ->
                [name |-> "PLI", ssrc |-> m[2].w, mediaSsrc |-> m[3].w]
          [] pt = 205 /\ count = 1 /\ n >= 4 ->
                [name |-> "NACK", ssrc |-> m[2].w, mediaSsrc |-> m[3].w, lost |-> ParseNackEntries(From(4))]
          [] pt = 205 /\ count = 15 /\ n >= 4 ->
                [name |-> "TransportCC", ssrc |-> m[2].w, mediaSsrc |-> m[3].w, fci |-> From(4)]
          [] pt = 206 /\ count = 15 /\ n >= 5 /\ "tag" \in DOMAIN m[4] ->
                [name |-> "REMB", ssrc |-> m[2].w, mediaSsrc |-> m[3].w, fci |-> From(4)]
          [] pt = 206 /\ count = 4 /\ n >= 5 ->
                [name |-> "FIR", ssrc |-> m[2].w, mediaSsrc |-> m[4].w, seqNr |-> m[5].fir]
          [] pt = 202 /\ n >= 2 ->
                [name |-> "SDES", ssrc |-> m[2].w, items |-> Items(OctetsOf(From(3)))]
          [] pt = 203 ->
                LET listed == AtMost(count, n - 1)
                IN  [name |-> "BYE", ssrcs |-> [i \in 1 .. listed |-> m[1 + i].w],
                     reason |-> Reason(OctetsOf(From(2 + count)))]
          [] pt = 201 /\ n >= 8 ->
                [name |-> "RR", ssrc |-> m[2].w, reports |-> Blocks(m, 3)]
          [] OTHER -> [name |-> "unknown"]

(* A datagram, message by message; what does not fit ends it.              *)
ParseRTCPCompound(words) ==
    LET next(at) == at + words[at].length + 1
        more(read) ==
            IF read.at > Len(words) THEN read
            ELSE IF next(read.at) > Len(words) + 1 THEN read
            ELSE [at |-> next(read.at),
                  messages |-> Append(read.messages, ParseRTCP(SubSeq(words, read.at, next(read.at) - 1)))]
        read[i \in 0 .. Len(words)] == IF i = 0 THEN [at |-> 1, messages |-> <<>>] ELSE more(read[i - 1])
    IN  read[Len(words)].messages
=============================================================================
