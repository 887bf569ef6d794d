----------------------------- MODULE AudioPayload -----------------------------
(***************************************************************************)
(* The audio codecs whose packets stand alone: Opus (src/src/opus.js), one *)
(* packet per frame whatever its size, and G.711 and G.722 (src/src/g711.js *)
(* and g722.js), where a block larger than the MTU is cut anywhere and     *)
(* every piece has the timestamp of its first octet.                       *)
(***************************************************************************)
EXTENDS RtpPayload

SilenceGap == ClockRate \div 2
AudioOutput(pkt) == [data |-> pkt.payload, ts |-> pkt.ts, type |-> "key", marker |-> pkt.marker]

(* The marker says that a talkspurt begins: on the first packet, and on    *)
(* one whose timestamp is more than half a second after the last one's.    *)
OpusPacketizer(seq) == [seq |-> seq, sentFirst |-> FALSE, lastTs |-> 0]
TalkspurtSigned(s, ts) == ~s.sentFirst \/ ts - s.lastTs > SilenceGap   \* slip: no wrap
Talkspurt(s, ts) == ~s.sentFirst \/ (ts - s.lastTs) % TsMod > SilenceGap
OpusPacketize(s, chunk) ==
    LET ts == UsToRtp(chunk.us)
    IN  [st   |-> [seq |-> NextSeq(s.seq), sentFirst |-> TRUE, lastTs |-> ts],
         pkts |-> <<MakePacket(s.seq, chunk.data, ts, Talkspurt(s, ts))>>]

OpusDepacketizer == <<>>
OpusDepacketize(d, pkt, open) ==
    IF Passes(open, pkt.payload, 1) THEN Emit(d, <<AudioOutput(pkt)>>) ELSE Keep(d)

-----------------------------------------------------------------------------
G711Packetizer(seq) == [seq |-> seq]
G711Packetize(s, chunk) ==
    LET n  == IF Len(chunk.data) <= Mtu THEN 1 ELSE FragmentCount(chunk.data, Mtu)
        ts == UsToRtp(chunk.us)
    IN  [st   |-> [seq |-> (s.seq + n) % SeqSpace],
         pkts |-> [i \in 1 .. n |->
                    MakePacket((s.seq + i - 1) % SeqSpace, Fragment(chunk.data, Mtu, i),
                               (ts + (i - 1) * Mtu) % TsMod, i = 1 /\ chunk.marker)]]

G711Depacketizer == <<>>
G711Depacketize(d, pkt, open) ==
    IF Passes(open, pkt.payload, 1) THEN Emit(d, <<AudioOutput(pkt)>>) ELSE Keep(d)

(* G.722 runs the same code on the same 8 kHz RTP clock.                   *)
G722Packetizer(seq) == G711Packetizer(seq)
G722Packetize(s, chunk) == G711Packetize(s, chunk)
G722Depacketizer == G711Depacketizer
G722Depacketize(d, pkt, open) == G711Depacketize(d, pkt, open)
=============================================================================
