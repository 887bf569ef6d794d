------------------------------ MODULE Av1Payload ------------------------------
(***************************************************************************)
(* AV1Packetizer and AV1Depacketizer (src/src/av1.js).  The aggregation    *)
(* header is the octet [z, y, n]; the packetizer always announces one      *)
(* element (W = 1) and the depacketizer does not read W.                   *)
(***************************************************************************)
EXTENDS RtpPayload

Packetizer(seq) == [seq |-> seq]

Payloads(data, isKey) ==
    LET max == Mtu - 1
        n   == FragmentCount(data, max)
    IN  IF Len(data) <= max THEN <<(<<[z |-> FALSE, y |-> FALSE, n |-> isKey]>> \o data)>>
        ELSE [i \in 1 .. n |->
                <<[z |-> i # 1, y |-> i # n, n |-> i = 1 /\ isKey]>> \o Fragment(data, max, i)]

Packetize(s, chunk) ==
    LET payloads == Payloads(chunk.data, chunk.type = "key")
    IN  [st   |-> [s EXCEPT !.seq = SeqAfter(s.seq, payloads)],
         pkts |-> MakePackets(s.seq, payloads, UsToRtp(chunk.us))]

PeekKeyframe(p) == Len(p) >= 1 /\ ~p[1].z /\ p[1].n

-----------------------------------------------------------------------------
(* The fields: the joined _fragments and _isKey.                           *)
Depacketizer == [data |-> <<>>, isKey |-> FALSE]

Depacketize(d, pkt, open) ==
    LET p    == pkt.payload
        data == SubSeq(p, 2, Len(p))
        next == IF p[1].z THEN [d EXCEPT !.data = d.data \o data]
                ELSE [data |-> data, isKey |-> p[1].n]
    IN  IF ~Passes(open, p, 1) THEN Keep(d)
        ELSE IF ~p[1].y \/ pkt.marker
        THEN Emit(Depacketizer,
                  <<Output(next.data, pkt.ts, IF next.isKey THEN "key" ELSE "delta")>>)
        ELSE Keep(next)
=============================================================================
