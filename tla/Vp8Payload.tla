------------------------------ MODULE Vp8Payload ------------------------------
(***************************************************************************)
(* VP8Packetizer and VP8Depacketizer (src/src/vp8.js).                     *)
(*                                                                         *)
(* Octets of the descriptor: [x, s], then [i, l, t, k] when x is set, then *)
(* the picture id [m, pid] (two octets when m is set), TL0PICIDX, and the  *)
(* octet that holds tid.  The first octet of a frame says key.             *)
(***************************************************************************)
EXTENDS RtpPayload

CONSTANT PidMod         \* 2^15

NoTid == -1

(* The fields of a packetizer: the next sequence number, whether frames    *)
(* carry a picture id, and the next one.                                   *)
Packetizer(seq, hasPid) == [seq |-> seq, hasPid |-> hasPid, pid |-> PidMod - 1]

Prefix(s, first) ==
    IF s.hasPid
    THEN <<[x |-> TRUE, s |-> first], [i |-> TRUE, l |-> FALSE, t |-> FALSE, k |-> FALSE],
           [m |-> TRUE, pid |-> s.pid], [pid |-> s.pid]>>
    ELSE <<[x |-> FALSE, s |-> first]>>

Payloads(s, data) ==
    LET max == Mtu - Len(Prefix(s, TRUE))
    IN  IF Len(data) <= max THEN <<Prefix(s, TRUE) \o data>>
        ELSE [i \in 1 .. FragmentCount(data, max) |-> Prefix(s, i = 1) \o Fragment(data, max, i)]

Packetize(s, chunk) ==
    LET payloads == Payloads(s, chunk.data)
    IN  [st   |-> [s EXCEPT !.seq = SeqAfter(s.seq, payloads),
                            !.pid = IF s.hasPid THEN (s.pid + 1) % PidMod ELSE s.pid],
         pkts |-> MakePackets(s.seq, payloads, UsToRtp(chunk.us))]

-----------------------------------------------------------------------------
(* readDescriptor: how many octets the flags announce, and whether an      *)
(* octet of the bitstream follows them.                                    *)
PidLen(p) ==
    IF ~p[2].i THEN 0
    ELSE IF Len(p) > 2 /\ p[3].m THEN 2 ELSE 1
TidAt(p) == 3 + PidLen(p) + (IF p[2].l THEN 1 ELSE 0)
HdrLen(p) ==
    IF ~p[1].x THEN 1
    ELSE IF p[2].t \/ p[2].k THEN TidAt(p) ELSE TidAt(p) - 1
OkWithTwo(p) ==                              \* slip: one octet of media is too few
    /\ Len(p) >= 1
    /\ p[1].x => Len(p) >= 2
    /\ HdrLen(p) + 1 < Len(p)
Ok(p) ==
    /\ Len(p) >= 1
    /\ p[1].x => Len(p) >= 2
    /\ HdrLen(p) < Len(p)

PeekKeyframe(p) == Ok(p) /\ p[1].s /\ p[HdrLen(p) + 1].key
PeekTemporalId(p) ==
    IF p[1].x /\ Len(p) >= 2 /\ p[2].t /\ Len(p) >= TidAt(p) THEN p[TidAt(p)].tid ELSE NoTid

Depacketizer == <<>>            \* _fragments, joined
Depacketize(d, pkt, open) ==
    LET p     == pkt.payload
        data  == SubSeq(p, HdrLen(p) + 1, Len(p))
        frame == IF p[1].s THEN data ELSE d \o data
    IN  IF ~Passes(open, p, 1) THEN Keep(d)
        ELSE IF ~Ok(p) THEN Refuse(d)
        ELSE IF pkt.marker
        THEN Emit(<<>>, <<Output(frame, pkt.ts, IF frame[1].key THEN "key" ELSE "delta")>>)
        ELSE Keep(frame)
=============================================================================
