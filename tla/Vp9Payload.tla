------------------------------ MODULE Vp9Payload ------------------------------
(***************************************************************************)
(* VP9Packetizer and VP9Depacketizer (src/src/vp9.js).                     *)
(*                                                                         *)
(* Octets of the descriptor: [i, p, l, f, b, e], the picture id [m, pid]   *)
(* (two octets when m is set), the layer octet [tid], and the reference    *)
(* indices [last] of flexible mode.  The first octet of a frame says key.  *)
(***************************************************************************)
EXTENDS RtpPayload

CONSTANT PidMod         \* 2^15

NoTid == -1
Packetizer(seq, hasPid) == [seq |-> seq, hasPid |-> hasPid, pid |-> PidMod - 1]

(* The descriptor the packetizer writes: P comes from the type of the      *)
(* chunk and is the same on every fragment; B and E are the ends.          *)
Descriptor(s, type, b, e) ==
    <<[i |-> s.hasPid, p |-> type = "delta", l |-> FALSE, f |-> FALSE, b |-> b, e |-> e]>>
        \o (IF s.hasPid THEN <<[m |-> TRUE, pid |-> s.pid], [pid |-> s.pid]>> ELSE <<>>)

Payloads(s, data, type) ==
    LET max == Mtu - Len(Descriptor(s, type, TRUE, TRUE))
        n   == FragmentCount(data, max)
    IN  IF Len(data) <= max THEN <<Descriptor(s, type, TRUE, TRUE) \o data>>
        ELSE [i \in 1 .. n |-> Descriptor(s, type, i = 1, i = n) \o Fragment(data, max, i)]

Packetize(s, chunk) ==
    LET payloads == Payloads(s, chunk.data, chunk.type)
    IN  [st   |-> [s EXCEPT !.seq = SeqAfter(s.seq, payloads),
                            !.pid = IF s.hasPid THEN (s.pid + 1) % PidMod ELSE s.pid],
         pkts |-> MakePackets(s.seq, payloads, UsToRtp(chunk.us))]

-----------------------------------------------------------------------------
(* readDescriptor.                                                         *)
LayersAt(p) ==
    IF ~p[1].i THEN 2
    ELSE IF Len(p) > 1 /\ p[2].m THEN 4 ELSE 3
RefsAt(p) == IF p[1].l THEN LayersAt(p) + 1 ELSE LayersAt(p)
HdrLen(p) ==
    IF ~(p[1].f /\ p[1].p) THEN RefsAt(p) - 1
    ELSE LET ends == {j \in RefsAt(p) .. Len(p) : "last" \in DOMAIN p[j] /\ p[j].last}
         IN  IF ends = {} THEN Len(p) + 1 ELSE CHOOSE j \in ends : \A k \in ends : j <= k
Ok(p) == HdrLen(p) < Len(p)

PeekKeyframe(p) == Len(p) >= 1 /\ p[1].b /\ ~p[1].p
PeekTemporalId(p) == IF p[1].l /\ LayersAt(p) <= Len(p) THEN p[LayersAt(p)].tid ELSE NoTid

Depacketizer == <<>>            \* _fragments, joined
Depacketize(d, pkt, open) ==
    LET p     == pkt.payload
        data  == SubSeq(p, HdrLen(p) + 1, Len(p))
        frame == IF p[1].b THEN data ELSE d \o data
    IN  IF ~Passes(open, p, 1) THEN Keep(d)
        ELSE IF ~Ok(p) THEN Refuse(d)
        ELSE IF p[1].e \/ pkt.marker
        THEN Emit(<<>>, <<Output(frame, pkt.ts, IF frame[1].key THEN "key" ELSE "delta")>>)
        ELSE Keep(frame)
=============================================================================
