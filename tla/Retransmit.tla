----------------------------- MODULE Retransmit -----------------------------
(***************************************************************************)
(* The sending side of retransmission (src/src/retransmit.js):             *)
(* SenderBuffer, a ring of recent packets per SSRC; RtxStream, which wraps *)
(* a packet for the retransmission stream; parseRtxPacket, which unwraps   *)
(* it at the other end; and NackThrottle, which passes over a request      *)
(* repeated too soon.                                                      *)
(***************************************************************************)
EXTENDS RtpHeader

CONSTANTS
    RingSize,           \* opts.size, 512
    ThrottleWindow,     \* opts.windowMs, in ticks of the clock
    SweepWindows        \* how many windows a throttle's entry is kept: 20

(* Assumed by ControlPath.                                                 *)
RetransmitAssumption ==
    /\ RingSize \in Nat \ {0} /\ SeqSpace % RingSize = 0   \* so that a ring holds the last RingSize packets
    /\ ThrottleWindow \in Nat \ {0} /\ SweepWindows \in Nat \ {0}

-----------------------------------------------------------------------------
(* SenderBuffer: for each SSRC the slots that hold a packet.               *)
NoRings == <<>>
Store(rings, pkt) ==
    LET ring == IF pkt.ssrc \in DOMAIN rings THEN rings[pkt.ssrc] ELSE <<>>
    IN  Put(rings, pkt.ssrc, Put(ring, pkt.seq % RingSize, pkt))

Get(rings, ssrc, seq) ==
    IF ssrc \notin DOMAIN rings \/ seq % RingSize \notin DOMAIN rings[ssrc] THEN NoPacket
    ELSE LET slot == rings[ssrc][seq % RingSize]
         IN  IF slot.seq = seq THEN slot ELSE NoPacket
ClearRing(rings, ssrc) == [s \in DOMAIN rings \ {ssrc} |-> rings[s]]

-----------------------------------------------------------------------------
(* The header's length, as both ends compute it.                           *)
HeaderLen(pkt) == IF HasBlock(pkt) THEN BlockEnd(pkt) ELSE CsrcEnd(pkt)

(* The original sequence number goes before the payload.                   *)
BuildRtxPacket(pkt, rtxSsrc, rtxPt, rtxSeq) ==
    LET h == HeaderLen(pkt)
    IN  IF Len(pkt.body) < h THEN NoPacket
        ELSE [pkt EXCEPT !.pt = rtxPt, !.seq = rtxSeq, !.ssrc = rtxSsrc,
                         !.body = SubSeq(@, 1, h) \o Octets("osn", pkt.seq, 2)
                                  \o SubSeq(@, h + 1, Len(@))]

(* RtxStream.wrap: the stream's own counter advances first.                *)
Wrap(seq, pkt, rtxSsrc, rtxPt) ==
    [seq |-> (seq + 1) % SeqSpace,
     pkt |-> BuildRtxPacket(pkt, rtxSsrc, rtxPt, (seq + 1) % SeqSpace)]

(* Padding is left behind before the original number is read: a packet of  *)
(* padding alone is a probe for bandwidth and repairs nothing.             *)
ParseRtxPacketPadded(pkt, ssrc, pt) == \* slip: the padding is read as payload
    LET h == HeaderLen(pkt)
    IN  IF Len(pkt.body) < h + 2 THEN NoPacket
        ELSE [pkt EXCEPT !.pt = pt, !.seq = pkt.body[h + 1].v, !.ssrc = ssrc,
                         !.body = SubSeq(@, 1, h) \o SubSeq(@, h + 3, Len(@))]

ParseRtxPacket(pkt, ssrc, pt) ==
    LET h   == HeaderLen(pkt)
        end == Len(pkt.body) - PaddingOf(pkt, h)
    IN  IF end < h + 2 THEN NoPacket
        ELSE [pkt EXCEPT !.p = FALSE, !.pt = pt, !.seq = pkt.body[h + 1].v, !.ssrc = ssrc,
                         !.body = SubSeq(@, 1, h) \o SubSeq(@, h + 3, end)]

-----------------------------------------------------------------------------
(* NackThrottle: for each pair of SSRC and sequence number the time since  *)
(* it was last let through.  Nothing tells apart the times over OldAge.    *)
NoRequests == <<>>
OldAge == ThrottleWindow * SweepWindows + 1
Aged(last) == [k \in DOMAIN last |-> Least(last[k] + 1, OldAge)]

EvictInverted(last) ==               \* slip: the sweep keeps what it should drop
    LET kept == {k \in DOMAIN last : last[k] > ThrottleWindow * SweepWindows}
    IN  [k \in kept |-> last[k]]

EvictExpired(last) ==
    LET kept == {k \in DOMAIN last : last[k] <= ThrottleWindow * SweepWindows}
    IN  [k \in kept |-> last[k]]

ShouldSendUnset(last, key, sweep) == \* slip: now - undefined >= window is false
    IF key \notin DOMAIN last \/ last[key] < ThrottleWindow
    THEN [yes |-> FALSE, last |-> last]
    ELSE LET now == Put(last, key, 0)
         IN  [yes |-> TRUE, last |-> IF sweep THEN EvictExpired(now) ELSE now]

(* The sweep happens one call in a hundred: sweep says whether it does.    *)
ShouldSend(last, key, sweep) ==
    IF key \in DOMAIN last /\ last[key] < ThrottleWindow
    THEN [yes |-> FALSE, last |-> last]
    ELSE LET now == Put(last, key, 0)
         IN  [yes |-> TRUE, last |-> IF sweep THEN EvictExpired(now) ELSE now]
=============================================================================
