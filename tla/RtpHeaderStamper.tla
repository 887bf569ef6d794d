-------------------------- MODULE RtpHeaderStamper --------------------------
(***************************************************************************)
(* RtpHeaderStamper (src/src/rtp_header_stamper.js): writes the negotiated *)
(* extensions on every outgoing packet of a session.  One transport-wide   *)
(* counter serves all its streams; mid, rid and repaired rid are looked up *)
(* by the packet's SSRC.                                                   *)
(*                                                                         *)
(* An identifier is a number; on the wire it is the octets of its name.    *)
(* None stands for null and for a missing key.                             *)
(***************************************************************************)
EXTENDS RtpHeader

None    == -1
NoHints == [audioLevel |-> None, voice |-> FALSE]

Nothing == <<>>
Name(id) == Octets("name", id, 2)
Lookup(f, k) == IF k \in DOMAIN f THEN f[k] ELSE None
Without(f, k) == [i \in DOMAIN f \ {k} |-> f[i]]

(* The mid is encoded only while the map negotiates it.                    *)
MidPayload(mid, extMap) == IF "mid" \in DOMAIN extMap THEN mid ELSE None

Stamper(extMap, mid, first) ==
    [extMap |-> extMap, mid |-> mid, midPayload |-> MidPayload(mid, extMap),
     midBySsrc |-> <<>>, rid |-> <<>>, rrid |-> <<>>, twcc |-> first % SeqSpace]

(* The value of each extension, None when it is not to be written.         *)
MidOf(s, ssrc) ==
    IF Lookup(s.midBySsrc, ssrc) # None THEN s.midBySsrc[ssrc] ELSE s.midPayload

Stamp(s, pkt, hints, now) ==
    LET named == DOMAIN s.extMap
        twcc  == IF "transport-cc" \in named THEN (s.twcc + 1) % SeqSpace ELSE s.twcc
        Value(name) ==
            CASE name = "audio-level" ->
                    IF hints.audioLevel = None THEN Nothing ELSE AudioLevel(hints.audioLevel, hints.voice)
              [] name = "transport-cc"  -> TransportCC(twcc)
              [] name = "abs-send-time" -> AbsSendTime(now)
              [] name = "mid" ->
                    IF MidOf(s, pkt.ssrc) = None THEN Nothing ELSE Name(MidOf(s, pkt.ssrc))
              [] name = "rtp-stream-id" ->
                    IF Lookup(s.rid, pkt.ssrc) = None THEN Nothing ELSE Name(s.rid[pkt.ssrc])
              [] name = "repaired-rtp-stream-id" ->
                    IF Lookup(s.rrid, pkt.ssrc) = None THEN Nothing ELSE Name(s.rrid[pkt.ssrc])
              [] OTHER -> Nothing
        known == {n \in named : Value(n) # Nothing}
        batch == [id \in {s.extMap[n] : n \in known} |->
                     Value(CHOOSE n \in known : s.extMap[n] = id)]
    IN  [st  |-> [s EXCEPT !.twcc = twcc],
         pkt |-> IF known = {} THEN pkt ELSE SetHeaderExtensions(pkt, batch)]

SetMid(s, mid) == [s EXCEPT !.mid = mid, !.midPayload = MidPayload(mid, s.extMap)]
SetMidForSsrc(s, ssrc, mid) ==
    [s EXCEPT !.midBySsrc = IF mid = None THEN Without(@, ssrc) ELSE Put(@, ssrc, mid)]
SetRidForSsrc(s, ssrc, rid) ==
    [s EXCEPT !.rid = IF rid = None THEN Without(@, ssrc) ELSE Put(@, ssrc, rid)]
SetRtxRids(s, ssrc, rid, rrid) ==
    [s EXCEPT !.rid  = IF rid = None THEN @ ELSE Put(@, ssrc, rid),
              !.rrid = IF rrid = None THEN @ ELSE Put(@, ssrc, rrid)]
ClearSsrc(s, ssrc) ==
    [s EXCEPT !.midBySsrc = Without(@, ssrc), !.rid = Without(@, ssrc), !.rrid = Without(@, ssrc)]
SetExtMap(s, extMap) == [s EXCEPT !.extMap = extMap, !.midPayload = MidPayload(s.mid, extMap)]
=============================================================================
