------------------------------ MODULE DtmfPayload ------------------------------
(***************************************************************************)
(* DtmfPacketizer and DTMFDepacketizer (src/src/dtmf.js): a key press is   *)
(* one event, whose packets all carry the timestamp of its start and the   *)
(* time elapsed so far; the last packet is sent three times.  A payload is *)
(* [event, end, duration].                                                 *)
(***************************************************************************)
EXTENDS RtpPayload

CONSTANT MaxDuration    \* 2^16 - 1

NoTs   == -1
Tones  == 0 .. 15
Repeat == 3

Packetizer(seq) == [seq |-> seq]
Payload(tone, end, elapsed) ==
    [event |-> tone, end |-> end, duration |-> Smaller(elapsed, MaxDuration)]

(* startEvent, an update for every tick of the duration but the last, and  *)
(* endEvent: one marker, on the first packet of the event.                 *)
Packetize(s, chunk) ==
    LET n == chunk.updates + Repeat
        payload(i) == IF i <= chunk.updates THEN Payload(chunk.tone, FALSE, i * chunk.delta)
                      ELSE Payload(chunk.tone, TRUE, (chunk.updates + 1) * chunk.delta)
    IN  [st   |-> [seq |-> (s.seq + n) % SeqSpace],
         pkts |-> [i \in 1 .. n |-> MakePacket((s.seq + i - 1) % SeqSpace, payload(i),
                                               UsToRtp(chunk.us), i = 1)]]

-----------------------------------------------------------------------------
Depacketizer == NoTs            \* _lastEndTs
NeverRepeated(d, pkt) == FALSE               \* slip: _lastEndTs is not compared
Repeated(d, pkt) == d = pkt.ts
Depacketize(d, pkt, open) ==
    LET p == pkt.payload
    IN  IF ~open \/ p = NoPayload THEN Keep(d)
        ELSE IF p.event \notin Tones \/ ~p.end \/ Repeated(d, pkt) THEN Keep(d)
        ELSE Emit(pkt.ts, <<Output([event |-> p.event, duration |-> p.duration], pkt.ts, "tone")>>)
=============================================================================
