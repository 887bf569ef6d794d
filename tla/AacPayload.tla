------------------------------ MODULE AacPayload ------------------------------
(***************************************************************************)
(* AacPacketizer and AacDepacketizer (src/src/aac.js), AAC-hbr.  A payload *)
(* is [bits, hdrs, data]: the length of the AU headers in bits, the        *)
(* headers of 16 bits with the size of each access unit, and the octets    *)
(* of the units.                                                           *)
(***************************************************************************)
EXTENDS RtpPayload
LOCAL INSTANCE SequencesExt

CONSTANTS
    MaxAuSize,          \* 2^13 - 1
    ConstantDuration    \* opts.constantDuration

Packetizer(seq) == [seq |-> seq]
AuPayload(data, size) == [bits |-> 16, hdrs |-> <<size>>, data |-> data]

(* An access unit the size field cannot hold is dropped, and so is an      *)
(* empty one; every fragment announces the size of the whole unit.         *)
Payloads(data) ==
    LET max == Mtu - 4
        n   == FragmentCount(data, max)
    IN  CASE data = <<>> \/ Len(data) > MaxAuSize -> <<>>
          [] data # <<>> /\ Len(data) <= MaxAuSize /\ (max <= 0 \/ Len(data) <= max) ->
                <<AuPayload(data, Len(data))>>
          [] OTHER -> [i \in 1 .. n |-> AuPayload(Fragment(data, max, i), Len(data))]

(* A sender that aggregates: whole units one after another.                *)
Aggregate(aus) == [bits |-> 16 * Len(aus), hdrs |-> [j \in DOMAIN aus |-> Len(aus[j])],
                   data |-> FlattenSeq(aus)]

Packetize(s, chunk) ==
    LET payloads == IF Len(chunk.aus) = 1 THEN Payloads(chunk.aus[1])
                    ELSE <<Aggregate(chunk.aus)>>
    IN  [st   |-> [s EXCEPT !.seq = SeqAfter(s.seq, payloads)],
         pkts |-> MakePackets(s.seq, payloads, UsToRtp(chunk.us))]

-----------------------------------------------------------------------------
(* The fields: the joined _fragments (their length is _receivedSize), or   *)
(* idle; _expectedSize; _fragmentTimestamp.                                *)
Depacketizer == [busy |-> FALSE, data |-> <<>>, expected |-> 0, ts |-> 0]

(* _handleFragment: a fragment that announces another size belongs to      *)
(* another unit, and the unit in progress is given up.                     *)
OtherUnit(d, size) == d.busy /\ d.expected # size
HandleFragment(d, p, pkt) ==
    LET size == p.hdrs[1]
        next == IF ~d.busy \/ OtherUnit(d, size)
                THEN [busy |-> TRUE, data |-> p.data, expected |-> size, ts |-> pkt.ts]
                ELSE [d EXCEPT !.data = d.data \o p.data]
        after == CASE ~pkt.marker -> Keep(next)
                   [] pkt.marker /\ Len(next.data) # size -> Refuse(Depacketizer)
                   [] OTHER -> Emit(Depacketizer, <<Output(next.data, next.ts, "key")>>)
    IN  [after EXCEPT !.err = after.err \/ OtherUnit(d, size)]

(* Several headers: whole units, each a constant duration after the last.  *)
Units(p, ts) ==
    LET start[j \in Nat] == IF j = 1 THEN 0 ELSE start[j - 1] + p.hdrs[j - 1]
        fits == {j \in DOMAIN p.hdrs : \A k \in 1 .. j : start[k] + p.hdrs[k] <= Len(p.data)}
        n    == IF fits = {} THEN 0 ELSE CHOOSE j \in fits : \A k \in fits : k <= j
    IN  [j \in 1 .. n |-> Output(SubSeq(p.data, start[j] + 1, start[j] + p.hdrs[j]),
                                 (ts + (j - 1) * ConstantDuration) % TsMod, "key")]

HeadersFit(p) == (p.bits + 7) \div 8 <= 2 * Len(p.hdrs) + Len(p.data)
Depacketize(d, pkt, open) ==
    LET p == pkt.payload
        n == p.bits \div 16
    IN  CASE ~open \/ p = NoPayload -> Keep(d)
          [] ~HeadersFit(p) \/ p.bits % 16 # 0 -> Refuse(d)
          [] n = 1 /\ Len(p.data) < p.hdrs[1] -> HandleFragment(d, p, pkt)
          [] n = 1 /\ Len(p.data) > p.hdrs[1] -> Refuse(d)
          [] n = 1 /\ Len(p.data) = p.hdrs[1] ->
                Emit(Depacketizer, <<Output(p.data, pkt.ts, "key")>>)
          [] OTHER -> [st |-> Depacketizer, out |-> Units(p, pkt.ts), err |-> Len(Units(p, pkt.ts)) < n]
=============================================================================
