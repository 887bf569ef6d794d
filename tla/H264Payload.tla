------------------------------ MODULE H264Payload ------------------------------
(***************************************************************************)
(* H264Packetizer and H264Depacketizer (src/src/h264.js), from NAL units   *)
(* to access units; how a chunk is split into NAL units is NalUnits.       *)
(*                                                                         *)
(* A NAL unit is [type, nri, data]: a header octet and the octets after    *)
(* it.  A payload is the record of its parts: type and nri of its first    *)
(* octet, and data (a NAL unit), nals (a STAP-A), or s, e, fu and data     *)
(* (an FU-A), or neither (an FU-A cut short, a type not supported).        *)
(***************************************************************************)
EXTENDS RtpPayload
LOCAL INSTANCE SequencesExt

CONSTANT OctetBase      \* 256
Nal == INSTANCE NalUnits

StapA == 24
FuA   == 28
Idr   == 5
NalSize(nal) == 1 + Len(nal.data)
Single(nal)  == nal.type \in 1 .. 23

Packetizer(seq) == [seq |-> seq]

(* _fragmentFUA: the header octet is not sent, its fields travel in the FU *)
(* indicator and the FU header.                                            *)
FragmentFUA(nal) ==
    LET max == Mtu - 2
        n   == FragmentCount(nal.data, max)
    IN  [i \in 1 .. n |-> [type |-> FuA, nri |-> nal.nri, s |-> i = 1, e |-> i = n,
                           fu |-> nal.type, data |-> Fragment(nal.data, max, i)]]
NalPayloads(nal) == IF NalSize(nal) <= Mtu THEN <<nal>> ELSE FragmentFUA(nal)

(* packetizeStapA: parameter sets that precede the slices of an access     *)
(* unit go first, in one packet without the marker.  packetize takes NAL   *)
(* units, or a buffer it splits.                                           *)
StapPayload(nals) == [type |-> StapA, nri |-> nals[1].nri, nals |-> nals]
Parsed(o) == [type |-> IF "type" \in DOMAIN o[1] THEN o[1].type ELSE Nal!Value(o[1]),
              nri |-> IF "nri" \in DOMAIN o[1] THEN o[1].nri ELSE 0,
              data |-> SubSeq(o, 2, Len(o))]
Nalus(chunk) ==
    IF chunk.data = <<>> THEN chunk.nalus
    ELSE LET units == Nal!SplitNALUs(chunk.data) IN [j \in DOMAIN units |-> Parsed(units[j])]
Payloads(chunk) ==
    (IF chunk.stap = <<>> THEN <<>> ELSE <<StapPayload(chunk.stap)>>)
        \o FlattenSeq([j \in DOMAIN Nalus(chunk) |-> NalPayloads(Nalus(chunk)[j])])
Packetize(s, chunk) ==
    LET payloads == Payloads(chunk)
    IN  [st   |-> [s EXCEPT !.seq = SeqAfter(s.seq, payloads)],
         pkts |-> MakePackets(s.seq, payloads, UsToRtp(chunk.us))]

-----------------------------------------------------------------------------
Has(p, field) == field \in DOMAIN p
Whole(p) == CASE p.type = StapA -> Has(p, "nals") [] p.type = FuA -> Has(p, "s") [] OTHER -> TRUE

PeekKeyframe(p) ==
    \/ Single(p) /\ p.type = Idr
    \/ p.type = StapA /\ Whole(p) /\ \E j \in DOMAIN p.nals : p.nals[j].type = Idr
    \/ p.type = FuA /\ Whole(p) /\ p.s /\ p.fu = Idr

(* The fields: _nalus; the joined _fuFragments, a NAL unit whose header is *)
(* _fuHeader, or none; _sawIDR.                                            *)
NoFu == [type |-> 0]
Depacketizer == [nalus |-> <<>>, fu |-> NoFu, sawIDR |-> FALSE]

Collect(d, nals) ==
    [d EXCEPT !.nalus = d.nalus \o nals,
              !.sawIDR = d.sawIDR \/ \E j \in DOMAIN nals : nals[j].type = Idr]

(* One fragment: a start replaces what was in flight, anything else needs  *)
(* a start before it, and an end makes the unit.                           *)
Started(p) == [type |-> p.fu, nri |-> p.nri, data |-> p.data]
Joined(d, p) == IF p.s THEN Started(p) ELSE [d.fu EXCEPT !.data = d.fu.data \o p.data]
AddFragmentKept(d, p) ==                     \* slip: the end leaves _fuFragments as they are
    IF p.e THEN Collect([d EXCEPT !.fu = Joined(d, p)], <<Joined(d, p)>>)
    ELSE [d EXCEPT !.fu = Joined(d, p)]
AddFragment(d, p) ==
    IF p.e THEN Collect([d EXCEPT !.fu = NoFu], <<Joined(d, p)>>)
    ELSE [d EXCEPT !.fu = Joined(d, p)]
NoStart(d, p) == ~p.s /\ d.fu = NoFu

(* The access unit is complete at the marker, once it has a NAL unit.      *)
Finish(d, pkt) ==
    IF pkt.marker /\ d.nalus # <<>>
    THEN Emit([d EXCEPT !.nalus = <<>>, !.sawIDR = FALSE],
              <<Output(d.nalus, pkt.ts, IF d.sawIDR THEN "key" ELSE "delta")>>)
    ELSE Keep(d)

Depacketize(d, pkt, open) ==
    LET p == pkt.payload
    IN  IF ~open \/ p = NoPayload THEN Keep(d)
        ELSE CASE Single(p) -> Finish(Collect(d, <<p>>), pkt)
               [] p.type = StapA /\ ~Whole(p) -> [Finish(d, pkt) EXCEPT !.err = TRUE]
               [] p.type = StapA /\ Whole(p) -> Finish(Collect(d, p.nals), pkt)
               [] p.type = FuA /\ (~Whole(p) \/ NoStart(d, p)) -> Refuse(d)
               [] p.type = FuA /\ Whole(p) /\ ~NoStart(d, p) -> Finish(AddFragment(d, p), pkt)
               [] OTHER -> Refuse(d)
=============================================================================
