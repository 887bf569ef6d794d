------------------------------ MODULE H265Payload ------------------------------
(***************************************************************************)
(* H265Packetizer and H265Depacketizer (src/src/h265.js).  A NAL unit is   *)
(* [type, layer, data] with a header of two octets; layer stands for the   *)
(* LayerId and TID bits.  Payloads are records as in H264Payload.          *)
(***************************************************************************)
EXTENDS RtpPayload
LOCAL INSTANCE SequencesExt

CONSTANT OctetBase      \* 256
Nal == INSTANCE NalUnits

Ap   == 48
Fu   == 49
Irap == {19, 20}                \* IDR_W_RADL, IDR_N_LP
NalSize(nal) == 2 + Len(nal.data)

Packetizer(seq) == [seq |-> seq]

(* _fragmentFU: the type moves to the FU header, the layer stays in front. *)
FragmentFU(nal) ==
    LET max == Mtu - 3
        n   == FragmentCount(nal.data, max)
    IN  [i \in 1 .. n |-> [type |-> Fu, layer |-> nal.layer, s |-> i = 1, e |-> i = n,
                           fu |-> nal.type, data |-> Fragment(nal.data, max, i)]]
NalPayloads(nal) == IF NalSize(nal) <= Mtu THEN <<nal>> ELSE FragmentFU(nal)

(* packetizeAP, then packetize, within one access unit.                    *)
ApPayload(nals) == [type |-> Ap, layer |-> nals[1].layer, nals |-> nals]
Parsed(o) == [type |-> IF "type" \in DOMAIN o[1] THEN o[1].type ELSE Nal!Value(o[1]),
              layer |-> IF "layer" \in DOMAIN o[1] THEN o[1].layer ELSE 0,
              data |-> SubSeq(o, 3, Len(o))]
Nalus(chunk) ==
    IF chunk.data = <<>> THEN chunk.nalus
    ELSE LET units == Nal!SplitNALUs(chunk.data) IN [j \in DOMAIN units |-> Parsed(units[j])]
Payloads(chunk) ==
    (IF chunk.stap = <<>> THEN <<>> ELSE <<ApPayload(chunk.stap)>>)
        \o FlattenSeq([j \in DOMAIN Nalus(chunk) |-> NalPayloads(Nalus(chunk)[j])])
Packetize(s, chunk) ==
    LET payloads == Payloads(chunk)
    IN  [st   |-> [s EXCEPT !.seq = SeqAfter(s.seq, payloads)],
         pkts |-> MakePackets(s.seq, payloads, UsToRtp(chunk.us))]

-----------------------------------------------------------------------------
Whole(p) == CASE p.type = Ap -> "nals" \in DOMAIN p [] p.type = Fu -> "s" \in DOMAIN p [] OTHER -> TRUE

PeekStartOrNot(p) ==                         \* slip: the start bit is not asked for
    \/ p.type < Ap /\ p.type \in Irap
    \/ p.type = Fu /\ Whole(p) /\ p.fu \in Irap
PeekKeyframe(p) ==
    \/ p.type < Ap /\ p.type \in Irap
    \/ p.type = Ap /\ Whole(p) /\ \E j \in DOMAIN p.nals : p.nals[j].type \in Irap
    \/ p.type = Fu /\ Whole(p) /\ p.s /\ p.fu \in Irap

(* The fields: _nalus; the joined _fuFragments under _fuHdrHi and _fuHdrLo, *)
(* or none; _sawIDR.                                                       *)
NoFu == [type |-> 0]
Depacketizer == [nalus |-> <<>>, fu |-> NoFu, sawIDR |-> FALSE]

Collect(d, nals) ==
    [d EXCEPT !.nalus = d.nalus \o nals,
              !.sawIDR = d.sawIDR \/ \E j \in DOMAIN nals : nals[j].type \in Irap]
Joined(d, p) ==
    IF p.s THEN [type |-> p.fu, layer |-> p.layer, data |-> p.data]
    ELSE [d.fu EXCEPT !.data = d.fu.data \o p.data]
AddFragment(d, p) ==
    IF p.e THEN Collect([d EXCEPT !.fu = NoFu], <<Joined(d, p)>>)
    ELSE [d EXCEPT !.fu = Joined(d, p)]
NoStart(d, p) == ~p.s /\ d.fu = NoFu

Finish(d, pkt) ==
    IF pkt.marker /\ d.nalus # <<>>
    THEN Emit([d EXCEPT !.nalus = <<>>, !.sawIDR = FALSE],
              <<Output(d.nalus, pkt.ts, IF d.sawIDR THEN "key" ELSE "delta")>>)
    ELSE Keep(d)

Depacketize(d, pkt, open) ==
    LET p == pkt.payload
    IN  IF ~open \/ p = NoPayload THEN Keep(d)
        ELSE CASE p.type = Ap /\ ~Whole(p) -> [Finish(d, pkt) EXCEPT !.err = TRUE]
               [] p.type = Ap /\ Whole(p) -> Finish(Collect(d, p.nals), pkt)
               [] p.type = Fu /\ (~Whole(p) \/ NoStart(d, p)) -> Refuse(d)
               [] p.type = Fu /\ Whole(p) /\ ~NoStart(d, p) -> Finish(AddFragment(d, p), pkt)
               [] p.type < Ap -> Finish(Collect(d, <<p>>), pkt)
               [] OTHER -> Refuse(d)
=============================================================================
