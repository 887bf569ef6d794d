------------------------------ MODULE PayloadPath ------------------------------
(***************************************************************************)
(* A media frame on its way: a packetizer, a network, and the depacketizer *)
(* of the same codec (the factories of index.js pair them by name).        *)
(*                                                                         *)
(* The depacketizers of video, AAC and DTMF expect their packets in order, *)
(* some missing: what a JitterBuffer hands on (JitterBuffer!Ordered).      *)
(* Opus, G.711, G.722, RED and FlexFEC take packets as the network         *)
(* delivers them, late or twice.                                           *)
(***************************************************************************)
EXTENDS RtpPayload, FiniteSets
LOCAL INSTANCE TLC

CONSTANTS
    PidMod, OctetBase, MaxAuSize, ConstantDuration, Redundancy, MaxTsOffset, MaxBlockLen,
    HistorySize, MaxDuration, GroupSize, MaxMask, WindowSize, MaxFec,
    Shapes,             \* for each codec, the frames its encoder makes
    StartSeq, StartUs,  \* where the stream begins
    MaxFrames,          \* bound, for each codec: frames of a stream
    MaxReorder,         \* bound, for each codec: how far behind a packet is overtaken
    MaxLost,            \* bound, for each codec: frames that lose packets
    MaxDups             \* bound, for each codec: packets delivered twice

Seqs  == INSTANCE SequencesExt
Vp8   == INSTANCE Vp8Payload
Vp9   == INSTANCE Vp9Payload
Av1   == INSTANCE Av1Payload
H264  == INSTANCE H264Payload
H265  == INSTANCE H265Payload
Aac   == INSTANCE AacPayload
Audio == INSTANCE AudioPayload
Red   == INSTANCE RedPayload
Dtmf  == INSTANCE DtmfPayload
Fec   == INSTANCE FlexFec

(* A stream starts at a number, and a group of FlexFEC fits its mask.      *)
ASSUME PathAssumption ==
    /\ StartSeq \in 0 .. SeqSpace - 1
    /\ MaxMask \in 1 .. SeqSpace /\ GroupSize \in 1 .. MaxMask
    /\ WindowSize \in Nat \ {0} /\ MaxFec \in Nat \ {0}

Codecs   == DOMAIN Shapes
Nal      == {"h264", "h265"}
Frames   == {"vp8", "vp8pid", "vp8svc", "vp9", "vp9svc", "av1"}
Video    == Nal \cup Frames
SelfSync == Codecs \ (Nal \cup {"aac"})     \* a frame needs no frame before it

VARIABLES
    codec,              \* which codec this stream is of
    pk,                 \* the packetizer's fields
    sent,               \* history: the frames given to the packetizer
    posted,             \* history: how many packets were sent
    net,                \* the packets on their way, each with its frame's number
    dp,                 \* the depacketizer's fields
    open,               \* close() was not called
    out,                \* what output() was given
    hurt,               \* history: the frames that lost a packet
    fresh,              \* history: the frames that begin right after a reset, 0 for none
    errs,               \* history: error() was called for a packet of the stream
    dups                \* history: packets delivered twice

pathVars == <<codec, pk, sent, posted, net, dp, open, out, hurt, fresh, errs, dups>>

-----------------------------------------------------------------------------
(* The encoder's frame n of a given shape.  A cell is one octet of media;  *)
(* key marks the first octet of a key frame, or of an IDR NAL unit.        *)
Cells(n, from, size, key) ==
    [i \in 1 .. size |-> [n |-> n, i |-> from + i, key |-> key /\ i = 1]]
NalUnits(n, from, units) ==
    [j \in DOMAIN units |->
        LET nal == [type |-> units[j].type, data |-> Cells(n, 10 * (from + j), units[j].size,
                                                           units[j].type \in {5, 19, 20})]
        IN  IF codec = "h264" THEN nal @@ [nri |-> 3] ELSE nal @@ [layer |-> 1]]
Written(nal) ==
    IF codec = "h264" THEN <<[type |-> nal.type, nri |-> nal.nri]>> \o nal.data
    ELSE <<[type |-> nal.type, layer |-> nal.layer], [tid |-> 1]>> \o nal.data
Framed(framing, nals) ==
    CASE framing = "none"    -> <<>>
      [] framing = "annexb"  -> H264!Nal!JoinAnnexB(H264!Nal!Code4, nals)
      [] framing = "annexb3" -> H264!Nal!JoinAnnexB(H264!Nal!Code3, nals)
      [] framing = "avcc"    -> H264!Nal!JoinAvcc(nals)
Us(n, shape) == (IF n = 1 THEN StartUs ELSE sent[n - 1].us) + shape.step
Chunk(n, shape) ==
    LET us == Us(n, shape)
    IN  CASE codec \in Frames ->
                [us |-> us, data |-> Cells(n, 0, shape.size, shape.key),
                 type |-> IF shape.key THEN "key" ELSE "delta", tid |-> shape.tid]
          [] codec \in Nal ->
                LET nalus == NalUnits(n, Len(shape.stap), shape.nalus)
                IN  [us |-> us, stap |-> NalUnits(n, 0, shape.stap), nalus |-> nalus,
                     data |-> Framed(shape.framing, [j \in DOMAIN nalus |-> Written(nalus[j])])]
          [] codec = "aac" ->
                [us |-> us, aus |-> [j \in DOMAIN shape.aus |-> Cells(n, 10 * j, shape.aus[j], FALSE)]]
          [] codec \in {"opus", "g711", "g722", "red"} ->
                [us |-> us, data |-> Cells(n, 0, shape.size, FALSE), marker |-> shape.marker]
          [] codec = "dtmf" ->
                [us |-> us, tone |-> shape.tone, updates |-> shape.updates, delta |-> shape.delta]
          [] codec = "flexfec" ->
                [us |-> us, ids |-> {n}, len |-> shape.len, last |-> shape.last]

(* A sender with temporal layers, which the library only receives.         *)
SvcPrefix(chunk, first) ==
    IF codec = "vp8svc"
    THEN <<[x |-> TRUE, s |-> first], [i |-> TRUE, l |-> TRUE, t |-> TRUE, k |-> FALSE],
           [m |-> FALSE, pid |-> 1], [tl0 |-> 1], [tid |-> chunk.tid]>>
    ELSE <<[i |-> TRUE, p |-> chunk.type = "delta", l |-> TRUE, f |-> TRUE, b |-> first, e |-> ~first],
           [m |-> FALSE, pid |-> 1], [tid |-> chunk.tid]>>
         \o (IF chunk.type = "delta" THEN <<[last |-> FALSE], [last |-> TRUE]>> ELSE <<>>)
SvcPacketize(s, chunk) ==
    LET half(i) == Fragment(chunk.data, FragmentCount(chunk.data, 2), i)
        payloads == [i \in 1 .. 2 |-> SvcPrefix(chunk, i = 1) \o half(i)]
    IN  [st   |-> [s EXCEPT !.seq = SeqAfter(s.seq, payloads)],
         pkts |-> MakePackets(s.seq, payloads, UsToRtp(chunk.us))]

Packetizer ==
    CASE codec \in {"vp8", "vp8svc"} -> Vp8!Packetizer(StartSeq, FALSE)
      [] codec = "vp8pid"            -> Vp8!Packetizer(StartSeq, TRUE)
      [] codec \in {"vp9", "vp9svc"} -> Vp9!Packetizer(StartSeq, TRUE)
      [] codec = "av1"     -> Av1!Packetizer(StartSeq)
      [] codec = "h264"    -> H264!Packetizer(StartSeq)
      [] codec = "h265"    -> H265!Packetizer(StartSeq)
      [] codec = "aac"     -> Aac!Packetizer(StartSeq)
      [] codec = "opus"    -> Audio!OpusPacketizer(StartSeq)
      [] codec = "g711"    -> Audio!G711Packetizer(StartSeq)
      [] codec = "g722"    -> Audio!G722Packetizer(StartSeq)
      [] codec = "red"     -> Red!Packetizer(StartSeq)
      [] codec = "dtmf"    -> Dtmf!Packetizer(StartSeq)
      [] codec = "flexfec" -> Fec!Encoder(StartSeq)
Packetize(s, chunk) ==
    CASE codec \in {"vp8", "vp8pid"}    -> Vp8!Packetize(s, chunk)
      [] codec \in {"vp8svc", "vp9svc"} -> SvcPacketize(s, chunk)
      [] codec = "vp9"     -> Vp9!Packetize(s, chunk)
      [] codec = "av1"     -> Av1!Packetize(s, chunk)
      [] codec = "h264"    -> H264!Packetize(s, chunk)
      [] codec = "h265"    -> H265!Packetize(s, chunk)
      [] codec = "aac"     -> Aac!Packetize(s, chunk)
      [] codec = "opus"    -> Audio!OpusPacketize(s, chunk)
      [] codec = "g711"    -> Audio!G711Packetize(s, chunk)
      [] codec = "g722"    -> Audio!G722Packetize(s, chunk)
      [] codec = "red"     -> Red!Packetize(s, chunk)
      [] codec = "dtmf"    -> Dtmf!Packetize(s, chunk)
      [] codec = "flexfec" -> Fec!Packetize(s, chunk)
Depacketizer ==
    CASE codec \in {"vp8", "vp8pid", "vp8svc"} -> Vp8!Depacketizer
      [] codec \in {"vp9", "vp9svc"} -> Vp9!Depacketizer
      [] codec = "av1"     -> Av1!Depacketizer
      [] codec = "h264"    -> H264!Depacketizer
      [] codec = "h265"    -> H265!Depacketizer
      [] codec = "aac"     -> Aac!Depacketizer
      [] codec = "opus"    -> Audio!OpusDepacketizer
      [] codec = "g711"    -> Audio!G711Depacketizer
      [] codec = "g722"    -> Audio!G722Depacketizer
      [] codec = "red"     -> Red!Depacketizer
      [] codec = "dtmf"    -> Dtmf!Depacketizer
      [] codec = "flexfec" -> Fec!Decoder
Depacketize(d, pkt) ==
    CASE codec \in {"vp8", "vp8pid", "vp8svc"} -> Vp8!Depacketize(d, pkt, open)
      [] codec \in {"vp9", "vp9svc"} -> Vp9!Depacketize(d, pkt, open)
      [] codec = "av1"     -> Av1!Depacketize(d, pkt, open)
      [] codec = "h264"    -> H264!Depacketize(d, pkt, open)
      [] codec = "h265"    -> H265!Depacketize(d, pkt, open)
      [] codec = "aac"     -> Aac!Depacketize(d, pkt, open)
      [] codec = "opus"    -> Audio!OpusDepacketize(d, pkt, open)
      [] codec = "g711"    -> Audio!G711Depacketize(d, pkt, open)
      [] codec = "g722"    -> Audio!G722Depacketize(d, pkt, open)
      [] codec = "red"     -> Red!Depacketize(d, pkt, open)
      [] codec = "dtmf"    -> Dtmf!Depacketize(d, pkt, open)
      [] codec = "flexfec" -> Fec!Depacketize(d, pkt, open)
PeekKeyframe(p) ==
    CASE codec \in {"vp8", "vp8pid", "vp8svc"} -> Vp8!PeekKeyframe(p)
      [] codec \in {"vp9", "vp9svc"} -> Vp9!PeekKeyframe(p)
      [] codec = "av1"  -> Av1!PeekKeyframe(p)
      [] codec = "h264" -> H264!PeekKeyframe(p)
      [] codec = "h265" -> H265!PeekKeyframe(p)
PeekTemporalId(p) ==
    IF codec \in {"vp8", "vp8pid", "vp8svc"} THEN Vp8!PeekTemporalId(p) ELSE Vp9!PeekTemporalId(p)

(* Payloads no frame is made of: padding-only probes, and malformed ones.  *)
Runts ==
    CASE codec \in {"vp8", "vp8pid", "vp8svc"} -> {<<>>, <<[x |-> TRUE, s |-> TRUE]>>, <<[x |-> FALSE, s |-> TRUE]>>}
      [] codec \in {"vp9", "vp9svc"} ->
            {<<>>, <<[i |-> TRUE, p |-> FALSE, l |-> FALSE, f |-> FALSE, b |-> TRUE, e |-> TRUE]>>}
      [] codec = "h264" -> {NoPayload} \cup {[type |-> t, nri |-> 3] : t \in {24, 28, 30}}
      [] codec = "h265" -> {NoPayload} \cup {[type |-> t, layer |-> 1] : t \in {48, 49, 50}}
      [] codec = "aac"  -> {NoPayload} \cup {[bits |-> b, hdrs |-> <<>>, data |-> <<>>] : b \in {16, 20}}
      [] codec = "red"  -> {NoPayload, [blocks |-> <<>>]}
      [] codec = "dtmf" -> {NoPayload, [event |-> 16, end |-> TRUE, duration |-> 1]}
      [] codec = "flexfec" -> {[fec |-> TRUE, mask |-> {}]}
      [] OTHER -> {<<>>}

-----------------------------------------------------------------------------
Init ==
    /\ codec \in Codecs
    /\ pk = Packetizer /\ sent = <<>> /\ posted = 0 /\ net = <<>>
    /\ dp = Depacketizer /\ open = TRUE /\ out = <<>>
    /\ hurt = {} /\ fresh = {} /\ errs = FALSE /\ dups = 0

(* The two ends share no state, so the next frame may wait until few       *)
(* packets are on their way.  A repair packet is known by its last frame,  *)
(* negated.                                                                *)
Encode ==
    \E shape \in Shapes[codec] :
        LET n     == Len(sent) + 1
            chunk == Chunk(n, shape)
            res   == Packetize(pk, chunk)
            frame(i) == IF codec = "flexfec" /\ i > 1 THEN -n ELSE n
        IN  /\ open /\ n <= MaxFrames[codec] /\ Len(net) <= MaxReorder[codec]
            /\ pk' = res.st
            /\ sent' = Append(sent, chunk)
            /\ net' = net \o [i \in DOMAIN res.pkts |-> [f |-> frame(i), at |-> posted + i, dup |-> FALSE,
                                                    pkt |-> res.pkts[i]]]
            /\ posted' = posted + Len(res.pkts)
            /\ UNCHANGED <<codec, dp, open, out, hurt, fresh, errs, dups>>

Take(res) == dp' = res.st /\ out' = out \o res.out

(* The network delivers packet i ahead of those before it that were sent   *)
(* shortly before.                                                         *)
Reach == {i \in DOMAIN net : net[i].at - net[1].at <= MaxReorder[codec]}

Deliver ==
    \E i \in Reach :
        LET res == Depacketize(dp, net[i].pkt)
        IN  /\ Take(res)
            /\ errs' = (errs \/ res.err)
            /\ net' = Seqs!RemoveAt(net, i)
            /\ UNCHANGED <<codec, pk, sent, posted, open, hurt, fresh, dups>>

Duplicate ==
    \E i \in Reach :
        LET res == Depacketize(dp, net[i].pkt)
        IN  /\ open /\ dups < MaxDups[codec]
            /\ Take(res)
            /\ errs' = (errs \/ res.err)
            /\ net' = [net EXCEPT ![i].dup = TRUE]
            /\ dups' = dups + 1
            /\ UNCHANGED <<codec, pk, sent, posted, open, hurt, fresh>>

Lose ==
    \E i \in Reach :
        /\ open
        /\ hurt' = IF net[i].dup THEN hurt ELSE hurt \cup {net[i].f}
        /\ Cardinality(hurt') <= MaxLost[codec]
        /\ net' = Seqs!RemoveAt(net, i)
        /\ UNCHANGED <<codec, pk, sent, posted, dp, open, out, fresh, errs, dups>>

(* A packet of the stream that no frame is made of: a bandwidth probe of   *)
(* padding only, or a payload the depacketizer cannot read.                *)
Stray ==
    \E p \in Runts :
        /\ Take(Depacketize(dp, MakePacket(0, p, 0, FALSE)))
        /\ UNCHANGED <<codec, pk, sent, posted, net, open, hurt, fresh, errs, dups>>

(* reset(): what is on its way of a frame already begun is of no use.  The *)
(* frame that finds the depacketizer as new is the next one, if no packet  *)
(* is on its way (0 otherwise).                                            *)
After == IF net = <<>> THEN Len(sent) + 1 ELSE 0
Partial == {n \in 1 .. Len(sent) : \E i \in DOMAIN net : net[i].f = n}
Reset ==
    /\ open /\ fresh = {}       \* bound: one reset, or a close
    /\ dp' = Depacketizer
    /\ hurt' = IF codec \in SelfSync \ Frames THEN hurt ELSE hurt \cup Partial
    /\ fresh' = fresh \cup {After}
    /\ UNCHANGED <<codec, pk, sent, posted, net, open, out, errs, dups>>

Close ==
    /\ open /\ fresh = {}
    /\ open' = FALSE
    /\ dp' = Depacketizer
    /\ hurt' = hurt \cup {net[i].f : i \in DOMAIN net}
    /\ fresh' = fresh \cup {After}
    /\ UNCHANGED <<codec, pk, sent, posted, net, out, errs, dups>>

Next == Encode \/ Deliver \/ Duplicate \/ Lose \/ Stray \/ Reset \/ Close
Spec == Init /\ [][Next]_pathVars

-----------------------------------------------------------------------------
(* What a frame of the encoder is once it has come through.                *)
Ticks(us) == ((us * ClockRate) \div UsPerSec) % TsMod
KeyCell(s) == \E i \in DOMAIN s : "key" \in DOMAIN s[i] /\ s[i].key
KeyNal(nals) == \E j \in DOMAIN nals : KeyCell(nals[j].data)
Kind(isKey) == IF isKey THEN "key" ELSE "delta"
Gap(n) == n = 1 \/ 2 * (sent[n].us - sent[n - 1].us) > UsPerSec
Expected(n) ==
    LET c  == sent[n]
        ts == Ticks(c.us)
        nals == c.stap \o c.nalus
        pieces == FragmentCount(c.data, Mtu)
    IN  CASE codec \in Frames -> <<Output(c.data, ts, c.type)>>
          [] codec \in Nal    -> <<Output(nals, ts, Kind(KeyNal(nals)))>>
          [] codec = "aac" /\ Len(c.aus) = 1 ->
                IF Len(c.aus[1]) \in 1 .. MaxAuSize THEN <<Output(c.aus[1], ts, "key")>> ELSE <<>>
          [] codec = "aac" /\ Len(c.aus) > 1 ->
                [j \in DOMAIN c.aus |-> Output(c.aus[j], (ts + (j - 1) * ConstantDuration) % TsMod, "key")]
          [] codec = "opus" -> <<[data |-> c.data, ts |-> ts, type |-> "key", marker |-> Gap(n)]>>
          [] codec \in {"g711", "g722"} ->
                [i \in 1 .. pieces |->
                    [data |-> SubSeq(c.data, (i - 1) * Mtu + 1, Smaller(i * Mtu, Len(c.data))),
                     ts |-> (ts + (i - 1) * Mtu) % TsMod, type |-> "key", marker |-> i = 1 /\ c.marker]]
          [] codec = "red" -> <<[data |-> c.data, ts |-> ts]>>
          [] codec = "dtmf" ->
                <<Output([event |-> c.tone, duration |-> Smaller((c.updates + 1) * c.delta, MaxDuration)],
                         ts, "tone")>>
          [] codec = "flexfec" -> <<>>
Original(n) == [fec |-> FALSE, seq |-> (StartSeq + n - 1) % SeqSpace, ids |-> sent[n].ids, len |-> sent[n].len]

(* An output is the frame's e; a frame of RED also says how it came.       *)
Is(o, e) == \A field \in DOMAIN e : o[field] = e[field]
Shown(e) == \E j \in DOMAIN out : Is(out[j], e)

Sent == 1 .. Len(sent)
Came(f) == f \notin hurt /\ \A i \in DOMAIN net : net[i].f # f \/ net[i].dup
CleanStart(n) ==
    \/ n = 1 \/ n \in fresh \/ codec \in SelfSync
    \/ n - 1 \notin hurt /\ Expected(n - 1) # <<>>

(* A frame none of whose packets was lost comes out as it went in: its     *)
(* octets, its timestamp and its type, whatever happened to the others.  A *)
(* codec whose payloads do not say where a frame begins (H.264, H.265,     *)
(* AAC) needs the frame before it complete as well, or a reset.            *)
IntactSurvives ==
    \A n \in Sent : Came(n) /\ CleanStart(n) =>
        \A j \in DOMAIN Expected(n) : Shown(Expected(n)[j])

(* No frame comes out twice: an event of DTMF sent three times at its end, *)
(* a frame of RED that comes in several packets, in any order, a packet    *)
(* that FlexFEC recovers and that arrives late.                            *)
NothingTwice ==
    fresh = {} /\ (dups = 0 \/ codec \in {"red", "flexfec"}) =>
        \A i, j \in DOMAIN out : i # j => ~Is(out[i], out[j])

(* Octets come out in the order they went in and at most once, whichever   *)
(* packets were lost: no fragment is used twice or ahead of its turn.  A   *)
(* NAL unit cut short may come out after the units that followed it, so    *)
(* for H.264 and H.265 the order is the one within each unit.              *)
Units == IF codec \in Nal
         THEN Seqs!FlattenSeq([i \in DOMAIN out |-> [j \in DOMAIN out[i].data |-> out[i].data[j].data]])
         ELSE [i \in DOMAIN out |-> out[i].data]
Ascending(cells) ==
    \A i \in 1 .. Len(cells) - 1 :
        \/ cells[i].n < cells[i + 1].n
        \/ cells[i].n = cells[i + 1].n /\ cells[i].i < cells[i + 1].i
InSendingOrder ==
    /\ codec \in Frames \cup {"aac"} => Ascending(Seqs!FlattenSeq(Units))
    /\ codec \in Nal =>
        /\ \A j \in DOMAIN Units : Ascending(Units[j])
        /\ Seqs!IsInjective(Seqs!FlattenSeq(Units))

(* Redundancy recovers what it is sent for.  RED: a lost frame comes out   *)
(* if one of the next Redundancy packets comes, unless its header could    *)
(* not hold the frame.  FlexFEC: one lost packet of a group comes out, as  *)
(* it was sent, once the rest of the group and its repair have come, in    *)
(* any order.                                                              *)
Fits(n, m) ==
    (Ticks(sent[m].us) - Ticks(sent[n].us)) % TsMod <= MaxTsOffset /\ Len(sent[n].data) <= MaxBlockLen
Members(n) ==
    LET first[m \in Sent] ==
            IF m = 1 \/ sent[m - 1].last \/ m - first[m - 1] = GroupSize THEN m ELSE first[m - 1]
    IN  first[n] .. n
RedundancyHeals ==
    /\ codec = "red" =>
        \A n \in Sent : \A m \in n + 1 .. Smaller(n + Redundancy, Len(sent)) :
            Came(m) /\ Fits(n, m) => Shown(Expected(n)[1])
    /\ codec = "flexfec" /\ fresh = {} =>
        \A n \in Sent : Came(-n) /\ (sent[n].last \/ Cardinality(Members(n)) = GroupSize) =>
            \A lost \in hurt \cap Members(n) :
                (\A m \in Members(n) \ {lost} : Came(m)) => Shown(Original(lost))

(* Nothing comes out that no frame was: a recovered packet is the one that *)
(* was lost, bit for bit; an audio frame or an event is one that was sent; *)
(* an access unit of AAC has the size of one that was sent; and while      *)
(* nothing is lost no codec makes up anything.                             *)
Verbatim == \A j \in DOMAIN out : \E n \in Sent : out[j] = Original(n)
NothingInvented ==
    IF codec = "flexfec" THEN Verbatim
    ELSE \A j \in DOMAIN out :
        CASE codec = "aac" /\ hurt # {} ->
                \E n \in Sent : \E k \in DOMAIN Expected(n) : Len(Expected(n)[k].data) = Len(out[j].data)
          [] codec \in Video /\ hurt # {} -> out[j].data # <<>>
          [] OTHER -> \E n \in Sent : \E k \in DOMAIN Expected(n) : Is(out[j], Expected(n)[k])

(* The framing of MP4 files and of WebCodecs is understood: while no packet *)
(* is lost, an access unit given in it comes out.                          *)
AvccSurvives ==
    codec \in Nal /\ hurt = {} /\ fresh = {} /\ net = <<>> =>
        \A n \in Sent : Shown(Expected(n)[1])

(* What a relay learns from a packet without a depacketizer is true of the *)
(* frame: a key frame begins in it or not, and its temporal layer.         *)
Octets(p) ==
    IF codec \in Frames THEN p
    ELSE IF "nals" \in DOMAIN p THEN Seqs!FlattenSeq([j \in DOMAIN p.nals |-> p.nals[j].data]) ELSE p.data
PeekAgrees ==
    codec \in Video =>
        \A i \in DOMAIN net :
            LET p == net[i].pkt.payload
            IN  /\ PeekKeyframe(p) = KeyCell(Octets(p))
                /\ codec \in {"vp8", "vp8pid", "vp9"} => PeekTemporalId(p) = -1
                /\ codec \in {"vp8svc", "vp9svc"} => PeekTemporalId(p) = sent[net[i].f].tid

(* What a packetizer sends, its depacketizer reads: no error while no      *)
(* packet is lost and no reset falls into a frame.                         *)
NoFalseAlarm == hurt = {} /\ fresh = {} => ~errs
=============================================================================
