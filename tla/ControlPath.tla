----------------------------- MODULE ControlPath -----------------------------
(***************************************************************************)
(* What flows back from a receiver to a sender, and what the sender does   *)
(* with it, put together the way the README's examples do.  A session runs *)
(* in one of four modes:                                                  *)
(*                                                                         *)
(*   recovery   packets are stamped, kept in a SenderBuffer and sent; the  *)
(*              receiver asks for what it misses (NackGenerator decides    *)
(*              when), and the sender retransmits through NackThrottle and *)
(*              RtxStream;                                                 *)
(*   rate       the receiver reports arrivals, and the sender's            *)
(*              BandwidthEstimator follows the delay;                      *)
(*   reports    the same with other reports besides, over SRTCP, whose     *)
(*              datagrams the network reorders and repeats;                *)
(*   layers     two streams share one RtpHeaderStamper whose names and ids *)
(*              change, and a hop rewrites the ids on the way.             *)
(***************************************************************************)
EXTENDS Wire

CONSTANTS
    FbMod, UsPerMs, MinBps, MaxBps, StartBps, RembFloor, HistoryMax, BackoffMs, DrainMs,
    MinWindowMs, BitsPerByteMs,
    SeqMod, RocMod, Words, WordBits, SrtcpMod,
    Modes,              \* the modes a session is run in
    Counting,           \* how a peer numbers SRTCP datagrams, whether it encrypts reports, and
                        \* whether the sender's session has replay protection
    Media,              \* for each mode, the packets the packetizer makes
    ExtMaps,            \* for each mode, the ids negotiated: first, and after Renumber
    TheirIds,           \* for each mode, the receiver's ids
    StartSeq,           \* first sequence number, of media, RTX and transport-wide
    StartNow, MaxNow,   \* for each mode, the clock at first, and its bound
    Waits,              \* steps of the clock
    Sayings,            \* the compound reports a receiver sends besides feedback
    MaxLost, MaxDups,   \* bounds for each mode: messages lost, and delivered twice
    MaxFeedback,        \* bound for each mode: feedback messages
    MaxChanges          \* bound for each mode: calls that reconfigure or reset

F == INSTANCE FiniteSetsExt
P == INSTANCE SrtcpSession
T == INSTANCE TransportCc

ASSUME ControlAssumption ==
    /\ R!RetransmitAssumption /\ C!RtcpAssumption /\ P!SrtcpAssumption /\ T!TransportCcAssumption
    /\ P!SrtpAssumption

None == S!None
Primary == 1            \* SSRCs: of the media,
Second  == 2            \* of a second stream,
RtxSsrc == 3            \* of the retransmissions,
Receiver == 11          \* and of the receiver's feedback
Ssrcs   == {Primary, Second}
MediaPt == 96
RtxPt   == 97

(* The sessions whose packets the receiver reads: their packets have       *)
(* numbers of their own, one-byte ids are negotiated, and both ends have   *)
(* one for what names a stream and for each extension that is read.        *)
MediaPackets == [size : Nat, csrc : Csrcs, marker : BOOLEAN, pad : Nat, level : (0 .. 127) \cup {None},
                 hinted : BOOLEAN]
Understood(ids, theirs, levels) ==
    /\ IsIds(ids) /\ IsIds(theirs)
    /\ {"mid", "rtp-stream-id"} \subseteq DOMAIN ids \cap DOMAIN theirs
    /\ levels # {None} => "audio-level" \in DOMAIN ids \cap DOMAIN theirs
    /\ "abs-send-time" \in DOMAIN theirs => "abs-send-time" \in DOMAIN ids
ASSUME SessionsAssumption ==
    /\ Modes \subseteq {"recovery", "rate", "reports", "layers"} /\ StartSeq \in Int /\ RtxSsrc < WordSpace
    /\ \A m \in Modes \cap {"recovery", "layers"} :
          /\ StartNow[m] \in Int /\ Media[m] \in Seq(MediaPackets)
          /\ Len(Media[m]) <= SeqSpace /\ Len(Media[m]) < WordSpace
          /\ \A i \in DOMAIN ExtMaps[m] :
                Understood(ExtMaps[m][i], TheirIds[m], {Media[m][n].level : n \in DOMAIN Media[m]} \cup {None})
    /\ "recovery" \in Modes =>
          /\ TheirIds["recovery"] = ExtMaps["recovery"][1] /\ DOMAIN ExtMaps["recovery"] = {1}
          /\ "repaired-rtp-stream-id" \in DOMAIN TheirIds["recovery"]
    /\ "layers" \in Modes => DOMAIN ExtMaps["layers"] = {1, 2}

VARIABLES
    mode, counting,     \* how the session is run, and how its peer counts SRTCP
    stamper,            \* the sender's RtpHeaderStamper
    rings, rtxSeq, last,        \* its SenderBuffer, RtxStream and NackThrottle
    estimator, windows,         \* its BandwidthEstimator, and SrtpSession's replay windows
    now,                        \* Date.now()
    rtp, rtcp,                  \* what is on its way
    generator, srtcp,           \* the receiver's feedback and its SRTCP counters
    held,               \* what the receiver has read from the packets it got
    sent,               \* history: what was given to the stamper, and when
    told,               \* history: the names the application last set
    quiet, stopped,     \* history: for each packet, ticks since it was sent again; Stop was called
    transit,            \* history: arrivals recorded, with the time they took
    acted, twice, refused,      \* history: SRTCP datagrams taken, taken twice, refused
    lost, dups, said, talked, changes   \* counters of the bounds

recoveryVars == <<rings, rtxSeq, last, quiet, stopped>>
reportVars   == <<estimator, windows, generator, srtcp, transit, acted, twice, refused, said, talked>>
pathVars == <<mode, counting, stamper, recoveryVars, reportVars, now, rtp, rtcp, held, sent, told,
              lost, dups, changes>>

Reported == mode \in {"rate", "reports"}

-----------------------------------------------------------------------------
SeqNo(n)  == (StartSeq + n - 1) % SeqSpace
Number(seq) == CHOOSE n \in 1 .. SeqSpace : SeqNo(n) = seq
Numbers   == 1 .. Len(Media[mode])
MostNumbers == Len(Media["recovery"])
IsNone(r) == "none" \in DOMAIN r

(* The packet a packetizer makes.  The audio level is added by the         *)
(* application, or comes as a hint to the stamper.                         *)
Payload(m, n) == [i \in 1 .. m.size |-> H!Octet("media", n, i)]
Packet(n, ssrc) ==
    LET m   == Media[mode][n]
        pkt == H!Serialize([padding |-> m.pad > 0, exts |-> H!NoExts, csrc |-> m.csrc,
                            marker |-> m.marker, pt |-> MediaPt, seq |-> SeqNo(n), ts |-> n,
                            ssrc |-> ssrc, payload |-> Payload(m, n) \o H!Octets("pad", m.pad, m.pad)])
    IN  IF m.level = None \/ m.hinted THEN pkt
        ELSE H!SetHeaderExtension(pkt, stamper.extMap["audio-level"], H!AudioLevel(m.level, TRUE))
Hints(n) == IF Media[mode][n].hinted THEN [audioLevel |-> Media[mode][n].level, voice |-> TRUE] ELSE S!NoHints

(* What a receiver should read: the names last set for the packet's SSRC.  *)
MidTold(ssrc) == IF told.mids[ssrc] # None THEN told.mids[ssrc] ELSE told.mid
Truth(n, ssrc) ==
    LET m == Media[mode][n]
    IN  [ssrc |-> ssrc, seq |-> SeqNo(n), ts |-> n, marker |-> m.marker, pt |-> MediaPt, csrc |-> m.csrc,
         payload |-> Payload(m, n), mid |-> MidTold(ssrc), rid |-> told.rids[ssrc],
         level |-> IF m.level = None THEN {} ELSE {[level |-> m.level, voice |-> TRUE]},
         time  |-> IF "abs-send-time" \in DOMAIN TheirIds[mode] THEN {<<H!Fixed(now), TickRate>>} ELSE {}]

(* What it does read, under its own ids.  A retransmission names the layer *)
(* it repairs, and that is the layer of the packet recovered from it.      *)
FirstOf(data) == IF data = <<>> THEN None ELSE data[1].v
Reading(pkt) ==
    LET r == H!Parse(pkt)
        ids == TheirIds[mode]
        Ext(name) == IF name \in DOMAIN ids /\ ids[name] \in DOMAIN r.exts THEN r.exts[ids[name]] ELSE <<>>
        layer == IF Ext("repaired-rtp-stream-id") # <<>> THEN Ext("repaired-rtp-stream-id")
                 ELSE Ext("rtp-stream-id")
    IN  [ssrc |-> r.ssrc, seq |-> r.seq, ts |-> r.ts, marker |-> r.marker, pt |-> r.pt, csrc |-> r.csrc,
         payload |-> r.payload, mid |-> FirstOf(H!ReadExtension(pkt, ids["mid"])), rid |-> FirstOf(layer),
         level |-> IF Ext("audio-level") = <<>> THEN {} ELSE {H!ReadAudioLevel(Ext("audio-level"))},
         time  |-> IF Ext("abs-send-time") = <<>> THEN {} ELSE {H!ReadAbsSendTime(Ext("abs-send-time"))}]

Held(n) == \E r \in held : r.seq = SeqNo(n)
Missing == {n \in DOMAIN sent : mode = "recovery" /\ ~Held(n) /\ \E k \in DOMAIN sent : k > n /\ Held(k)}

-----------------------------------------------------------------------------
Usual == [by |-> "session", e |-> TRUE, gcm |-> TRUE, replay |-> TRUE]
PathInit ==
    /\ mode \in Modes
    /\ counting \in (IF mode = "reports" THEN Counting ELSE {Usual})
    /\ told = [mid |-> 1, mids |-> [s \in Ssrcs |-> IF mode = "recovery" /\ s = Primary THEN 5 ELSE None],
               rids |-> [s \in Ssrcs |-> IF mode = "recovery" /\ s = Primary THEN 7 ELSE None]]
    /\ LET new   == S!Stamper(ExtMaps[mode][1], told.mid, StartSeq - 1)
           layer == S!SetRidForSsrc(S!SetMidForSsrc(new, Primary, 5), Primary, 7)
       IN  stamper = IF mode = "recovery" THEN S!SetRtxRids(S!SetMidForSsrc(layer, RtxSsrc, 5), RtxSsrc, 8, 7)
                     ELSE new
    /\ rings = R!NoRings /\ rtxSeq = StartSeq /\ last = R!NoRequests
    /\ quiet = [n \in Numbers |-> ThrottleWindow] /\ stopped = FALSE
    /\ estimator = T!Estimator /\ windows = P!NoSsrcs /\ generator = T!Generator /\ srtcp = <<>>
    /\ transit = {} /\ acted = {} /\ twice = FALSE /\ refused = {} /\ said = 0 /\ talked = FALSE
    /\ now = StartNow[mode] /\ rtp = {} /\ rtcp = {} /\ held = {} /\ sent = <<>>
    /\ lost = 0 /\ dups = 0 /\ changes = 0

(* A packet goes out: stamped, recorded with its number, kept, sent.       *)
Send(ssrc) ==
    LET n == Len(sent) + 1
        stamped == S!Stamp(stamper, Packet(n, ssrc), Hints(n), now)
    IN  /\ n \in Numbers /\ ~stopped
        /\ ssrc \in (IF mode = "layers" THEN Ssrcs ELSE {Primary})
        /\ stamper' = stamped.st
        /\ rings' = IF mode = "recovery" THEN R!Store(rings, stamped.pkt) ELSE rings
        /\ estimator' = IF Reported THEN T!RecordSend(estimator, stamped.st.twcc, now, Media[mode][n].size)
                        ELSE estimator
        /\ rtp' = rtp \cup {stamped.pkt}
        /\ sent' = Append(sent, [truth |-> Truth(n, ssrc), at |-> now])
        /\ UNCHANGED <<mode, counting, rtxSeq, last, quiet, stopped, windows, generator, srtcp, transit, acted,
                       twice, refused, said, talked, now, rtcp, held, told, lost, dups, changes>>

-----------------------------------------------------------------------------
(* A packet reaches the receiver.  On the way, in mode layers, a hop       *)
(* rewrites the ids that both its neighbours know.                         *)
IdMap ==
    LET both == DOMAIN stamper.extMap \cap DOMAIN TheirIds[mode]
    IN  [id \in {stamper.extMap[name] : name \in both} |->
            TheirIds[mode][CHOOSE name \in both : stamper.extMap[name] = id]]
Arriving(pkt)  == IF mode = "layers" THEN H!RemapExtensionIds(pkt, IdMap) ELSE pkt
Recovered(pkt) == IF pkt.ssrc = RtxSsrc THEN R!ParseRtxPacket(pkt, Primary, MediaPt) ELSE pkt

(* A probe for bandwidth, a packet of padding alone on the RTX stream,     *)
(* reaches the receiver between the others.                                *)
ProbePacket ==
    H!Serialize([padding |-> TRUE, exts |-> H!NoExts, csrc |-> <<>>, marker |-> FALSE, pt |-> RtxPt,
                 seq |-> rtxSeq, ts |-> 0, ssrc |-> RtxSsrc,
                 payload |-> [i \in 1 .. 4 |-> H!Octet("pad", IF i = 4 THEN 4 ELSE 0, i)]])
Probe ==
    LET whole == Recovered(ProbePacket)
    IN  /\ mode = "recovery"
        /\ held' = IF IsNone(whole) THEN held ELSE held \cup {Reading(whole)}
        /\ UNCHANGED <<mode, counting, stamper, recoveryVars, reportVars, now, rtp, rtcp, sent, told,
                       lost, dups, changes>>

(* The network keeps a copy of what it delivers.                           *)
Again(stays) ==
    IF stays THEN dups < MaxDups[mode] /\ dups' = dups + 1 ELSE UNCHANGED dups

Hear(pkt, stays) ==
    LET whole == Recovered(Arriving(pkt))
        twcc  == H!ReadExtension(pkt, TheirIds[mode]["transport-cc"])[1].v
        n     == Number(pkt.seq)
    IN  /\ pkt \in rtp /\ (stays => Reported)      \* what is held is a set: a copy adds nothing
        /\ rtp' = IF stays THEN rtp ELSE rtp \ {pkt}
        /\ Again(stays)
        /\ IF Reported
           THEN /\ generator' = T!RecordArrival(generator, twcc, now)
                /\ transit' = IF twcc \in DOMAIN generator.arrivals THEN transit
                              ELSE transit \cup {<<n, now - sent[n].at>>}
                /\ UNCHANGED held
           ELSE /\ held' = IF IsNone(whole) THEN held ELSE held \cup {Reading(whole)}
                /\ UNCHANGED <<generator, transit>>
        /\ UNCHANGED <<mode, counting, stamper, recoveryVars, estimator, windows, srtcp, acted, twice, refused,
                       said, talked, now, rtcp, sent, told, lost, changes>>

(* The receiver asks for some of what it misses, one number twice.         *)
NackFor(ns) ==
    LET list == X!SetToSeq({SeqNo(n) : n \in ns})
    IN  [words |-> C!BuildNACK(Receiver, Primary, Append(list, list[1])),
         says |-> <<[name |-> "NACK", lost |-> {SeqNo(n) : n \in ns}]>>]
Nacks == {NackFor(ns) : ns \in (SUBSET (1 .. MostNumbers)) \ {{}}}
Ask(m) ==
    /\ m.says[1].lost \subseteq {SeqNo(n) : n \in Missing}
    /\ rtcp' = rtcp \cup {m}
    /\ UNCHANGED <<mode, counting, stamper, recoveryVars, reportVars, now, rtp, held, sent, told,
                   lost, dups, changes>>

(* What the sender retransmits for a list of lost numbers, in turn.  (A    *)
(* NACK delivered twice is one asked for again.)                           *)
Retransmitted(list, sweep) ==
    LET again(acc, seq) ==
            LET original == R!Get(rings, Primary, seq)
                passed   == R!ShouldSend(acc.last, <<Primary, seq>>, sweep)
                wrapped  == R!Wrap(acc.rtxSeq, original, RtxSsrc, RtxPt)
                stamped  == S!Stamp(acc.stamper, wrapped.pkt, S!NoHints, now)
            IN  IF IsNone(original) THEN acc
                ELSE IF ~passed.yes THEN [acc EXCEPT !.last = passed.last]
                ELSE [last |-> passed.last, rtxSeq |-> wrapped.seq, stamper |-> stamped.st,
                      pkts |-> acc.pkts \cup {stamped.pkt}, seqs |-> acc.seqs \cup {seq}]
        after[i \in 0 .. Len(list)] ==
            IF i = 0 THEN [last |-> last, rtxSeq |-> rtxSeq, stamper |-> stamper, pkts |-> {}, seqs |-> {}]
            ELSE again(after[i - 1], list[i])
    IN  after[Len(list)]

OnNack(m, sweep) ==
    LET r == Retransmitted(C!ParseRTCPCompound(m.words)[1].lost, sweep)
    IN  /\ mode = "recovery" /\ m \in rtcp
        /\ rtcp' = rtcp \ {m}
        /\ last' = r.last /\ rtxSeq' = r.rtxSeq /\ stamper' = r.stamper
        /\ rtp' = rtp \cup r.pkts
        /\ quiet' = [n \in DOMAIN quiet |-> IF SeqNo(n) \in r.seqs THEN 0 ELSE quiet[n]]
        /\ UNCHANGED <<mode, counting, rings, stopped, reportVars, now, held, sent, told, lost, dups, changes>>

(* The clock of the throttle.  Bound: at most one packet of the RTX stream *)
(* is on its way when the clock moves.                                     *)
Tick ==
    /\ mode = "recovery"
    /\ last # R!Aged(last)
    /\ Cardinality({p \in rtp : p.ssrc = RtxSsrc}) <= 1
    /\ last' = R!Aged(last)
    /\ quiet' = [n \in DOMAIN quiet |-> IF quiet[n] < ThrottleWindow THEN quiet[n] + 1 ELSE quiet[n]]
    /\ UNCHANGED <<mode, counting, stamper, rings, rtxSeq, stopped, reportVars, now, rtp, rtcp, held, sent, told,
                   lost, dups, changes>>

(* The sender's transceiver is stopped: what it kept for its streams goes. *)
Stop ==
    /\ mode = "recovery" /\ ~stopped /\ changes < MaxChanges[mode]
    /\ stopped' = TRUE /\ changes' = changes + 1
    /\ rings' = R!ClearRing(rings, Primary) /\ last' = R!NoRequests
    /\ stamper' = S!ClearSsrc(S!ClearSsrc(stamper, Primary), RtxSsrc)
    /\ UNCHANGED <<mode, counting, rtxSeq, quiet, reportVars, now, rtp, rtcp, held, sent, told, lost, dups>>

Lose ==
    /\ mode = "recovery" /\ lost < MaxLost[mode] /\ lost' = lost + 1
    /\ \/ (\E pkt \in rtp : rtp' = rtp \ {pkt}) /\ UNCHANGED rtcp
       \/ (\E m \in rtcp : rtcp' = rtcp \ {m}) /\ UNCHANGED rtp
    /\ UNCHANGED <<mode, counting, stamper, recoveryVars, reportVars, now, held, sent, told, dups, changes>>

-----------------------------------------------------------------------------
(* Feedback and reports, protected by SRTCP.                               *)
Spoken(o) ==
    CASE o.name = "SR"   -> C!BuildSR(o)
      [] o.name = "RR"   -> C!BuildRR(o)
      [] o.name = "PLI"  -> C!BuildPLI(o.ssrc, o.mediaSsrc)
      [] o.name = "FIR"  -> C!BuildFIR(o.ssrc, o.mediaSsrc, o.seqNr)
      [] o.name = "SDES" -> C!BuildSDES(o.ssrc, o.cname)
      [] o.name = "BYE"  -> C!BuildBYE(o.ssrcs, o.reason)
      [] o.name = "REMB" -> C!BuildREMB(o.ssrc, o.ssrcs, o.bitrate)
Protected(words, says, e) ==
    LET key   == IF counting.by = "session" THEN 0 ELSE P!SsrcOf(words)
        index == IF key \in DOMAIN srtcp THEN srtcp[key] ELSE 0
        out   == P!EncryptRtcp(index, words)
    IN  [next |-> P!Put(srtcp, key, out.next),
         msg  |-> [ssrc |-> out.pkt.ssrc, index |-> out.pkt.index, e |-> e, words |-> out.pkt.words, says |-> says]]

Say(saying) ==
    LET p == Protected(C!BuildCompound([i \in DOMAIN saying |-> Spoken(saying[i])]), saying, counting.e)
    IN  /\ mode = "reports" /\ ~talked /\ talked' = TRUE
        /\ rtcp' = rtcp \cup {p.msg} /\ srtcp' = p.next
        /\ UNCHANGED <<mode, counting, stamper, recoveryVars, estimator, windows, generator, transit, acted, twice,
                       refused, said, now, rtp, held, sent, told, lost, dups, changes>>

SendFeedback ==
    LET f == T!FeedbackOf(generator)
        p == Protected(C!BuildTransportCC(Receiver, Primary, f.base, f.refMs, f.fb, f.packets),
                       <<[name |-> "TransportCC", arrivals |-> generator.arrivals]>>, TRUE)
    IN  /\ Reported /\ said < MaxFeedback[mode] /\ said' = said + 1
        /\ generator.arrivals # T!NoArrivals
        /\ rtcp' = rtcp \cup {p.msg} /\ srtcp' = p.next
        /\ generator' = T!AfterFeedback(generator)
        /\ UNCHANGED <<mode, counting, stamper, recoveryVars, estimator, windows, transit, acted, twice, refused,
                       talked, now, rtp, held, sent, told, lost, dups, changes>>

(* What the sender does with one message of a datagram.                    *)
Follow(e, m) ==
    CASE m.name = "TransportCC" ->
            LET report == C!ParseTransportCC(m.fci)
            IN  IF IsNone(report) THEN e ELSE T!ObserveTransportCC(e, report)
      [] m.name = "REMB" -> T!ObserveRemb(e, C!ParseREMB(m.fci).bitrate)
      [] OTHER -> e

Key(m) == <<m.ssrc, m.index>>
Newest(ssrc) == F!Max({k[2] : k \in {a \in acted : a[1] = ssrc}} \cup {-1})
OnRtcp(m, stays) ==
    LET d == P!DecryptRtcp(windows, m, counting.gcm, counting.replay)
    IN  /\ Reported /\ m \in rtcp
        /\ rtcp' = IF stays THEN rtcp ELSE rtcp \ {m}
        /\ Again(stays)
        /\ windows' = d.st
        /\ estimator' = IF d.ok THEN X!FoldLeft(Follow, estimator, C!ParseRTCPCompound(m.words)) ELSE estimator
        /\ acted' = IF d.ok THEN acted \cup {Key(m)} ELSE acted
        /\ twice' = (twice \/ (d.ok /\ Key(m) \in acted))
        /\ refused' = IF d.ok \/ Key(m) \in acted \/ (counting.gcm /\ ~m.e) THEN refused
                      ELSE refused \cup {Newest(m.ssrc) - m.index}
        /\ UNCHANGED <<mode, counting, stamper, recoveryVars, generator, srtcp, transit, said, talked, now, rtp,
                       held, sent, told, lost, changes>>

Wait(d) ==
    /\ Reported /\ now + d <= MaxNow[mode]
    /\ now' = now + d
    /\ UNCHANGED <<mode, counting, stamper, recoveryVars, reportVars, rtp, rtcp, held, sent, told, lost, dups,
                   changes>>

(* Both ends begin anew, as on a renegotiation.                            *)
ResetRate ==
    /\ Reported /\ changes < MaxChanges[mode] /\ changes' = changes + 1
    /\ estimator' = T!ResetEstimator(estimator) /\ generator' = T!ResetGenerator(generator)
    /\ UNCHANGED <<mode, counting, stamper, recoveryVars, windows, srtcp, transit, acted, twice, refused, said,
                   talked, now, rtp, rtcp, held, sent, told, lost, dups>>

-----------------------------------------------------------------------------
(* The application renames a session, or one of its streams.  It gives the *)
(* ids anew when both ends have, with no packet on its way.                *)
Renamed(st, names) ==
    /\ mode = "layers" /\ changes < MaxChanges[mode] /\ changes' = changes + 1
    /\ stamper' = st /\ told' = names
    /\ UNCHANGED <<mode, counting, recoveryVars, reportVars, now, rtp, rtcp, held, sent, lost, dups>>

TellMid(mid) == Renamed(S!SetMid(stamper, mid), [told EXCEPT !.mid = mid])
TellMidOf(ssrc, mid) == Renamed(S!SetMidForSsrc(stamper, ssrc, mid), [told EXCEPT !.mids[ssrc] = mid])
TellRidOf(ssrc, rid) == Renamed(S!SetRidForSsrc(stamper, ssrc, rid), [told EXCEPT !.rids[ssrc] = rid])
Forget(ssrc) ==
    Renamed(S!ClearSsrc(stamper, ssrc), [told EXCEPT !.mids[ssrc] = None, !.rids[ssrc] = None])
Renumber ==
    /\ mode = "layers" /\ rtp = {} /\ stamper.extMap # ExtMaps[mode][2]
    /\ Renamed(S!SetExtMap(stamper, ExtMaps[mode][2]), told)

-----------------------------------------------------------------------------
Next ==
    \/ \E ssrc \in Ssrcs : Send(ssrc)
    \/ Probe
    \/ \E pkt \in rtp, stays \in BOOLEAN : Hear(pkt, stays)
    \/ \E m \in Nacks \ rtcp : Ask(m)
    \/ \E m \in rtcp, sweep \in BOOLEAN : OnNack(m, sweep)
    \/ Tick
    \/ Stop
    \/ Lose
    \/ \E saying \in Sayings : Say(saying)
    \/ SendFeedback
    \/ \E m \in rtcp, stays \in BOOLEAN : OnRtcp(m, stays)
    \/ \E d \in Waits : Wait(d)
    \/ ResetRate
    \/ \E mid \in {2} : TellMid(mid)
    \/ \E ssrc \in Ssrcs, mid \in {3, None} : TellMidOf(ssrc, mid)
    \/ \E ssrc \in Ssrcs, rid \in {6, None} : TellRidOf(ssrc, rid)
    \/ \E ssrc \in Ssrcs : Forget(ssrc)
    \/ Renumber

(* The network loses what it may lose and delivers the rest, the receiver  *)
(* keeps asking, and time passes.  Each is said of the steps it asks for   *)
(* by what they do to the messages on their way: under Next, they are the  *)
(* steps Hear, OnNack and Ask.                                             *)
Original(pkt) ==
    IF pkt.ssrc # RtxSsrc THEN {pkt.seq} ELSE {pkt.body[i].v : i \in {j \in DOMAIN pkt.body : pkt.body[j].what = "osn"}}
HeardAbout(n) ==
    mode = "recovery" /\ \E pkt \in rtp : SeqNo(n) \in Original(pkt) /\ rtp' = rtp \ {pkt} /\ lost' = lost
TakenAbout(n) ==
    mode = "recovery" /\ \E m \in rtcp : SeqNo(n) \in m.says[1].lost /\ rtcp' = rtcp \ {m} /\ lost' = lost
AskedFor(n) ==
    \E m \in Nacks \ rtcp :
        SeqNo(n) \in m.says[1].lost /\ m.says[1].lost \subseteq {SeqNo(k) : k \in Missing} /\ rtcp' = rtcp \cup {m}
Fairness ==
    /\ WF_pathVars(Tick)
    /\ \A n \in 1 .. MostNumbers : WF_<<rtp, lost>>(HeardAbout(n))
    /\ \A n \in 1 .. MostNumbers : WF_<<rtcp, lost>>(TakenAbout(n)) /\ WF_rtcp(AskedFor(n))
Spec == PathInit /\ [][Next]_pathVars /\ Fairness

-----------------------------------------------------------------------------
(* Whatever way a packet came, first or retransmitted, padded or not,      *)
(* stamped once or twice, its ids rewritten or not, the receiver reads     *)
(* what was sent: header, payload, level, time, and the names its stream   *)
(* had when it was sent.  A padding probe is not taken for a packet.       *)
ReceivedIsSent == \A r \in held : \E n \in DOMAIN sent : sent[n].truth = r

(* A message on its way says what its builder was told: a NACK asks for    *)
(* exactly the missing packets; transport-wide feedback spans from the     *)
(* first to the last that arrived, names no packet that did not arrive,    *)
(* leaves out an arrival only if the gap before it does not fit a delta,   *)
(* and gives each the time since the arrival before it; a bitrate that a   *)
(* signed word holds loses at most its last bits; a report comes back      *)
(* field by field.                                                         *)
SameFields(p, o) == \A f \in (DOMAIN o) \cap (DOMAIN p) : p[f] = o[f]
FeedbackAgrees(report, arrivals) ==
    LET seq(i)   == report.packets[i].seq
        n        == Len(report.packets)
        came     == {i \in 1 .. n : seq(i) \in DOMAIN arrivals}
        gap(i)   == (arrivals[seq(i)] - arrivals[seq(F!Max({j \in came : j < i}))]) * UsPerMs
    IN  /\ {1, n} \subseteq came /\ DOMAIN arrivals = {seq(i) : i \in came} /\ n <= SeqSpace \div 2
        /\ \A i \in 1 .. n : report.packets[i].received => i \in came
        /\ report.packets[1].received
        /\ \A i \in came \ {1} :
              IF report.packets[i].received THEN report.packets[i].us = gap(i)
              ELSE gap(i) \notin Quantum * (-LargeMax - 1) .. Quantum * LargeMax
BitrateKept(read, asked) == read <= asked /\ (asked - read) * (MantissaMax \div 2) <= asked
Agrees(p, o) ==
    /\ p.name = o.name
    /\ CASE o.name = "NACK" -> X!ToSet(p.lost) = o.lost
         [] o.name = "TransportCC" -> FeedbackAgrees(C!ParseTransportCC(p.fci), o.arrivals)
         [] o.name = "REMB" ->
                LET r == C!ParseREMB(p.fci)
                IN  r.ssrcs = o.ssrcs /\ (o.bitrate < WordSpace \div 2 => BitrateKept(r.bitrate, o.bitrate))
         [] o.name = "SDES" -> p.ssrc = o.ssrc /\ p.items = <<[type |-> 1, value |-> o.cname]>>
         [] o.name = "RR" -> p.ssrc = o.ssrc /\ Len(p.reports) = 1 /\ SameFields(p.reports[1], o)
         [] OTHER -> SameFields(p, o)
FeedbackFaithful ==
    [][\A m \in rtcp' \ rtcp :
          LET parsed == C!ParseRTCPCompound(m.words)
          IN  Len(parsed) = Len(m.says) /\ \A i \in DOMAIN parsed : Agrees(parsed[i], m.says[i])]_pathVars

(* A datagram of SRTCP is acted on once, however often it comes, and its   *)
(* first copy is turned away only when it is a whole window behind the     *)
(* newest of its own SSRC, whoever else counts in the session.  A session  *)
(* without replay protection turns none away.                              *)
FeedbackOnce ==
    /\ counting.replay => ~twice
    /\ ~counting.replay => refused = {}
    /\ \A behind \in refused : behind >= P!Window

(* However often a packet is asked for, by NACKs repeated, crossing or     *)
(* delivered twice, it is not sent again within the throttle's window.     *)
NoStorm ==
    [][\A pkt \in rtp' \ rtp :
          pkt.ssrc = RtxSsrc => \A seq \in Original(pkt) : quiet[Number(seq)] >= ThrottleWindow]_pathVars

(* A missing packet the receiver keeps asking for comes, unless the ring   *)
(* no longer holds it: the throttle delays it and does not starve it.      *)
EventuallyRecovered ==
    \A n \in 1 .. MostNumbers :
        n \in Missing ~> (Held(n) \/ stopped \/ IsNone(R!Get(rings, Primary, SeqNo(n))))

(* The estimate follows the path.  A report is acted on: if every packet   *)
(* took the same time, the estimate is not lowered, except to a bitrate    *)
(* the receiver asked for; if each took so much longer than the one before *)
(* that one report's mean alone is past the threshold, and the report says *)
(* when each of them came, it is not raised; it stays within its bounds.   *)
Steady  == \A a, b \in transit : a[2] = b[2]
Growing == \A a, b \in transit : a # b =>
              a[1] # b[1] /\ (a[1] < b[1] => 2 * (b[2] - a[2]) > 5 * BackoffMs)
Complete(m) ==
    LET report == C!ParseTransportCC(C!ParseRTCPCompound(m.words)[1].fci)
    IN  {report.packets[i].seq : i \in {j \in DOMAIN report.packets : report.packets[j].received}}
        = DOMAIN m.says[1].arrivals
EstimateTracksDelay ==
    [][\A m \in rtcp : Reported /\ Key(m) \in acted' \ acted /\ m.says[1].name = "TransportCC" =>
          /\ Steady /\ (estimator.remb = 0 \/ estimator.remb >= estimator.bps) => estimator'.bps >= estimator.bps
          /\ Growing /\ Complete(m) => estimator'.bps <= estimator.bps
          /\ estimator'.bps \in MinBps .. MaxBps]_pathVars
=============================================================================
