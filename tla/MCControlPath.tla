---------------------------- MODULE MCControlPath ----------------------------
(* Few packets of each mode, over a sequence space that wraps among them.  *)
EXTENDS ControlPath, TLC

Plain(size) == [size |-> size, csrc |-> <<>>, marker |-> FALSE, pad |-> 0, level |-> None, hinted |-> FALSE]
MCMedia == [
    recovery |-> <<[Plain(1) EXCEPT !.level = 30, !.marker = TRUE], [Plain(2) EXCEPT !.csrc = <<9>>, !.pad = 3],
                   Plain(1)>>,
    rate     |-> <<Plain(1), Plain(1), Plain(1)>>,
    reports  |-> <<Plain(1), Plain(1)>>,
    layers   |-> <<[Plain(1) EXCEPT !.level = 30], [Plain(2) EXCEPT !.csrc = <<9>>, !.pad = 2],
                   [Plain(1) EXCEPT !.level = 20, !.hinted = TRUE]>>]

Ids(a, b, c, d, e) == "mid" :> a @@ "rtp-stream-id" :> b @@ "audio-level" :> c @@ "transport-cc" :> d
                      @@ "abs-send-time" :> e
RecoveryIds == "mid" :> 1 @@ "rtp-stream-id" :> 2 @@ "repaired-rtp-stream-id" :> 3 @@ "audio-level" :> 4
RateIds     == "mid" :> 1 @@ "transport-cc" :> 2 @@ "abs-send-time" :> 3
MCExtMaps == [recovery |-> <<RecoveryIds>>, rate |-> <<RateIds>>, reports |-> <<RateIds>>,
              layers |-> <<Ids(1, 2, 3, 4, 5), Ids(4, 5, 1, 2, 3)>>]
MCTheirIds == [recovery |-> RecoveryIds, rate |-> RateIds, reports |-> RateIds,
               layers |-> "mid" :> 2 @@ "rtp-stream-id" :> 1 @@ "audio-level" :> 4 @@ "abs-send-time" :> 6]

MCCounting == {Usual, [Usual EXCEPT !.replay = FALSE],
               [Usual EXCEPT !.by = "ssrc", !.e = FALSE, !.gcm = FALSE], [Usual EXCEPT !.by = "ssrc", !.e = FALSE]}
SR   == [name |-> "SR", ssrc |-> 12, ntp |-> <<7, 8>>, rtp |-> 9, packets |-> 3, octets |-> 4]
SDES == [name |-> "SDES", ssrc |-> 12, cname |-> <<65, 66, 67>>]
RR   == [name |-> "RR", ssrc |-> 11, mediaSsrc |-> 1, fractionLost |-> 5, totalLost |-> 6, highestSeq |-> 7,
         jitter |-> 8, lastSR |-> 9, delaySinceLastSR |-> 10]
REMB(bitrate) == [name |-> "REMB", ssrc |-> 11, ssrcs |-> <<1, 2>>, bitrate |-> bitrate]
PLI  == [name |-> "PLI", ssrc |-> 11, mediaSsrc |-> 1]
FIR  == [name |-> "FIR", ssrc |-> 12, mediaSsrc |-> 1, seqNr |-> 3]
BYE  == [name |-> "BYE", ssrcs |-> <<12, 11>>, reason |-> <<66, 67>>]
MCSayings == {<<SR, SDES>>, <<RR, REMB(77), PLI>>, <<FIR, REMB(9), BYE>>}

MCStartNow   == [recovery |-> 5, layers |-> 5, rate |-> 0, reports |-> 0]
MCMaxNow     == [rate |-> 4, reports |-> 0]
MCDrainMs     == -1
MCMaxLost    == [recovery |-> 2]
MCMaxDups    == [rate |-> 0, reports |-> 1]
MCMaxFeedback == [rate |-> 2, reports |-> 2]
MCMaxChanges == [recovery |-> 1, layers |-> 2, rate |-> 0, reports |-> 1]
=============================================================================
