---------------------------- MODULE SrtcpSession ----------------------------
(***************************************************************************)
(* SRTCP (src/src/srtp.js): an RTCP datagram is sent under an index of 31  *)
(* bits that it carries, counted by the session whatever SSRC the datagram *)
(* is from, and taken once at the other end, which keeps a replay window   *)
(* for each SSRC unless it was made without.                               *)
(*                                                                         *)
(* The network does not forge: a tag verifies.  "e" is the E flag.         *)
(***************************************************************************)
EXTENDS SrtpIndex, Sequences

CONSTANT SrtcpMod       \* 2^31

(* Assumed by ControlPath.                                                 *)
SrtcpAssumption == SrtcpMod \in Nat \ {0}

NoSsrcs == <<>>         \* _srtcpRecvState of a new session

SsrcOf(words) == words[2].w
EncryptRtcp(index, words) ==
    [next |-> (index + 1) % SrtcpMod,
     pkt  |-> [ssrc |-> SsrcOf(words), index |-> index, e |-> TRUE, words |-> words]]

WindowOf(state, ssrc) ==
    IF ssrc \in DOMAIN state THEN state[ssrc]
    ELSE [maxIndex |-> NoIndex, replay |-> EmptyBitmap]

Put(map, key, value) == [k \in DOMAIN map \cup {key} |-> IF k = key THEN value ELSE map[k]]

(* _srtcpReplayOk, with the state it leaves.                               *)
SrtcpReplayOneWindow(state, ssrc, index, enabled) == \* slip: one window for the session
    LET w == WindowOf(state, 0)
    IN  [ok |-> ~enabled \/ ReplayFresh(w.maxIndex, w.replay, index),
         st |-> IF ~enabled THEN state
                ELSE IF ReplayFresh(w.maxIndex, w.replay, index)
                THEN Put(state, 0, [maxIndex |-> Larger(w.maxIndex, index),
                                    replay   |-> ReplayMark(w.maxIndex, w.replay, index)])
                ELSE Put(state, 0, w)]

SrtcpReplay(state, ssrc, index, enabled) ==
    LET w == WindowOf(state, ssrc)
    IN  IF ~enabled THEN [ok |-> TRUE, st |-> state]
        ELSE IF ReplayFresh(w.maxIndex, w.replay, index)
        THEN [ok |-> TRUE,
              st |-> Put(state, ssrc, [maxIndex |-> Larger(w.maxIndex, index),
                                       replay   |-> ReplayMark(w.maxIndex, w.replay, index)])]
        ELSE [ok |-> FALSE, st |-> Put(state, ssrc, w)]

(* A datagram that is not encrypted is taken by AES-CM and not by AES-GCM. *)
DecryptRtcp(state, pkt, gcm, enabled) ==
    IF gcm /\ ~pkt.e THEN [ok |-> FALSE, st |-> state]
    ELSE SrtcpReplay(state, pkt.ssrc, pkt.index, enabled)
=============================================================================
