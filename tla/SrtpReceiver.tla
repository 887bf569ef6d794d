----------------------------- MODULE SrtpReceiver -----------------------------
(***************************************************************************)
(* The receive side of an SrtpSession for one SSRC: decryptRtp and the     *)
(* _recvState entry it keeps.  The network is arbitrary: any protected     *)
(* packet may arrive at any time, any number of times.                     *)
(*                                                                         *)
(* Authentication is modelled by what it decides.  The tag covers the      *)
(* packet and the rollover counter (HMAC-SHA1), or the counter is part of  *)
(* the IV (AES-GCM): a packet protected with index i verifies exactly when *)
(* it is intact and the receiver guessed the index i.  The network damages *)
(* whatever packets it likes.                                              *)
(***************************************************************************)
EXTENDS SrtpIndex

CONSTANTS MaxIndex,         \* bound: the highest packet index
          MaxDeliveries,    \* bound: how often one index is handed over
          ReplayEnabled     \* opts.replayProtection

ASSUME ReceiverAssumption ==
    /\ MaxIndex \in Nat
    /\ MaxIndex < RocMod * SeqMod
    /\ MaxDeliveries \in Nat \ {0, 1}
    /\ ReplayEnabled \in BOOLEAN

VARIABLES recvMax,      \* st.maxIndex, NoIndex while the SSRC has no entry
          replay,       \* st.replay
          deliveries    \* history: how often each index was handed over

recvVars == <<recvMax, replay, deliveries>>

Index == 0 .. MaxIndex

RecvInit ==
    /\ recvMax = NoIndex
    /\ replay = EmptyBitmap
    /\ deliveries = [i \in Index |-> 0]

(* Whether decryptRtp hands over an intact packet protected with index i.  *)
Accepts(i) ==
    LET index == GuessIndex(recvMax, SeqOf(i))
    IN  /\ index = i
        /\ ReplayEnabled => ReplayFresh(recvMax, replay, index)

(* decryptRtp; a packet it rejects leaves the state alone.                 *)
DecryptRtpUnverified(i, intact) ==       \* slip: the entry moves before the tag is verified
    LET index == GuessIndex(recvMax, SeqOf(i))
    IN  /\ recvMax' = Larger(index, recvMax)
        /\ IF intact /\ Accepts(i)
           THEN /\ deliveries[i] < MaxDeliveries
                /\ replay' = IF ReplayEnabled THEN ReplayMark(recvMax, replay, index) ELSE replay
                /\ deliveries' = [deliveries EXCEPT ![i] = @ + 1]
           ELSE UNCHANGED <<replay, deliveries>>

DecryptRtp(i, intact) ==
    LET index == GuessIndex(recvMax, SeqOf(i))
    IN  IF intact /\ Accepts(i)
        THEN /\ deliveries[i] < MaxDeliveries
             /\ recvMax' = Larger(index, recvMax)
             /\ replay' = IF ReplayEnabled THEN ReplayMark(recvMax, replay, index) ELSE replay
             /\ deliveries' = [deliveries EXCEPT ![i] = @ + 1]
        ELSE UNCHANGED recvVars

RecvNext == \E i \in Index, intact \in BOOLEAN : DecryptRtp(i, intact)

RecvSpec == RecvInit /\ [][RecvNext]_recvVars

-----------------------------------------------------------------------------
(* Type invariant of the receiver's state (srtp.js:191-203, 367).          *)
RecvTypeOK ==
    /\ recvMax \in Index \cup {NoIndex}
    /\ replay \in Bitmap
    /\ deliveries \in [Index -> 0 .. MaxDeliveries]

(* Bit d of the bitmap says whether index recvMax - d was handed over, for *)
(* every index of the window, and nothing beyond recvMax was: the shift,   *)
(* the marks and the check agree about where an index sits, whatever the   *)
(* order of arrival (639-674).                                             *)
WindowExact ==
    /\ \A i \in Index : i > recvMax => deliveries[i] = 0
    /\ ReplayEnabled =>
        \A i \in Index :
            (recvMax - Window < i /\ i <= recvMax)
                => (Seen(replay, recvMax - i) <=> deliveries[i] > 0)

(* "A 128-entry sliding window per SSRC rejects replayed RTP packets"      *)
(* (srtp.js:17): no index is handed to the application twice.              *)
NoReplay == ReplayEnabled => \A i \in Index : deliveries[i] <= 1

(* "Late packets that straddle a seq-number wraparound are still decrypted *)
(* with the correct ROC" (srtp.js:15): once a packet was authenticated, an *)
(* intact packet less than half the sequence space away, inside the replay *)
(* window and not yet handed over, is accepted.  At exactly half the space *)
(* two indices are as close: it is the one of the same rollover that is    *)
(* (311-313, by > and not by >=).                                          *)
NoFalseReject ==
    recvMax # NoIndex =>
        \A i \in Index :
            /\ Near(recvMax, i)
            /\ ReplayEnabled => recvMax - i < Window /\ deliveries[i] = 0
            => Accepts(i)

(* The receiver with replay protection is a ReplayFilter.                  *)
Filter == INSTANCE ReplayFilter
            WITH Indices <- Index, WindowSize <- Window,
                 delivered <- deliveries, top <- recvMax
FilterSpec == Filter!Spec
=============================================================================
