------------------------------ MODULE SrtpStream ------------------------------
(***************************************************************************)
(* One RTP stream between two SrtpSessions: encryptRtp at the sender, a    *)
(* network that loses, reorders and duplicates packets, decryptRtp at the  *)
(* receiver.                                                               *)
(*                                                                         *)
(* The application numbers its packets 0, 1, 2, ... (packet n carries the  *)
(* sequence number n % SeqMod) and may skip numbers, or protect a number   *)
(* late, as a server that relays packets in arrival order does.  Nothing   *)
(* but n % SeqMod reaches the code, at either end.                         *)
(***************************************************************************)
EXTENDS SrtpReceiver

CONSTANTS Start,        \* the number of the application's first packet
          MaxSkip,      \* how far ahead of the highest number the next may be
          MaxLate,      \* how far behind the highest number a late one may be
          LateOverWrap  \* whether a late packet may precede a wraparound

ASSUME StreamAssumption ==
    /\ Start \in 0 .. SeqMod - 1
    /\ MaxSkip \in Nat
    /\ MaxSkip < SeqMod \div 4
    /\ MaxLate \in Nat
    /\ MaxLate < SeqMod \div 4
    /\ LateOverWrap \in BOOLEAN

VARIABLES sendMax,      \* _sendState[ssrc].maxIndex, NoIndex while absent
          appHigh,      \* the highest packet number the application protected
          wire          \* the protected packets: number, and index used for it

streamVars == <<sendMax, appHigh, wire, recvMax, replay, deliveries>>

Packet == [n : Index, idx : Index]

StreamInit ==
    /\ RecvInit
    /\ sendMax = NoIndex
    /\ appHigh = NoIndex
    /\ wire = {}

(* The numbers the application may protect next.                           *)
MayProtect(n) ==
    IF appHigh = NoIndex THEN n = Start
    ELSE \/ n > appHigh /\ n <= appHigh + MaxSkip
         \/ /\ n <= appHigh /\ n >= appHigh - MaxLate /\ n >= Start
            /\ RocOf(n) = RocOf(appHigh) \/ LateOverWrap

(* encryptRtp.                                                             *)
EncryptRtp(n) ==
    LET index == SenderIndex(sendMax, SeqOf(n))
    IN  /\ MayProtect(n)
        /\ index <= MaxIndex
        /\ sendMax' = Larger(index, sendMax)
        /\ appHigh' = Larger(n, appHigh)
        /\ wire' = wire \cup {[n |-> n, idx |-> index]}
        /\ UNCHANGED recvVars

(* A packet of the stream arrives, in any order and any number of times,   *)
(* intact or not; a packet that never arrives is lost.                     *)
Arrive(p, intact) ==
    /\ DecryptRtp(p.idx, intact)
    /\ UNCHANGED <<sendMax, appHigh, wire>>

StreamNext ==
    \/ \E n \in Index : EncryptRtp(n)
    \/ \E p \in wire, intact \in BOOLEAN : Arrive(p, intact)

StreamSpec == StreamInit /\ [][StreamNext]_streamVars

(* An application that keeps sending over a network that loses nothing.    *)
ReliableSpec ==
    /\ StreamSpec
    /\ WF_streamVars(\E n \in Index : n > appHigh /\ EncryptRtp(n))
    /\ \A n \in Index : WF_streamVars(\E p \in wire : p.n = n /\ Arrive(p, TRUE))

-----------------------------------------------------------------------------
StreamTypeOK ==
    /\ RecvTypeOK
    /\ sendMax \in Index \cup {NoIndex}
    /\ appHigh \in Index \cup {NoIndex}
    /\ wire \subseteq Packet

(* "Sender index: strictly monotonic ... a wrap is detected" (srtp.js:230):*)
(* the index encryptRtp derives from 16 bits and its own past is the       *)
(* number the application meant, skips and wraparounds included.           *)
SenderInSync == sendMax = appHigh /\ \A p \in wire : p.idx = p.n

(* Late packets that straddle a wraparound are decrypted with the correct  *)
(* rollover counter (srtp.js:15): the index the receiver derives for a     *)
(* packet inside its window, not decrypted yet, is the one the sender      *)
(* protected it with.                                                      *)
LateStraddleDecrypts ==
    recvMax # NoIndex =>
        \A p \in wire :
            p.n <= recvMax /\ recvMax - p.n < Window /\ deliveries[p.n] = 0
                => GuessIndex(recvMax, SeqOf(p.n)) = p.idx

(* The two ends never lose each other: over a network that loses nothing   *)
(* the receiver's index follows the sender's through every wraparound.     *)
ReceiverKeepsUp == <>(recvMax = MaxIndex)
=============================================================================
