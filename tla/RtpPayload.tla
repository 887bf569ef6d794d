------------------------------ MODULE RtpPayload ------------------------------
(***************************************************************************)
(* What every packetizer and depacketizer shares (src/src/rtp.js): the     *)
(* header a payload is sent under, the fragments of a payload larger than  *)
(* the MTU, the RTP timestamp of a media time, and the checks a            *)
(* depacketizer makes before it looks at a payload.                        *)
(*                                                                         *)
(* A payload is a sequence of octets.  An octet of a header is a record of *)
(* its bit fields; an octet of the media is the record that says which     *)
(* octet of which frame it is.                                             *)
(***************************************************************************)
EXTENDS Integers, Sequences

CONSTANTS
    SeqSpace,             \* 2^16
    TsMod,              \* 2^32
    UsPerSec,           \* 1000000
    ClockRate,          \* the codec's RTP clock
    Mtu                 \* opts.mtu, in octets of payload

ASSUME RtpAssumption ==
    /\ SeqSpace \in Nat \ {0} /\ TsMod \in Nat \ {0}
    /\ UsPerSec \in Nat \ {0} /\ ClockRate \in Nat \ {0}
    /\ Mtu \in Nat \ {0}

Smaller(a, b) == IF a <= b THEN a ELSE b

-----------------------------------------------------------------------------
(* usToRtp: whole seconds and the rest apart, so that no product is large. *)
UsToRtp(us) ==
    LET sec == us \div UsPerSec
        rem == us - sec * UsPerSec
    IN  (sec * ClockRate + (rem * ClockRate) \div UsPerSec) % TsMod

(* makePacket and makePacketWithPrefix: one packet of the stream whose     *)
(* next sequence number is seq; the counter wraps at 16 bits.              *)
MakePacket(seq, payload, ts, marker) ==
    [seq |-> seq, ts |-> ts, marker |-> marker, payload |-> payload]
NextSeq(seq) == (seq + 1) % SeqSpace

(* The packets of one frame: consecutive numbers, one timestamp, and the   *)
(* marker on the last one.                                                 *)
MakePackets(seq, payloads, ts) ==
    [i \in DOMAIN payloads |->
        MakePacket((seq + i - 1) % SeqSpace, payloads[i], ts, i = Len(payloads))]
SeqAfter(seq, payloads) == (seq + Len(payloads)) % SeqSpace

(* The loop every fragmenting packetizer runs: pieces of at most max       *)
(* octets, the last one shorter.                                           *)
FragmentCount(data, max) == (Len(data) + max - 1) \div max
Fragment(data, max, i) ==
    SubSeq(data, (i - 1) * max + 1, Smaller(i * max, Len(data)))

-----------------------------------------------------------------------------
(* What a call of depacketize leaves behind: the object's fields, what it  *)
(* gave to output, and whether it called error.                            *)
Keep(d)    == [st |-> d, out |-> <<>>, err |-> FALSE]
Refuse(d)  == [st |-> d, out |-> <<>>, err |-> TRUE]
Emit(d, o) == [st |-> d, out |-> o, err |-> FALSE]
NoPayload == [none |-> TRUE]     \* of a payload written as a record
Output(data, ts, type) == [data |-> data, ts |-> ts, type |-> type]

(* checkDepacketizePayload: a closed depacketizer and a payload too short  *)
(* for the codec (a padding-only probe) are passed over in silence.        *)
Passes(open, payload, minLen) == open /\ Len(payload) >= minLen
=============================================================================
