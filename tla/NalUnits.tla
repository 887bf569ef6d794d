-------------------------------- MODULE NalUnits --------------------------------
(***************************************************************************)
(* How H264Packetizer and H265Packetizer split the buffer of an encoder    *)
(* into NAL units (the helpers at the end of src/src/h264.js, repeated in  *)
(* src/src/h265.js).                                                       *)
(*                                                                         *)
(* An octet of framing (a start code, a length) is [v]; the octets of a    *)
(* NAL unit are its header [type, ...] and cells of media.  An encoder     *)
(* never leaves a start code inside a NAL unit (emulation prevention), so  *)
(* only octets of framing can look like one.                               *)
(***************************************************************************)
EXTENDS Integers, Sequences, FiniteSets
LOCAL INSTANCE SequencesExt
LOCAL INSTANCE FiniteSetsExt

CONSTANT OctetBase      \* 256

Octet(v) == [v |-> v]
Is(o, v) == "v" \in DOMAIN o /\ o.v = v
Value(o) == IF "v" \in DOMAIN o THEN o.v ELSE OctetBase - 1
Code3 == <<Octet(0), Octet(0), Octet(1)>>
Code4 == <<Octet(0)>> \o Code3

(* The two framings an encoder hands out.                                  *)
JoinAnnexB(code, nals) == FlattenSeq([j \in DOMAIN nals |-> code \o nals[j]])
Digit(n, k) == Octet((n \div OctetBase ^ k) % OctetBase)
JoinAvcc(nals) ==
    FlattenSeq([j \in DOMAIN nals |->
        LET n == Len(nals[j])
        IN  <<Digit(n, 3), Digit(n, 2), Digit(n, 1), Digit(n, 0)>> \o nals[j]])

-----------------------------------------------------------------------------
(* _splitAnnexB: the octets between start codes.  Without a start code the *)
(* search ends three octets before the end, and what it skipped is gone.   *)
CodeLen(b, i) ==
    CASE i > Len(b) - 3 -> 0
      [] i <= Len(b) - 3 /\ Is(b[i], 0) /\ Is(b[i + 1], 0) /\ Is(b[i + 2], 1) -> 3
      [] i <= Len(b) - 3 /\ SubSeq(b, i, i + 3) = Code4 -> 4
      [] OTHER -> 0
Codes(b) ==
    SetToSortSeq({i \in DOMAIN b : CodeLen(b, i) > 0 /\ (i = 1 \/ CodeLen(b, i - 1) # 4)}, <)
SplitAnnexB(b) ==
    LET codes == Codes(b)
        first(k) == codes[k] + CodeLen(b, codes[k])
        last(k)  == IF k = Len(codes) THEN Len(b) ELSE codes[k + 1] - 1
    IN  IF codes = <<>> THEN <<SubSeq(b, IF Len(b) > 3 THEN Len(b) - 2 ELSE 1, Len(b))>>
        ELSE SelectSeq([k \in DOMAIN codes |-> SubSeq(b, first(k), last(k))], LAMBDA nal : nal # <<>>)

(* _trydSplitAVCC: lengths of four octets that exactly tile the buffer;    *)
(* the bit an AVCC NAL header never has is not set by any encoder.         *)
LengthAt(b, i) ==
    Value(b[i]) * OctetBase ^ 3 + Value(b[i + 1]) * OctetBase ^ 2 + Value(b[i + 2]) * OctetBase + Value(b[i + 3])
NotAvcc == <<>>
TrySplitAvcc(b) ==
    LET fits(i) == i + 3 <= Len(b) /\ LengthAt(b, i) > 0 /\ i + 3 + LengthAt(b, i) <= Len(b)
        from[i \in 1 .. Len(b) + 1] ==
            CASE i = Len(b) + 1 -> [ok |-> TRUE, nals |-> <<>>]
              [] i <= Len(b) /\ ~fits(i) -> [ok |-> FALSE, nals |-> <<>>]
              [] OTHER ->
                    LET rest == from[i + 4 + LengthAt(b, i)]
                    IN  [rest EXCEPT !.nals = <<SubSeq(b, i + 4, i + 3 + LengthAt(b, i))>> \o rest.nals]
    IN  IF Len(b) >= 5 /\ from[1].ok THEN from[1].nals ELSE NotAvcc

(* _splitNALUs: what begins like a start code is Annex-B.                  *)
StartsWithStartCode(b) ==
    \/ Len(b) >= 3 /\ SubSeq(b, 1, 3) = Code3
    \/ Len(b) >= 4 /\ SubSeq(b, 1, 4) = Code4
SplitNALUs(b) ==
    IF StartsWithStartCode(b) \/ TrySplitAvcc(b) = NotAvcc THEN SplitAnnexB(b) ELSE TrySplitAvcc(b)
=============================================================================
