--------------------------------- MODULE Wire ---------------------------------
(***************************************************************************)
(* What goes over the wire.  An RTP packet: its header is written, read    *)
(* and rewritten (RtpHeader), it is stamped (RtpHeaderStamper), and it is  *)
(* kept, wrapped and unwrapped (Retransmit).  And the RTCP messages that   *)
(* answer it (Rtcp).  All over one space of sequence numbers.              *)
(***************************************************************************)
EXTENDS Integers, Sequences, FiniteSets

CONSTANTS
    SeqSpace, WordSpace, AbsSpace, TickRate, MsPerSec, Epoch, RingSize, ThrottleWindow, SweepWindows,
    BlpBits, LostMod, FirMod, MantissaMax, Quantum, SmallMax, LargeMax, RefUnit, RefMax,
    VectorLen, MaxRun

X == INSTANCE SequencesExt
H == INSTANCE RtpHeader
S == INSTANCE RtpHeaderStamper
R == INSTANCE Retransmit
C == INSTANCE Rtcp

(* Ids of the one-byte form, one for each name: 0 is padding, 15 reserved. *)
IsIds(ids) == \A a \in DOMAIN ids : ids[a] \in 1 .. 14 /\ \A b \in DOMAIN ids : ids[a] = ids[b] => a = b

(* Contributing sources that a header holds: their count has four bits.    *)
Csrcs == {c \in Seq(0 .. WordSpace - 1) : Len(c) <= 15}

ASSUME WireAssumption ==
    /\ SeqSpace \in Nat \ {0} /\ WordSpace \in Nat \ {0} /\ BlpBits \in Nat
    /\ AbsSpace \in Nat \ {0} /\ TickRate \in Nat \ {0} /\ MsPerSec \in Nat \ {0} /\ Epoch \in Nat
=============================================================================
