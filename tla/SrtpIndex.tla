------------------------------ MODULE SrtpIndex ------------------------------
(***************************************************************************)
(* The arithmetic of SRTP packet indices (src/src/srtp.js).  A packet      *)
(* carries a sequence number modulo SeqMod; both ends extend it to an      *)
(* index roc * SeqMod + seq with a rollover counter that is never sent.    *)
(* The receiver remembers which of the last Window indices it has seen in  *)
(* a bitmap of Words words of WordBits bits: bit d is index maxIndex - d.  *)
(*                                                                         *)
(* The code has SeqMod = 2^16, RocMod = 2^32, Words = 4, WordBits = 32.    *)
(***************************************************************************)
EXTENDS Integers

CONSTANTS SeqMod, RocMod, Words, WordBits

\* The shape of the code's constants: the half and the quarter of the sequence
\* space are whole, and the replay window fits in half of the sequence space.
ASSUME SrtpAssumption ==
    /\ SeqMod \in Nat \ {0}
    /\ SeqMod % 4 = 0
    /\ RocMod \in Nat \ {0}
    /\ Words \in Nat \ {0}
    /\ WordBits \in Nat \ {0}
    /\ Words * WordBits <= SeqMod \div 2

Half      == SeqMod \div 2              \* 0x8000
WrapFloor == 3 * (SeqMod \div 4)        \* 0xC000
Window    == Words * WordBits           \* REPLAY_WINDOW
NoIndex   == -1                         \* maxIndex before the first packet

Bits   == 0 .. WordBits - 1
Bitmap == [0 .. Words - 1 -> SUBSET Bits]

SeqOf(index) == index % SeqMod
RocOf(index) == index \div SeqMod
Larger(a, b) == IF a >= b THEN a ELSE b

-----------------------------------------------------------------------------
(* The rollover counter the sender uses for seq.                           *)
SenderRocNeverWraps(maxIndex, seq) ==    \* slip: the wrap is not detected
    IF maxIndex = NoIndex THEN 0 ELSE RocOf(maxIndex)

SenderRocAnyLow(maxIndex, seq) ==        \* slip: any backward step is a wrap
    IF maxIndex = NoIndex THEN 0
    ELSE IF seq < SeqOf(maxIndex) THEN (RocOf(maxIndex) + 1) % RocMod ELSE RocOf(maxIndex)

SenderRoc(maxIndex, seq) ==
    IF maxIndex = NoIndex THEN 0
    ELSE IF seq < Half /\ SeqOf(maxIndex) > WrapFloor
         THEN (RocOf(maxIndex) + 1) % RocMod
         ELSE RocOf(maxIndex)

SenderIndex(maxIndex, seq) == SenderRoc(maxIndex, seq) * SeqMod + seq

(* The rollover counter the receiver guesses for seq: the one that puts    *)
(* the index closest to the highest authenticated index.                   *)
GuessRocNeverForward(maxIndex, seq) ==   \* slip: an early packet keeps the counter
    IF maxIndex # NoIndex /\ SeqOf(maxIndex) < Half /\ seq - SeqOf(maxIndex) > Half
    THEN Larger(0, RocOf(maxIndex) - 1)
    ELSE Larger(0, RocOf(maxIndex))

GuessRocAtHalf(maxIndex, seq) ==         \* slip: >= for >
    LET lastSeq == SeqOf(maxIndex)
    IN  IF maxIndex = NoIndex THEN 0
        ELSE IF lastSeq < Half
             THEN IF seq - lastSeq >= Half THEN Larger(0, RocOf(maxIndex) - 1) ELSE RocOf(maxIndex)
             ELSE IF lastSeq - Half > seq THEN (RocOf(maxIndex) + 1) % RocMod ELSE RocOf(maxIndex)

GuessRocNeverBack(maxIndex, seq) ==      \* slip: a late packet keeps the counter
    LET lastSeq == SeqOf(maxIndex)
    IN  IF maxIndex # NoIndex /\ lastSeq >= Half /\ lastSeq - Half > seq
        THEN (RocOf(maxIndex) + 1) % RocMod
        ELSE Larger(0, RocOf(maxIndex))

GuessRoc(maxIndex, seq) ==
    LET roc     == RocOf(maxIndex)
        lastSeq == SeqOf(maxIndex)
    IN  IF maxIndex = NoIndex THEN 0
        ELSE IF lastSeq < Half
             THEN IF seq - lastSeq > Half THEN Larger(0, roc - 1) ELSE roc
             ELSE IF lastSeq - Half > seq THEN (roc + 1) % RocMod ELSE roc

GuessIndex(maxIndex, seq) == GuessRoc(maxIndex, seq) * SeqMod + seq

(* Of the indices with i's sequence number, i is the closest to maxIndex,  *)
(* or one of the two closest and of the same rollover.                     *)
Near(maxIndex, i) ==
    /\ maxIndex - i <= Half /\ i - maxIndex <= Half
    /\ RocOf(i) = RocOf(maxIndex) \/ (maxIndex - i < Half /\ i - maxIndex < Half)

-----------------------------------------------------------------------------
(* The replay bitmap, as the set of the bits that are 1 in each word.      *)
EmptyBitmap == [w \in 0 .. Words - 1 |-> {}]

Seen(bm, d) == d % WordBits \in bm[d \div WordBits]

MarkUnmasked(bm, d) ==                   \* slip: bit = d, without "& 31"
    [bm EXCEPT ![d \div WordBits] = @ \cup {d}]

Mark(bm, d) == [bm EXCEPT ![d \div WordBits] = @ \cup {d % WordBits}]

(* _bitmapShiftLeft: the loop fills the words from the highest down, so    *)
(* every word it reads still has its old value.                            *)
ShiftLeftNoCarry(bm, n) ==               \* slip: bits do not cross words
    [w \in 0 .. Words - 1 |->
        IF n >= Window \/ w < (n \div WordBits) THEN {}
        ELSE {b \in Bits : b - (n % WordBits) \in bm[w - (n \div WordBits)]}]

ShiftLeft(bm, n) ==
    LET wordShift == n \div WordBits
        bitShift  == n % WordBits
        Kept(src)  == IF src < 0 THEN {}
                      ELSE {b \in Bits : b >= bitShift /\ b - bitShift \in bm[src]}
        Carry(src) == IF src < 1 THEN {}
                      ELSE {b \in Bits : /\ b < bitShift
                                         /\ b - bitShift + WordBits \in bm[src - 1]}
    IN  IF n >= Window
        THEN EmptyBitmap
        ELSE [w \in 0 .. Words - 1 |-> Kept(w - wordShift) \cup Carry(w - wordShift)]

(* _replayCheckAndUpdate: whether it answers true, and the bitmap after.   *)
ReplayFreshTooOld(maxIndex, bm, index) == \* slip: too old to track means new
    \/ maxIndex = NoIndex
    \/ index > maxIndex
    \/ maxIndex - index >= Window
    \/ /\ maxIndex - index \in 0 .. Window - 1
       /\ ~ Seen(bm, maxIndex - index)

ReplayFresh(maxIndex, bm, index) ==
    \/ maxIndex = NoIndex
    \/ index > maxIndex
    \/ /\ maxIndex - index \in 0 .. Window - 1
       /\ ~ Seen(bm, maxIndex - index)

ReplayMark(maxIndex, bm, index) ==
    IF maxIndex = NoIndex THEN Mark(EmptyBitmap, 0)
    ELSE IF index > maxIndex THEN Mark(ShiftLeft(bm, index - maxIndex), 0)
         ELSE Mark(bm, maxIndex - index)
=============================================================================
