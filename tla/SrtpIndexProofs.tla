---------------------------- MODULE SrtpIndexProofs ----------------------------
(***************************************************************************)
(* Lemmas about SrtpIndex for every size of the sequence space and every   *)
(* width of the replay bitmap: what the bitmap shows after it was shifted  *)
(* and marked, and when the guess of a rollover counter is right.          *)
(***************************************************************************)
EXTENDS SrtpIndex, TLAPS

(* Division by a positive number: the two halves of a position are unique. *)
LEMMA DivMod ==
    ASSUME NEW a \in Int, NEW n \in Nat \ {0}
    PROVE  /\ a = n * (a \div n) + (a % n)
           /\ a % n \in 0 .. n - 1
           /\ a \div n \in Int
  OBVIOUS

(* A quotient and a remainder determine each other.                        *)
LEMMA DivModUnique ==
    ASSUME NEW n \in Nat \ {0}, NEW q \in Int, NEW r \in 0 .. n - 1,
           NEW a \in Int, a = n * q + r
    PROVE  a \div n = q /\ a % n = r
  OBVIOUS

(* Positions compare by their quotients first, then by their remainders.   *)
LEMMA Compare ==
    ASSUME NEW n \in Nat \ {0}, NEW w \in Int, NEW q \in Int,
           NEW b \in 0 .. n - 1, NEW r \in 0 .. n - 1
    PROVE  n * w + b >= n * q + r <=> w > q \/ (w = q /\ b >= r)
  <1>1. CASE w >= q + 1
    <2>1. n * w >= n * (q + 1)
      BY <1>1
    <2> QED BY <1>1, <2>1
  <1>2. CASE w <= q - 1
    <2>1. n * w <= n * (q - 1)
      BY <1>2
    <2> QED BY <1>2, <2>1
  <1>3. CASE w = q
    BY <1>3
  <1> QED BY <1>1, <1>2, <1>3

(* A quotient is bounded by what its dividend is.                          *)
LEMMA DivBound ==
    ASSUME NEW w \in Nat \ {0}, NEW n \in Nat \ {0}, NEW d \in 0 .. w * n - 1
    PROVE  d \div n \in 0 .. w - 1
  OBVIOUS

(* A position of the window names a bit of a word, and no other does.      *)
LEMMA Position ==
    ASSUME NEW d \in 0 .. Window - 1
    PROVE  /\ d \in Int
           /\ d \div WordBits \in 0 .. Words - 1
           /\ d % WordBits \in Bits
           /\ d = WordBits * (d \div WordBits) + (d % WordBits)
  <1>1. d \in 0 .. Words * WordBits - 1 /\ d \in Int
    BY SrtpAssumption DEF Window
  <1>2. d \div WordBits \in 0 .. Words - 1
    BY <1>1, DivBound, SrtpAssumption
  <1>3. d % WordBits \in Bits /\ d = WordBits * (d \div WordBits) + (d % WordBits)
    BY <1>1, DivMod, SrtpAssumption DEF Bits
  <1> QED BY <1>1, <1>2, <1>3

(* Two positions with the same word and bit are one.                       *)
LEMMA PositionUnique ==
    ASSUME NEW c \in 0 .. Window - 1, NEW d \in 0 .. Window - 1,
           c \div WordBits = d \div WordBits, c % WordBits = d % WordBits
    PROVE  c = d
  BY Position

(* Marking a position sees it and what was seen before.                    *)
LEMMA MarkSeen ==
    ASSUME NEW bm \in Bitmap, NEW c \in 0 .. Window - 1
    PROVE  /\ Mark(bm, c) \in Bitmap
           /\ \A d \in 0 .. Window - 1 : Seen(Mark(bm, c), d) <=> d = c \/ Seen(bm, d)
  <1>1. c \div WordBits \in 0 .. Words - 1 /\ c % WordBits \in Bits
    BY Position
  <1>2. Mark(bm, c) \in Bitmap
    BY <1>1 DEF Mark, Bitmap
  <1>3. ASSUME NEW d \in 0 .. Window - 1
        PROVE  Seen(Mark(bm, c), d) <=> d = c \/ Seen(bm, d)
    <2>1. d \div WordBits \in 0 .. Words - 1 /\ d % WordBits \in Bits
      BY Position
    <2>2. CASE d \div WordBits = c \div WordBits
      <3>1. Mark(bm, c)[d \div WordBits] = bm[d \div WordBits] \cup {c % WordBits}
        BY <2>1, <2>2 DEF Mark, Bitmap
      <3>2. d % WordBits = c % WordBits <=> d = c
        BY <2>2, PositionUnique
      <3> QED BY <3>1, <3>2 DEF Seen
    <2>3. CASE d \div WordBits # c \div WordBits
      <3>1. Mark(bm, c)[d \div WordBits] = bm[d \div WordBits]
        BY <2>1, <2>3 DEF Mark, Bitmap
      <3>2. d # c
        BY <2>3
      <3> QED BY <3>1, <3>2 DEF Seen
    <2> QED BY <2>2, <2>3
  <1> QED BY <1>2, <1>3

(* The empty bitmap is a bitmap that shows nothing (srtp.js:366-368).      *)
LEMMA EmptySeen ==
    /\ EmptyBitmap \in Bitmap
    /\ \A d \in 0 .. Window - 1 : ~ Seen(EmptyBitmap, d)
  <1>1. EmptyBitmap \in Bitmap
    BY DEF EmptyBitmap, Bitmap
  <1>2. ASSUME NEW d \in 0 .. Window - 1 PROVE ~ Seen(EmptyBitmap, d)
    BY Position DEF Seen, EmptyBitmap
  <1> QED BY <1>1, <1>2

(* _bitmapShiftLeft, words and carries, moves every bit by n positions.    *)
LEMMA ShiftSeen ==
    ASSUME NEW bm \in Bitmap, NEW n \in Nat
    PROVE  /\ ShiftLeft(bm, n) \in Bitmap
           /\ \A d \in 0 .. Window - 1 :
                Seen(ShiftLeft(bm, n), d) <=> d >= n /\ Seen(bm, d - n)
  <1> DEFINE q == n \div WordBits
             r == n % WordBits
             Kept(src)  == IF src < 0 THEN {}
                           ELSE {b \in Bits : b >= r /\ b - r \in bm[src]}
             Carry(src) == IF src < 1 THEN {}
                           ELSE {b \in Bits : b < r /\ b - r + WordBits \in bm[src - 1]}
  <1>1. CASE n >= Window
    <2>1. ShiftLeft(bm, n) = EmptyBitmap
      BY <1>1 DEF ShiftLeft
    <2>2. \A d \in 0 .. Window - 1 : ~ (d >= n)
      BY <1>1, SrtpAssumption DEF Window
    <2> QED BY <2>1, <2>2, EmptySeen
  <1>2. CASE n < Window
    <2>1. q \in 0 .. Words - 1 /\ r \in Bits /\ n = WordBits * q + r
      <3>1. n \in 0 .. Window - 1
        BY <1>2, SrtpAssumption DEF Window
      <3> QED BY <3>1, Position
    <2>2. ShiftLeft(bm, n) = [w \in 0 .. Words - 1 |-> Kept(w - q) \cup Carry(w - q)]
      BY <1>2, SrtpAssumption DEF ShiftLeft, Window
    <2>3. ShiftLeft(bm, n) \in Bitmap
      BY <2>2 DEF Bitmap
    <2>4. ASSUME NEW d \in 0 .. Window - 1
          PROVE  Seen(ShiftLeft(bm, n), d) <=> d >= n /\ Seen(bm, d - n)
      <3> DEFINE w == d \div WordBits
                 b == d % WordBits
      <3>1. w \in 0 .. Words - 1 /\ b \in Bits /\ d = WordBits * w + b
        BY Position
      <3>2. Seen(ShiftLeft(bm, n), d) <=> b \in Kept(w - q) \cup Carry(w - q)
        BY <2>2, <3>1 DEF Seen
      <3> HIDE DEF w, b, q, r
      <3>3. CASE b >= r
        <4>1. b \in Kept(w - q) \cup Carry(w - q) <=> w - q >= 0 /\ b - r \in bm[w - q]
          BY <3>1, <3>3, <2>1, SrtpAssumption DEF Bits
        <4>2. d >= n <=> w - q >= 0
          <5>1. WordBits * w + b >= WordBits * q + r <=> w > q \/ (w = q /\ b >= r)
            BY <3>1, <2>1, Compare, SrtpAssumption DEF Bits
          <5> QED BY <5>1, <3>1, <3>3, <2>1
        <4>3. (d - n) \div WordBits = w - q /\ (d - n) % WordBits = b - r
          <5>1. PICK a \in Int : a = d - n
            BY <3>1
          <5>2. PICK v \in Int : v = w - q
            BY <3>1, <2>1
          <5>3. PICK c \in 0 .. WordBits - 1 : c = b - r
            BY <3>1, <3>3, <2>1, SrtpAssumption DEF Bits
          <5>4. a = WordBits * v + c
            BY <5>1, <5>2, <5>3, <3>1, <2>1, SrtpAssumption DEF Bits
          <5>5. a \div WordBits = v /\ a % WordBits = c
            BY <5>4, DivModUnique, SrtpAssumption
          <5> QED BY <5>1, <5>2, <5>3, <5>5
        <4> QED BY <3>2, <4>1, <4>2, <4>3 DEF Seen
      <3>4. CASE b < r
        <4>1. b \in Kept(w - q) \cup Carry(w - q)
                <=> w - q >= 1 /\ b - r + WordBits \in bm[w - q - 1]
          BY <3>1, <3>4, <2>1, SrtpAssumption DEF Bits
        <4>2. d >= n <=> w - q >= 1
          <5>1. WordBits * w + b >= WordBits * q + r <=> w > q \/ (w = q /\ b >= r)
            BY <3>1, <2>1, Compare, SrtpAssumption DEF Bits
          <5> QED BY <5>1, <3>1, <3>4, <2>1 DEF Bits
        <4>3. (d - n) \div WordBits = w - q - 1 /\ (d - n) % WordBits = b - r + WordBits
          <5>1. PICK a \in Int : a = d - n
            BY <3>1
          <5>2. PICK v \in Int : v = w - q - 1
            BY <3>1, <2>1
          <5>3. PICK c \in 0 .. WordBits - 1 : c = b - r + WordBits
            BY <3>1, <3>4, <2>1, SrtpAssumption DEF Bits
          <5>4. a = WordBits * v + c
            BY <5>1, <5>2, <5>3, <3>1, <2>1, SrtpAssumption DEF Bits
          <5>5. a \div WordBits = v /\ a % WordBits = c
            BY <5>4, DivModUnique, SrtpAssumption
          <5> QED BY <5>1, <5>2, <5>3, <5>5
        <4> QED BY <3>2, <4>1, <4>2, <4>3 DEF Seen
      <3> QED BY <3>1, <2>1, <3>3, <3>4, SrtpAssumption DEF Bits
    <2> QED BY <2>3, <2>4
  <1> QED BY <1>1, <1>2, SrtpAssumption DEF Window

(* The window holds at least one index.                                    *)
LEMMA WindowPositive == Window \in Nat \ {0}
  BY SrtpAssumption DEF Window

(* What the bitmap shows after an index that was fresh is recorded: that   *)
(* index, and every index of the new window that it showed before.         *)
LEMMA MarkWindow ==
    ASSUME NEW max \in Nat \cup {NoIndex}, NEW bm \in Bitmap, NEW i \in Nat,
           ReplayFresh(max, bm, i)
    PROVE  /\ ReplayMark(max, bm, i) \in Bitmap
           /\ \A d \in 0 .. Window - 1 :
                Seen(ReplayMark(max, bm, i), d)
                  <=> \/ Larger(i, max) - d = i
                      \/ /\ max # NoIndex
                         /\ Larger(i, max) - d <= max
                         /\ Seen(bm, max - (Larger(i, max) - d))
  <1>0. 0 \in 0 .. Window - 1
    BY WindowPositive
  <1>1. CASE max = NoIndex
    <2>1. ReplayMark(max, bm, i) = Mark(EmptyBitmap, 0)
      BY <1>1 DEF ReplayMark
    <2>2. Larger(i, max) = i
      BY <1>1 DEF Larger, NoIndex
    <2> QED BY <1>0, <1>1, <2>1, <2>2, MarkSeen, EmptySeen, WindowPositive
  <1>2. CASE max \in Nat /\ i > max
    <2>1. ReplayMark(max, bm, i) = Mark(ShiftLeft(bm, i - max), 0)
      BY <1>2 DEF ReplayMark, NoIndex
    <2>2. Larger(i, max) = i /\ i - max \in Nat
      BY <1>2 DEF Larger
    <2>3. /\ ShiftLeft(bm, i - max) \in Bitmap
          /\ \A d \in 0 .. Window - 1 :
                Seen(ShiftLeft(bm, i - max), d) <=> d >= i - max /\ Seen(bm, d - (i - max))
      BY <2>2, ShiftSeen
    <2>4. ASSUME NEW d \in 0 .. Window - 1
          PROVE  /\ i - d = i <=> d = 0
                 /\ max # NoIndex
                 /\ i - d <= max <=> d >= i - max
                 /\ d - (i - max) = max - (i - d)
      BY <1>2, WindowPositive DEF NoIndex
    <2> QED BY <1>0, <2>1, <2>2, <2>3, <2>4, MarkSeen
  <1>3. CASE max \in Nat /\ i <= max
    <2>1. ReplayMark(max, bm, i) = Mark(bm, max - i) /\ max - i \in 0 .. Window - 1
      BY <1>3 DEF ReplayMark, ReplayFresh, NoIndex
    <2>2. Larger(i, max) = max
      BY <1>3 DEF Larger
    <2>3. ASSUME NEW d \in 0 .. Window - 1
          PROVE  /\ max - d = i <=> d = max - i
                 /\ max # NoIndex
                 /\ max - d <= max
                 /\ max - (max - d) = d
      BY <1>3, WindowPositive DEF NoIndex
    <2> QED BY <2>1, <2>2, <2>3, MarkSeen
  <1> QED BY <1>1, <1>2, <1>3

-----------------------------------------------------------------------------
(* An index is its rollover counter and its sequence number.               *)
LEMMA IndexSplit ==
    ASSUME NEW a \in Nat
    PROVE  /\ a = SeqMod * RocOf(a) + SeqOf(a)
           /\ SeqOf(a) \in 0 .. SeqMod - 1
           /\ RocOf(a) \in Nat
  <1>1. SeqMod \in Nat \ {0}
    BY SrtpAssumption
  <1>2. a = SeqMod * (a \div SeqMod) + (a % SeqMod) /\ a % SeqMod \in 0 .. SeqMod - 1
    BY <1>1, DivMod
  <1>3. a \div SeqMod \in Nat
    BY <1>1
  <1> QED BY <1>2, <1>3 DEF RocOf, SeqOf

(* The rollover counter guess is right for every index less than half the  *)
(* sequence space away from the highest authenticated one, on both sides   *)
(* of a wraparound, and at exactly half for the one of the same rollover   *)
(* (decryptRtp, srtp.js:306-319).                                          *)
LEMMA GuessCorrect ==
    ASSUME NEW max \in Nat, NEW i \in Nat, i < RocMod * SeqMod,
           Near(max, i)
    PROVE  GuessIndex(max, SeqOf(i)) = i
  <1> DEFINE R == RocOf(max)
             L == SeqOf(max)
             r == RocOf(i)
             s == SeqOf(i)
  <1>1. /\ SeqMod \in Nat \ {0} /\ RocMod \in Nat \ {0} /\ Half \in Nat
        /\ SeqMod = 2 * Half
    BY SrtpAssumption DEF Half
  <1>2. /\ max = SeqMod * R + L /\ L \in 0 .. SeqMod - 1 /\ R \in Nat
        /\ i = SeqMod * r + s /\ s \in 0 .. SeqMod - 1 /\ r \in Nat
    BY IndexSplit
  <1>3. r < RocMod
    <2>1. CASE r >= RocMod
      <3>1. SeqMod * r >= SeqMod * RocMod
        BY <2>1, <1>1, <1>2
      <3> QED BY <3>1, <1>1, <1>2
    <2> QED BY <2>1, <1>1, <1>2
  <1>4. GuessIndex(max, s) = GuessRoc(max, s) * SeqMod + s
    BY DEF GuessIndex
  <1>11. max - i <= Half /\ i - max <= Half /\ (r = R \/ (max - i < Half /\ i - max < Half))
    BY DEF Near
  <1> HIDE DEF R, L, r, s
  <1>5. PICK k \in Int : k = r - R
    BY <1>2
  <1>6. i - max = SeqMod * k + (s - L)
    BY <1>1, <1>2, <1>5
  <1>7. (k >= 1 => SeqMod * k >= SeqMod) /\ (k <= -1 => SeqMod * k <= -SeqMod)
    BY <1>1
  <1>8. (k >= 2 => SeqMod * k >= 2 * SeqMod) /\ (k <= -2 => SeqMod * k <= -(2 * SeqMod))
    BY <1>1
  <1>9. GuessRoc(max, s) = IF L < Half
                           THEN IF s - L > Half THEN Larger(0, R - 1) ELSE R
                           ELSE IF L - Half > s THEN (R + 1) % RocMod ELSE R
    BY DEF GuessRoc, NoIndex, R, L
  <1>10. GuessRoc(max, s) = r
    <2>1. CASE L < Half /\ s - L > Half
      <3>1. k = -1
        BY <2>1, <1>1, <1>2, <1>5, <1>6, <1>7, <1>8, <1>11
      <3> QED BY <3>1, <2>1, <1>2, <1>5, <1>9 DEF Larger
    <2>2. CASE L < Half /\ ~ (s - L > Half)
      <3>1. k = 0
        BY <2>2, <1>1, <1>2, <1>5, <1>6, <1>7, <1>8, <1>11
      <3> QED BY <3>1, <2>2, <1>2, <1>5, <1>9
    <2>3. CASE ~ (L < Half) /\ L - Half > s
      <3>1. k = 1
        BY <2>3, <1>1, <1>2, <1>5, <1>6, <1>7, <1>8, <1>11
      <3>2. (R + 1) % RocMod = R + 1
        BY <3>1, <1>1, <1>2, <1>3, <1>5
      <3> QED BY <3>1, <3>2, <2>3, <1>2, <1>5, <1>9
    <2>4. CASE ~ (L < Half) /\ ~ (L - Half > s)
      <3>1. k = 0
        BY <2>4, <1>1, <1>2, <1>5, <1>6, <1>7, <1>8, <1>11
      <3> QED BY <3>1, <2>4, <1>2, <1>5, <1>9
    <2> QED BY <2>1, <2>2, <2>3, <2>4
  <1> QED BY <1>1, <1>2, <1>4, <1>10 DEF s
=============================================================================
