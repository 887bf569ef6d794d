-------------------------- MODULE RtpForwarderProofs --------------------------
(***************************************************************************)
(* Proofs about RtpForwarder for all sizes of the sequence and timestamp   *)
(* spaces, all sources and all jumps: as long as the first packets after a *)
(* switch arrive in order, the consumer receives the promised stream, and  *)
(* no number twice.  The types hold however the packets are reordered.     *)
(***************************************************************************)
EXTENDS RtpForwarder, TLAPS

(* Division with remainder.                                                *)
LEMMA DivMod ==
    ASSUME NEW a \in Int, NEW m \in Nat \ {0}
    PROVE  a % m \in 0 .. m - 1 /\ \E q \in Int : a = m * q + (a % m)
  <1>1. a % m \in 0 .. m - 1 /\ a \div m \in Int /\ a = m * (a \div m) + (a % m)
    OBVIOUS
  <1> QED
    BY <1>1

(* A quotient and a remainder determine each other.                        *)
LEMMA ModUnique ==
    ASSUME NEW m \in Nat \ {0}, NEW r \in 0 .. m - 1, NEW a \in Int,
           NEW q \in Int, a = m * q + r
    PROVE  a % m = r
  OBVIOUS

(* A number in the space is its own remainder.                             *)
LEMMA ModSmall ==
    ASSUME NEW m \in Nat \ {0}, NEW a \in 0 .. m - 1
    PROVE  a % m = a
  OBVIOUS

(* A remainder lies in the space, where wrapping changes nothing.          *)
LEMMA ModOfMod ==
    ASSUME NEW m \in Nat \ {0}, NEW a \in Int
    PROVE  a % m \in 0 .. m - 1 /\ (a % m) % m = a % m
  BY DivMod, ModSmall

(* Sums depend on the remainders of their terms only ...                   *)
LEMMA ModAdd ==
    ASSUME NEW m \in Nat \ {0}, NEW a \in Int, NEW b \in Int, NEW c \in Int,
           a % m = b % m
    PROVE  (a + c) % m = (b + c) % m
  <1>1. PICK p \in Int : a = m * p + (a % m)
    BY DivMod
  <1>2. PICK q \in Int : b + c = m * q + ((b + c) % m)
    <2> DEFINE s == b + c
    <2>1. s \in Int
      OBVIOUS
    <2> HIDE DEF s
    <2>2. \E q \in Int : s = m * q + (s % m)
      BY <2>1, DivMod
    <2> QED
      BY <2>2 DEF s
  <1>3. PICK r \in Int : b = m * r + (b % m)
    BY DivMod
  <1> DEFINE rest == (b + c) % m
  <1>4. rest \in 0 .. m - 1
    BY DivMod
  <1>5. m * (p + q - r) = m * p + m * q - m * r /\ p + q - r \in Int
    OBVIOUS
  <1>6. a + c = m * (p + q - r) + rest
    <2>1. a % m \in Int /\ rest \in Int /\ m * p \in Int /\ m * q \in Int /\ m * r \in Int
      BY DivMod
    <2> HIDE DEF rest
    <2>2. b + c = m * q + rest
      BY <1>2 DEF rest
    <2> QED
      BY <1>1, <2>2, <1>3, <1>5, <2>1
  <1>7. a + c \in Int
    OBVIOUS
  <1> HIDE DEF rest
  <1>8. (a + c) % m = rest
    BY <1>4, <1>5, <1>6, <1>7, ModUnique
  <1> QED
    BY <1>8 DEF rest

(* ... and so do differences.                                              *)
LEMMA ModSub ==
    ASSUME NEW m \in Nat \ {0}, NEW a \in Int, NEW b \in Int, NEW c \in Int,
           a % m = b % m
    PROVE  (c - a) % m = (c - b) % m
  <1> DEFINE s == c - a - b
  <1>1. s \in Int
    OBVIOUS
  <1>2. (a + s) % m = (b + s) % m
    <2> HIDE DEF s
    <2> QED
      BY <1>1, ModAdd
  <1>3. a + s = c - b /\ b + s = c - a
    OBVIOUS
  <1> QED
    BY <1>2, <1>3

(* Wrapping the terms of a difference first changes nothing.               *)
LEMMA ModDiff ==
    ASSUME NEW m \in Nat \ {0}, NEW a \in Int, NEW b \in Int
    PROVE  ((a % m) - b) % m = (a - b) % m /\ ((a % m) - (b % m)) % m = (a - b) % m
  <1>1. PICK u, v : u = a % m /\ v = b % m
    OBVIOUS
  <1>2. u \in Int /\ v \in Int /\ u % m = a % m /\ v % m = b % m
    <2>1. a % m \in Int /\ b % m \in Int
      BY ModOfMod
    <2>2. (a % m) % m = a % m /\ (b % m) % m = b % m
      BY ModOfMod, Zenon
    <2> QED
      BY <1>1, <2>1, <2>2, Zenon
  <1>3. (u - v) % m = (u - b) % m
    BY <1>2, ModSub, Zenon
  <1>4. -b \in Int
    OBVIOUS
  <1>5. (u + (-b)) % m = (a + (-b)) % m
    BY <1>2, <1>4, ModAdd, Zenon
  <1>6. u + (-b) = u - b /\ a + (-b) = a - b
    BY <1>2
  <1> QED
    BY <1>1, <1>3, <1>5, <1>6, Zenon

(* A wrapped difference is the difference, if that is less than half the   *)
(* space (seqDelta and tsDelta, 28-35).                                    *)
LEMMA SignedClose ==
    ASSUME NEW m \in Nat \ {0}, m % 2 = 0, NEW a \in Int, NEW b \in Int,
           a - b < m \div 2, b - a <= m \div 2
    PROVE  Signed(((a % m) - (b % m)) % m, m) = a - b
  <1> DEFINE d == a - b
  <1>1. d \in Int /\ m = 2 * (m \div 2) /\ m \div 2 \in Nat
    OBVIOUS
  <1>2. ((a % m) - (b % m)) % m = d % m
    BY ModDiff
  <1>3. CASE d >= 0
    <2>1. d \in 0 .. m - 1 /\ ~ (d >= m \div 2)
      BY <1>1, <1>3
    <2> HIDE DEF d
    <2>2. d % m = d
      BY <2>1, ModSmall
    <2>3. Signed(d % m, m) = d
      BY <2>1, <2>2 DEF Signed
    <2> QED
      BY <1>2, <2>3 DEF d
  <1>4. CASE d < 0
    <2>1. d + m \in 0 .. m - 1 /\ d + m >= m \div 2 /\ d = m * (-1) + (d + m)
      BY <1>1, <1>4
    <2> HIDE DEF d
    <2>2. d % m = d + m
      BY <1>1, <2>1, ModUnique
    <2>3. Signed(d % m, m) = d
      BY <1>1, <2>1, <2>2 DEF Signed
    <2> QED
      BY <1>2, <2>3 DEF d
  <1> QED
    BY <1>1, <1>3, <1>4

(* The offset takes x, counted from first, to y.                           *)
Lands(first, x, off, y, m) == ((first + x) - off) % m = y % m

(* The packets of a source keep their distances: with an offset that takes *)
(* x0 to y0, x goes to y0 + (x - x0) ...                                   *)
LEMMA Carried ==
    ASSUME NEW m \in Nat \ {0}, NEW first \in Int, NEW x \in Int, NEW x0 \in Int,
           NEW off \in Int, NEW y0 \in Int, Lands(first, x0, off, y0, m)
    PROVE  Lands(first, x, off, y0 + (x - x0), m)
  <1>1. PICK u, v, c : u = (first + x0) - off /\ v = (first + x) - off /\ c = x - x0
    OBVIOUS
  <1>2. u \in Int /\ v \in Int /\ c \in Int /\ v = u + c
    BY <1>1
  <1>3. u % m = y0 % m
    BY <1>1, Zenon DEF Lands
  <1>4. (u + c) % m = (y0 + c) % m
    <2>1. \A s, t \in Int : s % m = y0 % m => (s + t) % m = (y0 + t) % m
      BY ModAdd, Zenon
    <2> QED
      BY <1>2, <1>3, <2>1, Zenon
  <1>5. v % m = (y0 + c) % m
    BY <1>2, <1>4, Zenon
  <1> QED
    BY <1>1, <1>5, Zenon DEF Lands

(* ... and the code, which subtracts the offset from the input modulo m,   *)
(* gets there.                                                             *)
LEMMA Landed ==
    ASSUME NEW m \in Nat \ {0}, NEW first \in Int, NEW x \in Int,
           NEW off \in Int, NEW y \in Int, Lands(first, x, off, y, m)
    PROVE  (((first + x) % m) - off) % m = y % m
  <1>1. PICK v : v = first + x
    OBVIOUS
  <1>2. v \in Int
    BY <1>1
  <1>3. ((v % m) - off) % m = (v - off) % m
    BY <1>2, ModDiff, Zenon
  <1> QED
    BY <1>1, <1>3, Zenon DEF Lands

(* The offset a re-base stores (108-110).                                  *)
Offset(x, want, m) == Signed(((x % m) - want) % m, m)

(* It makes the input land at the wanted number, and so it does the input  *)
(* before its own wrapping.                                                *)
LEMMA Rebased ==
    ASSUME NEW m \in Nat \ {0}, m % 2 = 0, NEW x \in Int, NEW want \in 0 .. m - 1
    PROVE  /\ Offset(x, want, m) \in Int
           /\ ((x % m) - Offset(x, want, m)) % m = want
           /\ (x - Offset(x, want, m)) % m = want
  <1> SUFFICES ASSUME NEW off, off = Signed(((x % m) - want) % m, m)
               PROVE  off \in Int /\ ((x % m) - off) % m = want /\ (x - off) % m = want
    BY DEF Offset
  <1>1. PICK y, d : y = x % m /\ d = (x % m) - want
    OBVIOUS
  <1>2. y \in Int /\ d \in Int /\ want \in Int /\ d = y - want
    BY <1>1, ModOfMod
  <1>3. off = Signed(d % m, m)
    BY <1>1, Zenon
  <1>4. PICK e : e = d % m
    OBVIOUS
  <1>5. e \in 0 .. m - 1 /\ e % m = e
    BY <1>2, <1>4, ModOfMod
  <1>6. off \in Int /\ off % m = e
    <2>1. CASE e >= m \div 2
      <3>1. off = e - m
        BY <1>3, <1>4, <2>1 DEF Signed
      <3>2. off \in Int /\ off = m * (-1) + e
        BY <1>5, <3>1
      <3> QED
        BY <1>5, <3>2, ModUnique
    <2>2. CASE ~ (e >= m \div 2)
      BY <1>3, <1>4, <1>5, <2>2 DEF Signed
    <2> QED
      BY <2>1, <2>2
  <1>7. (y - off) % m = (y - d) % m
    <2>1. off % m = d % m
      BY <1>4, <1>6
    <2>2. \A s, t, w \in Int : s % m = t % m => (w - s) % m = (w - t) % m
      BY ModSub, Zenon
    <2> QED
      BY <1>2, <1>6, <2>1, <2>2, Zenon
  <1>8. (y - d) % m = want
    <2>1. y - d = want
      BY <1>2
    <2> QED
      BY <2>1, ModSmall
  <1>9. ((x % m) - off) % m = (x - off) % m
    BY <1>6, ModDiff, Zenon
  <1> QED
    BY <1>1, <1>6, <1>7, <1>8, <1>9, Zenon

-----------------------------------------------------------------------------
Rec(n, pos, time) == [source |-> stretch, n |-> n, pos |-> pos, time |-> time]

(* Some packet is the furthest, and the code remembers its numbers.        *)
Last(f) ==
    /\ f \in heard /\ \A q \in heard : q.pos <= f.pos
    /\ lastOutSeq = f.pos % SeqMod /\ lastOutTs = f.time % TsMod

(* The anchor a of the source: its offsets take it where it is, the other  *)
(* packets of the source lie around it, and those of earlier sources       *)
(* before it.                                                              *)
Anchored(a) ==
    /\ a \in heard /\ a.source = stretch /\ a.n = anchor
    /\ Lands(Stretches[stretch].seq, anchor, seqOffset, a.pos, SeqMod)
    /\ Lands(Stretches[stretch].ts, anchor * TsStep, tsOffset, a.time, TsMod)
    /\ \A p \in heard :
          \/ /\ p.source = stretch
             /\ p.pos = a.pos + p.n - a.n
             /\ p.time = a.time + (p.n - a.n) * TsStep
          \/ p.source # stretch /\ p.pos < a.pos /\ p.time <= a.time
    /\ (\A p \in heard : p.source = stretch)
       \/ (\A p \in heard : p.source = stretch => p.n >= anchor)

Shape ==
    /\ heard \subseteq [source : Nat, n : Numbers, pos : Int, time : Int]
    /\ stretch \in DOMAIN Stretches
    /\ \A p \in heard : p.source <= stretch
    /\ seqOffset \in Int /\ tsOffset \in Int
    /\ pendingTsJump \in Nat /\ pendingTsJump < TsMod \div 2
    /\ pendingSwitch \in BOOLEAN

Unique == \A p, q \in heard : p.pos = q.pos => p = q

ForwarderInv ==
    /\ Shape /\ Unique /\ TimeAdvances
    /\ heard = {} => lastOutSeq = None /\ ~ pendingSwitch /\ anchor = None
                     /\ pendingTsJump = 0
    /\ heard # {} => \E f \in heard : Last(f)
    /\ pendingSwitch => \A p \in heard : p.source # stretch
    /\ pendingSwitch => anchor = None
    /\ heard # {} /\ ~ pendingSwitch => \E a \in heard : Anchored(a)

(* The sources are numbered from 1.                                        *)
LEMMA StretchDomain == DOMAIN Stretches = 1 .. Len(Stretches) /\ Len(Stretches) \in Nat
  <1>1. ASSUME NEW S, NEW s \in Seq(S) PROVE DOMAIN s = 1 .. Len(s) /\ Len(s) \in Nat
    OBVIOUS
  <1> QED
    BY <1>1, ForwarderAssumption, Zenon

(* What follows for the constants from ForwarderAssumption.                *)
LEMMA Constants ==
    /\ SeqMod \in Nat \ {0} /\ SeqMod % 2 = 0 /\ SeqMod \div 2 \in Nat
    /\ SeqMod = 2 * (SeqMod \div 2)
    /\ TsMod \in Nat \ {0} /\ TsMod % 2 = 0 /\ TsMod \div 2 \in Nat
    /\ TsMod = 2 * (TsMod \div 2)
    /\ Length \in Nat /\ Length < SeqMod \div 2
    /\ TsStep \in Nat /\ Length * TsStep < TsMod \div 2
    /\ StartSeq \in 0 .. SeqMod - 1 /\ StartTs \in 0 .. TsMod - 1
    /\ \A k \in DOMAIN Stretches : Stretches[k].seq \in Int /\ Stretches[k].ts \in Int
    /\ DOMAIN Stretches \subseteq Nat
  <1>1. \A k \in DOMAIN Stretches :
           Stretches[k] \in [seq : 0 .. SeqMod - 1, ts : 0 .. TsMod - 1]
    <2>1. ASSUME NEW S, NEW s \in Seq(S), NEW k \in DOMAIN s PROVE s[k] \in S
      OBVIOUS
    <2> QED
      BY <2>1, ForwarderAssumption, Zenon
  <1>2. \A m \in Nat \ {0} : m % 2 = 0 => m \div 2 \in Nat /\ m = 2 * (m \div 2)
    OBVIOUS
  <1>3. \A k \in DOMAIN Stretches : Stretches[k].seq \in Int /\ Stretches[k].ts \in Int
    BY <1>1, ForwarderAssumption
  <1> QED
    BY <1>2, <1>3, StretchDomain, ForwarderAssumption

(* A packet that leaves less than half a space away from the furthest one  *)
(* is placed by the consumer where it belongs, and the code's memory of    *)
(* the furthest packet follows.                                            *)
LEMMA EmitPlaces ==
    ASSUME Shape, Unique, TimeAdvances, NEW f \in heard, Last(f), NEW n \in Numbers,
           NEW pos \in Int, pos - f.pos < SeqMod \div 2, f.pos - pos <= SeqMod \div 2,
           NEW time \in Int, time - f.time < TsMod \div 2, f.time - time <= TsMod \div 2,
           \A p \in heard : p.pos = pos => p = Rec(n, pos, time),
           \A p \in heard : p.pos <= pos => p.time <= time,
           \A p \in heard : p.pos >= pos => p.time >= time,
           Emit(n, pos % SeqMod, time % TsMod), stretch' = stretch
    PROVE  /\ heard' = heard \cup {Rec(n, pos, time)}
           /\ Unique' /\ TimeAdvances'
           /\ \E g \in heard' : Last(g)'
  <1>0. PICK r : r = Rec(n, pos, time)
    OBVIOUS
  <1>1. f.pos \in Int /\ f.time \in Int /\ heard # {}
    BY DEF Shape
  <1>2. Furthest = f
    <2>1. \A q \in heard : q.pos <= f.pos
      BY DEF Last
    <2>2. Furthest \in heard /\ \A q \in heard : q.pos <= Furthest.pos
      BY <2>1 DEF Furthest
    <2>3. Furthest.pos \in Int /\ Furthest.pos <= f.pos /\ f.pos <= Furthest.pos
      BY <2>1, <2>2 DEF Shape
    <2>4. Furthest.pos = f.pos
      BY <1>1, <2>3
    <2> QED
      BY <2>2, <2>4 DEF Unique
  <1>3. SeqDelta(pos % SeqMod, f.pos % SeqMod) = pos - f.pos
    BY <1>1, Constants, SignedClose DEF SeqDelta
  <1>4. TsDelta(time % TsMod, f.time % TsMod) = time - f.time
    BY <1>1, Constants, SignedClose DEF TsDelta
  <1>5. heard' = heard \cup {r}
    <2>1. f.pos + (pos - f.pos) = pos /\ f.time + (time - f.time) = time
      BY <1>1
    <2>2. Heard(n, pos % SeqMod, time % TsMod) = r
      BY <1>0, <1>1, <1>2, <1>3, <1>4, <2>1 DEF Heard, Rec
    <2> QED
      BY <2>2 DEF Emit
  <1>6. r.pos = pos /\ r.time = time
    BY <1>0 DEF Rec
  <1>7. Unique'
    BY <1>0, <1>5, <1>6 DEF Unique
  <1>8. TimeAdvances'
    BY <1>5, <1>6 DEF TimeAdvances
  <1>9. IsLatest(pos % SeqMod) <=> pos > f.pos
    <2>1. lastOutSeq = f.pos % SeqMod /\ f.pos % SeqMod \in 0 .. SeqMod - 1
      BY <1>1, Constants, ModOfMod DEF Last
    <2>2. lastOutSeq # None
      BY <2>1, Constants DEF None
    <2> QED
      BY <1>1, <1>3, <2>1, <2>2 DEF IsLatest
  <1>10. CASE pos > f.pos
    <2>1. lastOutSeq' = pos % SeqMod /\ lastOutTs' = time % TsMod
      BY <1>9, <1>10 DEF Emit
    <2>2. \A q \in heard' : q.pos <= r.pos
      BY <1>1, <1>5, <1>6, <1>10 DEF Last, Shape
    <2>3. Last(r)'
      BY <1>5, <1>6, <2>1, <2>2 DEF Last
    <2> QED
      BY <1>0, <1>5, <1>7, <1>8, <2>3
  <1>11. CASE ~ (pos > f.pos)
    <2>1. lastOutSeq' = lastOutSeq /\ lastOutTs' = lastOutTs
      BY <1>9, <1>11 DEF Emit
    <2>2. \A q \in heard' : q.pos <= f.pos
      BY <1>1, <1>5, <1>6, <1>11 DEF Last
    <2>3. Last(f)'
      BY <1>5, <2>1, <2>2 DEF Last
    <2> QED
      BY <1>0, <1>5, <1>7, <1>8, <2>3
  <1> QED
    BY <1>10, <1>11

(* What a re-base stores, and where its packet lands.                      *)
LEMMA RebaseOffsets ==
    ASSUME stretch \in DOMAIN Stretches, NEW n \in Numbers, anchor = None,
           NEW seq \in 0 .. SeqMod - 1, NEW ts \in 0 .. TsMod - 1, Rebase(n, seq, ts)
    PROVE  /\ anchor' = n /\ seqOffset' \in Int /\ tsOffset' \in Int
           /\ ((Stretches[stretch].seq + n) - seqOffset') % SeqMod = seq
           /\ ((Stretches[stretch].ts + n * TsStep) - tsOffset') % TsMod = ts
           /\ Emit(n, seq, ts)
  <1>1. PICK x, y : x = Stretches[stretch].seq + n /\ y = Stretches[stretch].ts + n * TsStep
    OBVIOUS
  <1>2. x \in Int /\ y \in Int
    BY <1>1, Constants DEF Numbers
  <1>3. SeqMod \in Nat \ {0} /\ SeqMod % 2 = 0 /\ TsMod \in Nat \ {0} /\ TsMod % 2 = 0
    BY Constants
  <1>4. PICK off, tsOff : off = Offset(x, seq, SeqMod) /\ tsOff = Offset(y, ts, TsMod)
    OBVIOUS
  <1>5. off \in Int /\ ((x % SeqMod) - off) % SeqMod = seq /\ (x - off) % SeqMod = seq
    <2>1. /\ Offset(x, seq, SeqMod) \in Int
          /\ ((x % SeqMod) - Offset(x, seq, SeqMod)) % SeqMod = seq
          /\ (x - Offset(x, seq, SeqMod)) % SeqMod = seq
      BY <1>2, <1>3, Rebased, Zenon
    <2> QED
      BY <1>4, <2>1, Zenon
  <1>6. tsOff \in Int /\ ((y % TsMod) - tsOff) % TsMod = ts /\ (y - tsOff) % TsMod = ts
    <2>1. /\ Offset(y, ts, TsMod) \in Int
          /\ ((y % TsMod) - Offset(y, ts, TsMod)) % TsMod = ts
          /\ (y - Offset(y, ts, TsMod)) % TsMod = ts
      BY <1>2, <1>3, Rebased, Zenon
    <2> QED
      BY <1>4, <2>1, Zenon
  <1>7. seqOffset' = off /\ tsOffset' = tsOff
    BY <1>1, <1>4 DEF Rebase, SeqDelta, TsDelta, InSeq, InTs, Offset
  <1>8. InSeq(n) = x % SeqMod /\ InTs(n) = y % TsMod
    BY <1>1 DEF InSeq, InTs
  <1>9. Emit(n, seq, ts)
    BY <1>5, <1>6, <1>7, <1>8, Zenon DEF Rebase
  <1>10. anchor' = n
    BY DEF Rebase
  <1>11. ((Stretches[stretch].seq + n) - seqOffset') % SeqMod = seq
    <2>1. (Stretches[stretch].seq + n) - seqOffset' = x - off
      BY <1>1, <1>7, Zenon
    <2> QED
      BY <1>5, <2>1, Zenon
  <1>12. ((Stretches[stretch].ts + n * TsStep) - tsOffset') % TsMod = ts
    <2>1. (Stretches[stretch].ts + n * TsStep) - tsOffset' = y - tsOff
      BY <1>1, <1>7, Zenon
    <2> QED
      BY <1>6, <2>1, Zenon
  <1> QED
    BY <1>5, <1>6, <1>7, <1>9, <1>10, <1>11, <1>12

(* The stream has begun exactly when the code remembers a number.          *)
LEMMA BegunOrNot == ForwarderInv => (heard = {} <=> lastOutSeq = None)
  <1> SUFFICES ASSUME ForwarderInv, heard # {} PROVE lastOutSeq # None
    BY DEF ForwarderInv
  <1>1. PICK f \in heard : Last(f)
    BY DEF ForwarderInv
  <1>2. f.pos \in Int
    BY DEF ForwarderInv, Shape
  <1>3. f.pos % SeqMod \in 0 .. SeqMod - 1
    BY <1>2, Constants, ModOfMod
  <1> QED
    BY <1>1, <1>3, Constants DEF Last, None

(* The first packet of all begins the stream (97-100).                     *)
LEMMA FirstStep ==
    ASSUME ForwarderInv, NEW n \in Numbers, ForwardFirst(n)
    PROVE  ForwarderInv' /\ Promised!Begin(n)
  <1>1. heard = {} /\ lastOutSeq = None /\ anchor = None /\ ~ pendingSwitch
    BY BegunOrNot DEF ForwarderInv, ForwardFirst
  <1>2. /\ pendingSwitch' = pendingSwitch /\ pendingTsJump' = pendingTsJump
        /\ stretch' = stretch
    BY DEF ForwardFirst
  <1>3. /\ anchor' = n /\ seqOffset' \in Int /\ tsOffset' \in Int
        /\ ((Stretches[stretch].seq + n) - seqOffset') % SeqMod = StartSeq
        /\ ((Stretches[stretch].ts + n * TsStep) - tsOffset') % TsMod = StartTs
        /\ Emit(n, StartSeq, StartTs)
    BY <1>1, Constants, RebaseOffsets DEF ForwarderInv, Shape, ForwardFirst
  <1>4. PICK r : r = Rec(n, StartSeq, StartTs)
    OBVIOUS
  <1>5. heard' = {r} /\ lastOutSeq' = StartSeq /\ lastOutTs' = StartTs
    BY <1>1, <1>3, <1>4 DEF Emit, IsLatest, Heard, Rec
  <1>6. r.source = stretch /\ r.n = n /\ r.pos = StartSeq /\ r.time = StartTs
    BY <1>4 DEF Rec
  <1>7. StartSeq \in Int /\ StartTs \in Int /\ n \in Int
    BY Constants DEF Numbers
  <1>8. StartSeq % SeqMod = StartSeq /\ StartTs % TsMod = StartTs
    BY Constants, ModSmall
  <1>9. Shape'
    <2>1. r \in [source : Nat, n : Numbers, pos : Int, time : Int]
      <3>1. stretch \in Nat
        BY Constants DEF ForwarderInv, Shape
      <3> QED
        BY <1>4, <1>7, <3>1 DEF Rec
    <2> QED
      BY <1>2, <1>3, <1>5, <1>6, <2>1 DEF ForwarderInv, Shape
  <1>10. Last(r)'
    BY <1>5, <1>6, <1>7, <1>8 DEF Last
  <1>11. Anchored(r)'
    <2>1. StartSeq = StartSeq + n - n /\ StartTs = StartTs + (n - n) * TsStep
      BY <1>7, Constants
    <2> QED
      BY <1>2, <1>3, <1>5, <1>6, <1>8, <2>1 DEF Anchored, Lands
  <1>12. Unique' /\ TimeAdvances'
    BY <1>5, <1>6, <1>7 DEF Unique, TimeAdvances
  <1>13. ForwarderInv'
    BY <1>1, <1>2, <1>5, <1>9, <1>10, <1>11, <1>12 DEF ForwarderInv
  <1>14. Promised!Begin(n)
    BY <1>1, <1>2, <1>4, <1>5 DEF Promised!Begin, Promised!At, Rec
  <1> QED
    BY <1>13, <1>14

(* The first packet after a switch continues the stream (101-110).         *)
LEMMA SwitchedStep ==
    ASSUME ForwarderInv, NEW n \in Numbers, ForwardSwitched(n)
    PROVE  ForwarderInv' /\ Promised!Continue(n)
  <1>1. heard # {} /\ anchor = None /\ pendingSwitch /\ Shape /\ Unique /\ TimeAdvances
        /\ \A p \in heard : p.source # stretch
    BY BegunOrNot DEF ForwarderInv, ForwardSwitched
  <1>2. PICK f \in heard : Last(f)
    BY <1>1 DEF ForwarderInv
  <1>3. PICK pos, time : pos = f.pos + 1 /\ time = f.time + pendingTsJump
    OBVIOUS
  <1>4. f.pos \in Int /\ f.time \in Int /\ pos \in Int /\ time \in Int /\ n \in Int
        /\ pendingTsJump \in Int
    BY <1>1, <1>3 DEF Shape, Numbers
  <1>5. WantSeq = pos % SeqMod /\ WantTs = time % TsMod
    <2>1. ASSUME NEW m \in Nat \ {0}, NEW y \in Int, NEW c \in Int
          PROVE  ((y % m) + c) % m = (y + c) % m
      <3>1. PICK u : u = y % m
        OBVIOUS
      <3>2. u \in Int /\ u % m = y % m
        <4>1. y % m \in Int
          BY ModOfMod
        <4>2. (y % m) % m = y % m
          BY ModOfMod, Zenon
        <4> QED
          BY <3>1, <4>1, <4>2, Zenon
      <3>3. (u + c) % m = (y + c) % m
        BY <3>2, ModAdd, Zenon
      <3> QED
        BY <3>1, <3>3
    <2>2. SeqMod \in Nat \ {0} /\ TsMod \in Nat \ {0} /\ 1 \in Int
      BY Constants
    <2>3. ((f.pos % SeqMod) + 1) % SeqMod = (f.pos + 1) % SeqMod
      BY <1>4, <2>1, <2>2, Zenon
    <2>4. ((f.time % TsMod) + pendingTsJump) % TsMod = (f.time + pendingTsJump) % TsMod
      BY <1>4, <2>1, <2>2, Zenon
    <2> QED
      BY <1>2, <1>3, <2>3, <2>4 DEF Last, WantSeq, WantTs
  <1>6. WantSeq \in 0 .. SeqMod - 1 /\ WantTs \in 0 .. TsMod - 1
    BY <1>4, <1>5, Constants, ModOfMod
  <1>7. /\ anchor' = n /\ seqOffset' \in Int /\ tsOffset' \in Int
        /\ ((Stretches[stretch].seq + n) - seqOffset') % SeqMod = WantSeq
        /\ ((Stretches[stretch].ts + n * TsStep) - tsOffset') % TsMod = WantTs
        /\ Emit(n, WantSeq, WantTs)
    BY <1>1, <1>6, RebaseOffsets DEF Shape, ForwardSwitched
  <1>8. pendingSwitch' = FALSE /\ pendingTsJump' = pendingTsJump /\ stretch' = stretch
    BY DEF ForwardSwitched
  <1>9. \A p \in heard : p.pos \in Int /\ p.time \in Int /\ p.pos <= f.pos
                         /\ p.time <= f.time
    BY <1>1, <1>2 DEF Last, Shape, TimeAdvances
  <1>10. /\ pos - f.pos < SeqMod \div 2 /\ f.pos - pos <= SeqMod \div 2
         /\ time - f.time < TsMod \div 2 /\ f.time - time <= TsMod \div 2
         /\ f.pos < pos /\ f.time <= time
    <2>1. SeqMod \div 2 \in Nat /\ SeqMod \div 2 > 1
      BY Constants DEF Numbers
    <2>2. pendingTsJump \in Nat /\ pendingTsJump < TsMod \div 2 /\ TsMod \div 2 \in Nat
      BY <1>1, Constants DEF Shape
    <2> QED
      BY <1>3, <1>4, <2>1, <2>2
  <1>11. PICK r : r = Rec(n, pos, time)
    OBVIOUS
  <1>12. heard' = heard \cup {r} /\ Unique' /\ TimeAdvances' /\ \E g \in heard' : Last(g)'
    <2>1. \A p \in heard : p.pos # pos /\ p.pos <= pos /\ ~ (p.pos >= pos) /\ p.time <= time
      BY <1>4, <1>9, <1>10
    <2> QED
      BY <1>1, <1>2, <1>4, <1>5, <1>7, <1>8, <1>10, <1>11, <2>1, EmitPlaces
  <1>13. r.source = stretch /\ r.n = n /\ r.pos = pos /\ r.time = time
    BY <1>11 DEF Rec
  <1>14. Shape'
    <2>1. r \in [source : Nat, n : Numbers, pos : Int, time : Int]
      <3>1. stretch \in Nat
        BY <1>1, Constants DEF Shape
      <3> QED
        BY <1>4, <1>11, <3>1 DEF Rec
    <2>2. heard' \subseteq [source : Nat, n : Numbers, pos : Int, time : Int]
      BY <1>1, <1>12, <2>1 DEF Shape
    <2>3. \A p \in heard' : p.source <= stretch'
      BY <1>1, <1>8, <1>12, <1>13, <2>1 DEF Shape
    <2> QED
      BY <1>1, <1>7, <1>8, <2>2, <2>3 DEF Shape
  <1>15. Anchored(r)'
    <2>1. pos = pos + n - n /\ time = time + (n - n) * TsStep
      BY <1>4, Constants
    <2>2. \A p \in heard : p.source # stretch /\ p.pos < pos /\ p.time <= time
      BY <1>1, <1>4, <1>9, <1>10
    <2>3. n >= n
      BY <1>4
    <2> QED
      BY <1>5, <1>7, <1>8, <1>12, <1>13, <2>1, <2>2, <2>3 DEF Anchored, Lands
  <1>16. ForwarderInv'
    BY <1>8, <1>12, <1>14, <1>15 DEF ForwarderInv
  <1>17. Promised!Continue(n)
    BY <1>1, <1>2, <1>3, <1>8, <1>11, <1>12
       DEF Promised!Continue, Promised!OfSource, Promised!IsFurthest, Promised!At, Rec, Last
  <1> QED
    BY <1>16, <1>17

(* Where the next packet of the source belongs, when the first packets     *)
(* after a switch are in order.                                            *)
LEMMA NextStep ==
    ASSUME ForwarderInv, ~ ReorderAtSwitch, NEW n \in Numbers, ForwardNext(n)
    PROVE  ForwarderInv' /\ Promised!Keep(n)
  <1>1. heard # {} /\ ~ pendingSwitch /\ Shape /\ Unique /\ TimeAdvances
    BY BegunOrNot DEF ForwarderInv, ForwardNext
  <1>2. PICK f \in heard : Last(f)
    BY <1>1 DEF ForwarderInv
  <1>3. PICK a \in heard : Anchored(a)
    BY <1>1 DEF ForwarderInv
  <1>4. PICK pos, time : pos = a.pos + (n - a.n) /\ time = a.time + (n - a.n) * TsStep
    OBVIOUS
  <1>5. /\ \A p \in heard : p.pos \in Int /\ p.time \in Int /\ p.n \in Int
                            /\ p.n \in Numbers
        /\ n \in Int /\ TsStep \in Nat /\ a.n = anchor /\ anchor \in Int
    BY <1>1, <1>3, Constants DEF Shape, Numbers, Anchored
  <1>6. pos \in Int /\ time \in Int
    BY <1>4, <1>5
  <1>7. \A p \in heard : p.source = stretch =>
           p.pos = a.pos + (p.n - a.n) /\ p.time = a.time + (p.n - a.n) * TsStep
    BY <1>3, <1>5 DEF Anchored
  <1>8. \A p \in heard : p.source # stretch => p.pos < a.pos /\ p.time <= a.time
                                               /\ n >= anchor
    <2>1. MayArrive(n)
      BY DEF ForwardNext
    <2> QED
      BY <1>3, <2>1 DEF Anchored, MayArrive
  <1>9. \A i, j \in Int : i <= j => i * TsStep <= j * TsStep
    BY <1>5
  <1>10. \A p \in heard : p.source # stretch => p.pos < pos /\ p.time <= time
    <2> SUFFICES ASSUME NEW p \in heard, p.source # stretch
                 PROVE  p.pos < pos /\ p.time <= time
      OBVIOUS
    <2>1. p.pos < a.pos /\ p.time <= a.time /\ n - a.n >= 0 /\ n - a.n \in Int
      BY <1>5, <1>8
    <2>2. (n - a.n) * TsStep >= 0
      BY <1>5, <2>1
    <2>3. (n - a.n) * TsStep \in Int
      BY <1>5, <2>1
    <2> QED
      BY <1>4, <1>5, <2>1, <2>2, <2>3
  <1>11. \A p \in heard : p.source = stretch =>
            /\ (p.n <= n => p.time <= time) /\ (p.n >= n => p.time >= time)
            /\ (p.pos <= pos <=> p.n <= n) /\ (p.pos >= pos <=> p.n >= n)
    <2> SUFFICES ASSUME NEW p \in heard, p.source = stretch
                 PROVE  /\ (p.n <= n => p.time <= time) /\ (p.n >= n => p.time >= time)
                        /\ (p.pos <= pos <=> p.n <= n) /\ (p.pos >= pos <=> p.n >= n)
      OBVIOUS
    <2>1. p.pos = a.pos + (p.n - a.n) /\ p.time = a.time + (p.n - a.n) * TsStep
      BY <1>7
    <2>2. /\ (p.n <= n => (p.n - a.n) * TsStep <= (n - a.n) * TsStep)
          /\ (p.n >= n => (p.n - a.n) * TsStep >= (n - a.n) * TsStep)
      BY <1>5, <1>9
    <2>3. (p.n - a.n) * TsStep \in Int /\ (n - a.n) * TsStep \in Int
      BY <1>5
    <2> QED
      BY <1>4, <1>5, <2>1, <2>2, <2>3
  <1>12. /\ pos - f.pos < SeqMod \div 2 /\ f.pos - pos <= SeqMod \div 2
         /\ time - f.time < TsMod \div 2 /\ f.time - time <= TsMod \div 2
    <2>1. f.source = stretch
      <3>1. a.pos <= f.pos
        BY <1>2, <1>3 DEF Last
      <3> QED
        BY <1>2, <1>3, <1>5, <1>8, <3>1
    <2>2. f.pos = a.pos + (f.n - a.n) /\ f.time = a.time + (f.n - a.n) * TsStep
      BY <1>7, <2>1
    <2>3. n - f.n < Length /\ f.n - n < Length /\ n - f.n \in Int
      BY <1>5, Constants DEF Numbers
    <2>4. pos - f.pos = n - f.n
      BY <1>4, <1>5, <2>2
    <2>5. (n - a.n) * TsStep - (f.n - a.n) * TsStep = (n - f.n) * TsStep
      BY <1>5
    <2>6. time - f.time = (n - f.n) * TsStep
      <3>1. (n - a.n) * TsStep \in Int /\ (f.n - a.n) * TsStep \in Int
        BY <1>5
      <3> QED
        BY <1>4, <1>5, <2>2, <2>5, <3>1
    <2>7. (n - f.n) * TsStep <= Length * TsStep /\ (f.n - n) * TsStep <= Length * TsStep
      BY <1>5, <1>9, <2>3, Constants
    <2>8. (f.n - n) * TsStep = -((n - f.n) * TsStep)
      BY <1>5
    <2>9. f.time - time = (f.n - n) * TsStep
      BY <1>5, <1>6, <2>6, <2>8
    <2> QED
      BY <1>5, <1>6, <2>3, <2>4, <2>6, <2>7, <2>9, Constants
  <1>13. PICK r : r = Rec(n, pos, time)
    OBVIOUS
  <1>14. r.source = stretch /\ r.n = n /\ r.pos = pos /\ r.time = time
    BY <1>13 DEF Rec
  <1>15. \A p \in heard : p.pos = pos => p = r
    <2> SUFFICES ASSUME NEW p \in heard, p.pos = pos PROVE p = r
      OBVIOUS
    <2>1. p.source = stretch
      BY <1>5, <1>6, <1>10
    <2>2. p.n = n
      <3>1. a.pos + (p.n - a.n) = a.pos + (n - a.n)
        BY <1>4, <1>7, <2>1, Zenon
      <3>2. ASSUME NEW x \in Int, NEW c \in Int, NEW u \in Int, NEW v \in Int,
                   x + (u - c) = x + (v - c)
            PROVE  u = v
        BY <3>2
      <3> QED
        BY <1>5, <3>1, <3>2
    <2>4. p.time = time
      BY <1>4, <1>7, <2>1, <2>2
    <2>3. p = [source |-> p.source, n |-> p.n, pos |-> p.pos, time |-> p.time]
      BY <1>1 DEF Shape
    <2> QED
      BY <1>13, <2>1, <2>2, <2>3, <2>4 DEF Rec
  <1>16. \A p \in heard : p.pos <= pos => p.time <= time
    BY <1>10, <1>11
  <1>17. \A p \in heard : p.pos >= pos => p.time >= time
    BY <1>5, <1>6, <1>10, <1>11
  <1>18. /\ seqOffset' = seqOffset /\ tsOffset' = tsOffset /\ anchor' = anchor
         /\ stretch' = stretch /\ pendingSwitch' = pendingSwitch
         /\ pendingTsJump' = pendingTsJump
    BY DEF ForwardNext
  <1>19. (InSeq(n) - seqOffset) % SeqMod = pos % SeqMod
    <2>1. PICK s : s = Stretches[stretch].seq
      OBVIOUS
    <2>2. s \in Int /\ Lands(s, anchor, seqOffset, a.pos, SeqMod)
      BY <1>1, <1>3, <2>1, Constants DEF Shape, Anchored
    <2>3. seqOffset \in Int /\ SeqMod \in Nat \ {0}
      BY <1>1, Constants DEF Shape
    <2>4. a.pos \in Int /\ n \in Int /\ anchor \in Int
      BY <1>5
    <2>5. Lands(s, n, seqOffset, a.pos + (n - anchor), SeqMod)
      BY <2>2, <2>3, <2>4, Carried, Zenon
    <2>6. Lands(s, n, seqOffset, pos, SeqMod)
      BY <1>4, <1>5, <2>5
    <2>7. (((s + n) % SeqMod) - seqOffset) % SeqMod = pos % SeqMod
      <3>1. s \in Int /\ n \in Int
        BY <2>2, <2>4
      <3>2. \A y \in Int : Lands(s, n, seqOffset, y, SeqMod)
                           => (((s + n) % SeqMod) - seqOffset) % SeqMod = y % SeqMod
        BY <2>3, <3>1, Landed, Zenon
      <3> QED
        BY <1>6, <2>6, <3>2, Zenon
    <2> QED
      BY <2>1, <2>7, Zenon DEF InSeq
  <1>20. (InTs(n) - tsOffset) % TsMod = time % TsMod
    <2>1. PICK s, x, x0 : s = Stretches[stretch].ts /\ x = n * TsStep /\ x0 = anchor * TsStep
      OBVIOUS
    <2>2. s \in Int /\ x \in Int /\ x0 \in Int
      BY <1>1, <1>5, <2>1, Constants DEF Shape
    <2>3. Lands(s, x0, tsOffset, a.time, TsMod)
      BY <1>3, <2>1, Zenon DEF Anchored
    <2>4. tsOffset \in Int /\ TsMod \in Nat \ {0}
      BY <1>1, Constants DEF Shape
    <2>5. Lands(s, x, tsOffset, a.time + (x - x0), TsMod)
      <3>1. a.time \in Int
        BY <1>5
      <3> QED
        BY <2>2, <2>3, <2>4, <3>1, Carried, Zenon
    <2>6. (n - a.n) * TsStep = x - x0
      BY <1>5, <2>1
    <2>7. Lands(s, x, tsOffset, time, TsMod)
      BY <1>4, <2>5, <2>6
    <2>8. (((s + x) % TsMod) - tsOffset) % TsMod = time % TsMod
      <3>1. \A y \in Int : Lands(s, x, tsOffset, y, TsMod)
                           => (((s + x) % TsMod) - tsOffset) % TsMod = y % TsMod
        BY <2>2, <2>4, Landed, Zenon
      <3> QED
        BY <1>6, <2>7, <3>1, Zenon
    <2> QED
      BY <2>1, <2>8, Zenon DEF InTs
  <1>21. Emit(n, pos % SeqMod, time % TsMod)
    BY <1>19, <1>20 DEF ForwardNext
  <1>22. heard' = heard \cup {r} /\ Unique' /\ TimeAdvances' /\ \E g \in heard' : Last(g)'
    BY <1>1, <1>2, <1>6, <1>12, <1>13, <1>15, <1>16, <1>17, <1>18, <1>21, EmitPlaces
  <1>23. Shape'
    <2>1. r \in [source : Nat, n : Numbers, pos : Int, time : Int]
      <3>1. stretch \in Nat
        BY <1>1, Constants DEF Shape
      <3> QED
        BY <1>6, <1>13, <3>1 DEF Rec
    <2>2. heard' \subseteq [source : Nat, n : Numbers, pos : Int, time : Int]
      BY <1>1, <1>22, <2>1 DEF Shape
    <2>3. \A p \in heard' : p.source <= stretch'
      BY <1>1, <1>14, <1>18, <1>22, <2>1 DEF Shape
    <2> QED
      BY <1>1, <1>18, <2>2, <2>3 DEF Shape
  <1>24. Anchored(a)'
    <2>1. r.pos = a.pos + r.n - a.n /\ r.time = a.time + (r.n - a.n) * TsStep
      BY <1>4, <1>5, <1>14
    <2>2. (\A p \in heard' : p.source = stretch)
          \/ (\A p \in heard' : p.source = stretch => p.n >= anchor)
      BY <1>3, <1>8, <1>14, <1>22 DEF Anchored
    <2> QED
      BY <1>3, <1>14, <1>18, <1>22, <2>1, <2>2 DEF Anchored, Lands
  <1>25. ForwarderInv'
    BY <1>1, <1>18, <1>22, <1>23, <1>24 DEF ForwarderInv
  <1>26. Promised!Keep(n)
    <2>1. a \in Promised!OfSource
      BY <1>3 DEF Promised!OfSource, Anchored
    <2>2. a.pos + n - a.n = pos
      BY <1>4, <1>5
    <2>3. heard' = heard \cup
            {Promised!At(n, a.pos + n - a.n, a.time + (n - a.n) * TsStep)}
      BY <1>4, <1>13, <1>22, <2>2 DEF Promised!At, Rec
    <2> QED
      BY <1>18, <2>1, <2>3 DEF Promised!Keep
  <1> QED
    BY <1>25, <1>26

(* switchSource changes nothing the consumer has (77-81).                  *)
LEMMA SwitchStep ==
    ASSUME ForwarderInv, NEW tsJump \in Jumps, SwitchSource(tsJump)
    PROVE  ForwarderInv' /\ Promised!Switch(tsJump)
  <1>1. /\ stretch' = stretch + 1 /\ anchor' = None /\ heard' = heard
        /\ seqOffset' = seqOffset /\ tsOffset' = tsOffset
        /\ lastOutSeq' = lastOutSeq /\ lastOutTs' = lastOutTs
    BY DEF SwitchSource
  <1>2. IF heard = {} THEN pendingSwitch' = pendingSwitch /\ pendingTsJump' = pendingTsJump
                      ELSE pendingSwitch' = TRUE /\ pendingTsJump' = tsJump
    BY BegunOrNot DEF SwitchSource
  <1>3. stretch \in Nat /\ stretch + 1 \in DOMAIN Stretches
    <2>1. stretch \in DOMAIN Stretches /\ stretch \in Nat
      BY Constants DEF ForwarderInv, Shape
    <2>2. stretch < Len(Stretches)
      BY DEF SwitchSource
    <2> QED
      BY <2>1, <2>2, StretchDomain
  <1>4. tsJump \in Nat /\ tsJump < TsMod \div 2
    BY ForwarderAssumption
  <1>5. \A p \in heard : p.source <= stretch + 1 /\ p.source # stretch + 1
    BY <1>3 DEF ForwarderInv, Shape
  <1>6. Shape'
    BY <1>1, <1>2, <1>3, <1>4, <1>5 DEF ForwarderInv, Shape
  <1>7. Unique' /\ TimeAdvances' /\ (heard # {} => \E f \in heard' : Last(f)')
    BY <1>1 DEF ForwarderInv, Unique, TimeAdvances, Last
  <1>8. ForwarderInv'
    BY <1>1, <1>2, <1>5, <1>6, <1>7 DEF ForwarderInv
  <1>9. Promised!Switch(tsJump)
    BY <1>1, <1>2 DEF Promised!Switch
  <1> QED
    BY <1>8, <1>9

(* A new RtpForwarder (44-65) has forwarded nothing.                       *)
LEMMA ForwarderInitInv == ForwarderInit => ForwarderInv /\ Promised!Init
  <1> SUFFICES ASSUME ForwarderInit PROVE ForwarderInv /\ Promised!Init
    OBVIOUS
  <1>1. 1 \in DOMAIN Stretches
    BY StretchDomain, ForwarderAssumption
  <1>2. 0 < TsMod \div 2
    BY Constants
  <1>3. Shape
    <2>1. stretch \in DOMAIN Stretches /\ heard = {} /\ pendingTsJump = 0
      BY <1>1 DEF ForwarderInit
    <2>2. seqOffset \in Int /\ tsOffset \in Int
      BY DEF ForwarderInit
    <2>3. pendingSwitch \in BOOLEAN
      BY Zenon DEF ForwarderInit
    <2> QED
      BY <1>2, <2>1, <2>2, <2>3 DEF Shape
  <1> QED
    BY <1>3 DEF ForwarderInit, ForwarderInv, Unique, TimeAdvances, Promised!Init

(* Every step keeps the invariant and is a step of the promised stream.    *)
LEMMA ForwarderStepInv ==
    ASSUME ~ ReorderAtSwitch
    PROVE  ForwarderInv /\ [ForwarderNext]_forwarderVars
           => ForwarderInv' /\ [Promised!Next]_<<stretch, pendingTsJump, heard>>
  <1> SUFFICES ASSUME ForwarderInv, [ForwarderNext]_forwarderVars
               PROVE  ForwarderInv' /\ [Promised!Next]_<<stretch, pendingTsJump, heard>>
    OBVIOUS
  <1>1. CASE \E n \in Numbers : ForwardFirst(n)
    BY <1>1, FirstStep DEF Promised!Next
  <1>2. CASE \E n \in Numbers : ForwardSwitched(n)
    BY <1>2, SwitchedStep DEF Promised!Next
  <1>3. CASE \E n \in Numbers : ForwardNext(n)
    BY <1>3, NextStep DEF Promised!Next
  <1>4. CASE \E tsJump \in Jumps : SwitchSource(tsJump)
    BY <1>4, SwitchStep DEF Promised!Next
  <1>5. CASE UNCHANGED forwarderVars
    BY <1>5 DEF forwarderVars, state, ForwarderInv, Shape, Unique, TimeAdvances, Last, Anchored
  <1> QED
    BY <1>1, <1>2, <1>3, <1>4, <1>5 DEF ForwarderNext

(* The consumer receives the one stream it was promised (4-18): the        *)
(* forwarder implements OneStream.                                         *)
THEOREM ForwardsOneStream == ~ ReorderAtSwitch => (ForwarderSpec => OneStreamSpec)
  <1> SUFFICES ASSUME ~ ReorderAtSwitch PROVE ForwarderSpec => OneStreamSpec
    OBVIOUS
  <1>1. ForwarderInit => ForwarderInv /\ Promised!Init
    BY ForwarderInitInv
  <1>2. ForwarderInv /\ [ForwarderNext]_forwarderVars
        => ForwarderInv' /\ [Promised!Next]_<<stretch, pendingTsJump, heard>>
    BY ForwarderStepInv
  <1> QED
    BY <1>1, <1>2, PTL DEF ForwarderSpec, OneStreamSpec, Promised!Spec

(* No two packets leave with the same number (128-133).                    *)
THEOREM NumbersNeverReused == ~ ReorderAtSwitch => (ForwarderSpec => []NoReuse)
  <1> SUFFICES ASSUME ~ ReorderAtSwitch PROVE ForwarderSpec => []NoReuse
    OBVIOUS
  <1>1. ForwarderInit => ForwarderInv
    BY ForwarderInitInv
  <1>2. ForwarderInv /\ [ForwarderNext]_forwarderVars => ForwarderInv'
    BY ForwarderStepInv
  <1>3. ForwarderInv => NoReuse
    BY DEF ForwarderInv, Unique, NoReuse
  <1> QED
    BY <1>1, <1>2, <1>3, PTL DEF ForwarderSpec

(* Later in the sequence is not earlier in time (14-16, 128-133).          *)
THEOREM TimeNeverGoesBack == ~ ReorderAtSwitch => (ForwarderSpec => []TimeAdvances)
  <1> SUFFICES ASSUME ~ ReorderAtSwitch PROVE ForwarderSpec => []TimeAdvances
    OBVIOUS
  <1>1. ForwarderInit => ForwarderInv
    BY ForwarderInitInv
  <1>2. ForwarderInv /\ [ForwarderNext]_forwarderVars => ForwarderInv'
    BY ForwarderStepInv
  <1>3. ForwarderInv => TimeAdvances
    BY DEF ForwarderInv
  <1> QED
    BY <1>1, <1>2, <1>3, PTL DEF ForwarderSpec

-----------------------------------------------------------------------------
(* The types alone, which also hold when the first packets after a switch  *)
(* are reordered.                                                          *)
HasFurthest == heard # {} => \E f \in heard : \A q \in heard : q.pos <= f.pos
ForwarderTypes == ForwarderTypeOK /\ HasFurthest

(* A wrapped difference lies in the upper or lower half of the space.      *)
LEMMA SignedRange ==
    ASSUME NEW m \in Nat \ {0}, m % 2 = 0, NEW d \in Int
    PROVE  Signed(d % m, m) \in -(m \div 2) .. (m \div 2) - 1 /\ Signed(d % m, m) \in Int
  <1>1. d % m \in 0 .. m - 1 /\ m \div 2 \in Nat /\ m = 2 * (m \div 2)
    OBVIOUS
  <1> QED
    BY <1>1 DEF Signed

(* The packet is placed on the consumer's line, whatever its numbers.      *)
LEMMA EmitTypes ==
    ASSUME ForwarderTypes, NEW n \in Numbers,
           NEW seq \in 0 .. SeqMod - 1, NEW ts \in 0 .. TsMod - 1, Emit(n, seq, ts)
    PROVE  /\ lastOutSeq' \in 0 .. SeqMod - 1 \cup {None}
           /\ lastOutTs' \in 0 .. TsMod - 1 \cup {None}
           /\ heard' \subseteq [source : DOMAIN Stretches, n : Numbers, pos : Int, time : Int]
           /\ HasFurthest'
  <1>1. /\ heard \subseteq [source : DOMAIN Stretches, n : Numbers, pos : Int, time : Int]
        /\ stretch \in DOMAIN Stretches
        /\ lastOutSeq \in 0 .. SeqMod - 1 \cup {None} /\ lastOutTs \in 0 .. TsMod - 1 \cup {None}
    BY DEF ForwarderTypes, ForwarderTypeOK
  <1>2. /\ lastOutSeq' \in {seq, lastOutSeq} /\ lastOutTs' \in {ts, lastOutTs}
        /\ heard' = heard \cup {Heard(n, seq, ts)}
    BY DEF Emit
  <1>3. PICK r : r = Heard(n, seq, ts)
    OBVIOUS
  <1>4. r \in [source : DOMAIN Stretches, n : Numbers, pos : Int, time : Int]
    <2>1. CASE heard = {}
      BY <1>1, <1>3, <2>1 DEF Heard
    <2>2. CASE heard # {}
      <3>1. Furthest \in heard
        BY <2>2 DEF Furthest, ForwarderTypes, HasFurthest
      <3>2. Furthest.pos \in Int /\ Furthest.time \in Int
        BY <1>1, <3>1
      <3>3. PICK x, y : x = Furthest.pos + SeqDelta(seq, Furthest.pos % SeqMod)
                        /\ y = Furthest.time + TsDelta(ts, Furthest.time % TsMod)
        OBVIOUS
      <3>4. x \in Int
        <4>1. Furthest.pos % SeqMod \in Int /\ seq \in Int
          BY <3>2, Constants
        <4>2. PICK d \in Int : d = seq - (Furthest.pos % SeqMod)
          BY <4>1
        <4>3. Signed(d % SeqMod, SeqMod) \in Int
          BY SignedRange, Constants
        <4>4. SeqDelta(seq, Furthest.pos % SeqMod) \in Int
          BY <4>2, <4>3 DEF SeqDelta
        <4> QED
          BY <3>2, <3>3, <4>4
      <3>5. y \in Int
        <4>1. Furthest.time % TsMod \in Int /\ ts \in Int
          BY <3>2, Constants
        <4>2. PICK d \in Int : d = ts - (Furthest.time % TsMod)
          BY <4>1
        <4>3. Signed(d % TsMod, TsMod) \in Int
          BY SignedRange, Constants
        <4>4. TsDelta(ts, Furthest.time % TsMod) \in Int
          BY <4>2, <4>3 DEF TsDelta
        <4> QED
          BY <3>2, <3>3, <4>4
      <3>6. r = [source |-> stretch, n |-> n, pos |-> x, time |-> y]
        BY <1>3, <2>2, <3>3 DEF Heard
      <3> QED
        BY <1>1, <3>4, <3>5, <3>6
    <2> QED
      BY <2>1, <2>2
  <1>5. HasFurthest'
    <2>1. \A p \in heard : p.pos \in Int
      BY <1>1
    <2>2. r.pos \in Int /\ heard' = heard \cup {r}
      BY <1>2, <1>3, <1>4
    <2>3. CASE \A q \in heard : q.pos <= r.pos
      <3>1. r \in heard' /\ \A q \in heard' : q.pos <= r.pos
        BY <2>2, <2>3
      <3> QED
        BY <3>1 DEF HasFurthest
    <2>4. CASE \E q \in heard : ~ (q.pos <= r.pos)
      <3>1. PICK f \in heard : \A q \in heard : q.pos <= f.pos
        BY <2>4 DEF ForwarderTypes, HasFurthest
      <3>2. r.pos <= f.pos
        <4>1. PICK q \in heard : ~ (q.pos <= r.pos)
          BY <2>4
        <4> QED
          BY <2>1, <2>2, <3>1, <4>1
      <3>3. f \in heard' /\ \A q \in heard' : q.pos <= f.pos
        BY <2>2, <3>1, <3>2
      <3> QED
        BY <3>3 DEF HasFurthest
    <2> QED
      BY <2>3, <2>4
  <1> QED
    BY <1>1, <1>2, <1>3, <1>4, <1>5

(* A re-base stores offsets in the range of a signed difference.           *)
LEMMA RebaseTypes ==
    ASSUME ForwarderTypes, NEW n \in Numbers, NEW seq \in Int, NEW ts \in Int, Rebase(n, seq, ts)
    PROVE  /\ seqOffset' \in -(SeqMod \div 2) .. (SeqMod \div 2) - 1
           /\ tsOffset' \in -(TsMod \div 2) .. (TsMod \div 2) - 1
           /\ anchor' \in Numbers \cup {None}
           /\ lastOutSeq' \in 0 .. SeqMod - 1 \cup {None}
           /\ lastOutTs' \in 0 .. TsMod - 1 \cup {None}
           /\ heard' \subseteq [source : DOMAIN Stretches, n : Numbers, pos : Int, time : Int]
           /\ HasFurthest'
  <1>1. InSeq(n) \in Int /\ InTs(n) \in Int
    <2>1. Stretches[stretch].seq \in Int /\ Stretches[stretch].ts \in Int /\ n \in Int
      BY Constants DEF ForwarderTypes, ForwarderTypeOK, Numbers
    <2>2. PICK a, b \in Int : a = Stretches[stretch].seq + n /\ b = Stretches[stretch].ts + n * TsStep
      BY <2>1, Constants
    <2>3. a % SeqMod \in Int /\ b % TsMod \in Int
      BY Constants
    <2> QED
      BY <2>2, <2>3 DEF InSeq, InTs
  <1>2. seqOffset' = SeqDelta(InSeq(n), seq) /\ tsOffset' = TsDelta(InTs(n), ts)
    BY DEF Rebase
  <1>3. seqOffset' \in -(SeqMod \div 2) .. (SeqMod \div 2) - 1
    <2>1. InSeq(n) - seq \in Int
      BY <1>1
    <2> QED
      BY <1>2, <2>1, SignedRange, Constants DEF SeqDelta
  <1>4. tsOffset' \in -(TsMod \div 2) .. (TsMod \div 2) - 1
    <2>1. InTs(n) - ts \in Int
      BY <1>1
    <2> QED
      BY <1>2, <2>1, SignedRange, Constants DEF TsDelta
  <1>5. PICK s, u \in Int : s = InSeq(n) - seqOffset' /\ u = InTs(n) - tsOffset'
    BY <1>1, <1>3, <1>4, Constants
  <1>6. s % SeqMod \in 0 .. SeqMod - 1 /\ u % TsMod \in 0 .. TsMod - 1
    BY Constants
  <1>7. Emit(n, s % SeqMod, u % TsMod)
    BY <1>5 DEF Rebase
  <1>8. anchor' \in Numbers \cup {None}
    BY DEF Rebase, ForwarderTypes, ForwarderTypeOK
  <1> QED
    BY <1>3, <1>4, <1>6, <1>7, <1>8, EmitTypes

(* Whatever is reordered: the offsets stay in the range of a signed        *)
(* difference, the numbers sent in their spaces (83-133).                  *)
THEOREM ForwarderIsTyped == ForwarderSpec => []ForwarderTypeOK
  <1>1. ForwarderInit => ForwarderTypes
    <2> SUFFICES ASSUME ForwarderInit PROVE ForwarderTypes
      OBVIOUS
    <2>1. 1 \in DOMAIN Stretches
      BY StretchDomain, ForwarderAssumption
    <2>2. /\ 0 \in -(SeqMod \div 2) .. (SeqMod \div 2) - 1
          /\ 0 \in -(TsMod \div 2) .. (TsMod \div 2) - 1
      BY Constants
    <2>3. pendingSwitch \in BOOLEAN
      BY Zenon DEF ForwarderInit
    <2> QED
      BY <2>1, <2>2, <2>3 DEF ForwarderInit, ForwarderTypes, ForwarderTypeOK, HasFurthest
  <1>2. ForwarderTypes /\ [ForwarderNext]_forwarderVars => ForwarderTypes'
    <2> SUFFICES ASSUME ForwarderTypes, [ForwarderNext]_forwarderVars PROVE ForwarderTypes'
      OBVIOUS
    <2>1. ASSUME NEW n \in Numbers, ForwardFirst(n) PROVE ForwarderTypes'
      <3>1. Rebase(n, StartSeq, StartTs) /\ UNCHANGED <<pendingSwitch, pendingTsJump, stretch>>
        BY <2>1 DEF ForwardFirst
      <3>2. StartSeq \in Int /\ StartTs \in Int
        BY ForwarderAssumption
      <3> QED
        BY <3>1, <3>2, RebaseTypes DEF ForwarderTypes, ForwarderTypeOK
    <2>2. ASSUME NEW n \in Numbers, ForwardSwitched(n) PROVE ForwarderTypes'
      <3>1. /\ Rebase(n, WantSeq, WantTs) /\ UNCHANGED <<pendingTsJump, stretch>>
            /\ pendingSwitch' = FALSE
        BY <2>2 DEF ForwardSwitched
      <3>2. WantSeq \in Int /\ WantTs \in Int
        <4>1. PICK s, u \in Int : s = lastOutSeq + 1 /\ u = lastOutTs + pendingTsJump
          BY ForwarderAssumption DEF ForwarderTypes, ForwarderTypeOK, None
        <4>2. s % SeqMod \in Int /\ u % TsMod \in Int
          BY Constants
        <4> QED
          BY <4>1, <4>2 DEF WantSeq, WantTs
      <3>3. pendingSwitch' \in BOOLEAN
        BY <3>1
      <3> QED
        BY <3>1, <3>2, <3>3, RebaseTypes DEF ForwarderTypes, ForwarderTypeOK
    <2>3. ASSUME NEW n \in Numbers, ForwardNext(n) PROVE ForwarderTypes'
      <3>1. /\ Emit(n, (InSeq(n) - seqOffset) % SeqMod, (InTs(n) - tsOffset) % TsMod)
            /\ UNCHANGED <<seqOffset, tsOffset, pendingSwitch, pendingTsJump, stretch, anchor>>
        BY <2>3 DEF ForwardNext
      <3>2. InSeq(n) \in Int /\ InTs(n) \in Int
        <4>1. Stretches[stretch].seq \in Int /\ Stretches[stretch].ts \in Int /\ n \in Int
          BY Constants DEF ForwarderTypes, ForwarderTypeOK, Numbers
        <4>2. PICK a, b \in Int :
                 a = Stretches[stretch].seq + n /\ b = Stretches[stretch].ts + n * TsStep
          BY <4>1, Constants
        <4>3. a % SeqMod \in Int /\ b % TsMod \in Int
          BY Constants
        <4> QED
          BY <4>2, <4>3 DEF InSeq, InTs
      <3>3. seqOffset \in Int /\ tsOffset \in Int
        BY Constants DEF ForwarderTypes, ForwarderTypeOK
      <3>4. PICK s, u \in Int : s = InSeq(n) - seqOffset /\ u = InTs(n) - tsOffset
        BY <3>2, <3>3
      <3>5. s % SeqMod \in 0 .. SeqMod - 1 /\ u % TsMod \in 0 .. TsMod - 1
        BY Constants
      <3>6. Emit(n, s % SeqMod, u % TsMod)
        BY <3>1, <3>4
      <3> QED
        BY <3>1, <3>5, <3>6, EmitTypes DEF ForwarderTypes, ForwarderTypeOK
    <2>4. ASSUME NEW tsJump \in Jumps, SwitchSource(tsJump) PROVE ForwarderTypes'
      <3>1. /\ stretch < Len(Stretches) /\ stretch' = stretch + 1 /\ anchor' = None
            /\ pendingSwitch' \in {pendingSwitch, TRUE} /\ pendingTsJump' \in {pendingTsJump, tsJump}
            /\ UNCHANGED <<seqOffset, tsOffset, lastOutSeq, lastOutTs, heard>>
        BY <2>4 DEF SwitchSource
      <3>2. stretch' \in DOMAIN Stretches
        BY <3>1, StretchDomain DEF ForwarderTypes, ForwarderTypeOK
      <3>3. pendingSwitch' \in BOOLEAN
        BY <3>1 DEF ForwarderTypes, ForwarderTypeOK
      <3> QED
        BY <3>1, <3>2, <3>3 DEF ForwarderTypes, ForwarderTypeOK, HasFurthest
    <2>5. CASE UNCHANGED forwarderVars
      BY <2>5 DEF forwarderVars, state, ForwarderTypes, ForwarderTypeOK, HasFurthest
    <2> QED
      BY <2>1, <2>2, <2>3, <2>4, <2>5 DEF ForwarderNext
  <1>3. ForwarderTypes => ForwarderTypeOK
    BY DEF ForwarderTypes
  <1> QED
    BY <1>1, <1>2, <1>3, PTL DEF ForwarderSpec
=============================================================================
