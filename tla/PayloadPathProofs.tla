--------------------------- MODULE PayloadPathProofs ---------------------------
(***************************************************************************)
(* Proofs about PayloadPath with FlexFEC, for every size of a group and of *)
(* the decoder's windows, every loss, delay and duplicate: a packet that   *)
(* is recovered is the one that was lost, bit for bit.                     *)
(***************************************************************************)
EXTENDS PayloadPath, FiniteSetTheorems, SequenceTheorems, TLAPS

(* Induction, on a set of natural numbers.                                 *)
LEMMA Induct ==
    ASSUME NEW S, 0 \in S, \A n \in Nat : n \in S => n + 1 \in S
    PROVE  Nat \subseteq S
  <1> DEFINE T == Nat \ S
  <1>1. SUFFICES ASSUME T # {} PROVE FALSE
    OBVIOUS
  <1>2. PICK x \in T : \A y \in T : <<y, x>> \notin OpToRel(<, Nat)
    <2>1. T \subseteq Nat
      OBVIOUS
    <2> HIDE DEF T
    <2> QED
      BY <1>1, <2>1, NatLessThanWellFounded, WFMin
  <1>3. \A y \in T : ~ (y < x)
    BY <1>2 DEF OpToRel
  <1>4. x # 0 /\ x \in Nat
    OBVIOUS
  <1>5. x - 1 \in Nat /\ x - 1 < x /\ x - 1 + 1 = x
    BY <1>4
  <1>6. x - 1 \in S
    BY <1>5, <1>3
  <1> QED
    BY <1>5, <1>6

-----------------------------------------------------------------------------
(* The exclusive or of sets that carry the bits of octets.                 *)
Odd(n) == n % 2 = 1
Having(F, b) == {j \in DOMAIN F : b \in F[j]}

LEMMA InXorAll ==
    ASSUME NEW F, IsFiniteSet(DOMAIN F), NEW b
    PROVE  /\ IsFiniteSet(Having(F, b)) /\ Cardinality(Having(F, b)) \in Nat
           /\ b \in Fec!XorAll(F) <=> Odd(Cardinality(Having(F, b)))
  <1>1. IsFiniteSet(Having(F, b))
    BY FS_Subset DEF Having
  <1>2. Cardinality(Having(F, b)) \in Nat
    BY <1>1, FS_CardinalityType
  <1>3. Odd(Cardinality(Having(F, b))) => \E j \in DOMAIN F : b \in F[j]
    <2>1. Having(F, b) = {} => Cardinality(Having(F, b)) = 0
      BY FS_EmptySet
    <2> QED
      BY <2>1 DEF Odd, Having
  <1>4. Fec!Cardinality(Having(F, b)) = Cardinality(Having(F, b))
    BY DEF Fec!Cardinality, Cardinality
  <1> QED
    BY <1>1, <1>2, <1>3, <1>4 DEF Fec!XorAll, Odd, Having

(* What is left of the exclusive or of F when all but F[k] is taken out of *)
(* it again, in whatever order and under whatever names G has the rest.    *)
LEMMA XorExact ==
    ASSUME NEW F, IsFiniteSet(DOMAIN F), NEW k \in DOMAIN F, NEW G, IsFiniteSet(DOMAIN G),
           NEW m \in Bijection(DOMAIN G, DOMAIN F \ {k}),
           \A h \in DOMAIN G : G[h] = F[m[h]]
    PROVE  Fec!Xor(Fec!XorAll(F), Fec!XorAll(G)) = F[k]
  <1> SUFFICES ASSUME NEW b
               PROVE  b \in Fec!Xor(Fec!XorAll(F), Fec!XorAll(G)) <=> b \in F[k]
    OBVIOUS
  <1> DEFINE A == Having(F, b)
             H == Having(G, b)
  <1>1. /\ IsFiniteSet(A) /\ Cardinality(A) \in Nat /\ (b \in Fec!XorAll(F) <=> Odd(Cardinality(A)))
        /\ IsFiniteSet(H) /\ Cardinality(H) \in Nat /\ (b \in Fec!XorAll(G) <=> Odd(Cardinality(H)))
    BY InXorAll
  <1>2. Cardinality(H) = Cardinality(A \ {k})
    <2> DEFINE r == [h \in H |-> m[h]]
    <2>1. /\ m \in [DOMAIN G -> DOMAIN F \ {k}]
          /\ \A x, y \in DOMAIN G : m[x] = m[y] => x = y
          /\ \A t \in DOMAIN F \ {k} : \E h \in DOMAIN G : m[h] = t
      BY DEF Bijection, Injection, Surjection, IsInjective
    <2>2. r \in [H -> A \ {k}]
      BY <2>1 DEF Having
    <2>3. \A x, y \in H : r[x] = r[y] => x = y
      BY <2>1 DEF Having
    <2>4. \A t \in A \ {k} : \E h \in H : r[h] = t
      BY <2>1 DEF Having
    <2>5. r \in Bijection(H, A \ {k})
      <3> HIDE DEF r, H, A
      <3> QED
        BY <2>2, <2>3, <2>4 DEF Bijection, Injection, Surjection, IsInjective
    <2> HIDE DEF r, H, A
    <2> QED
      BY <1>1, <2>5, FS_Bijection DEF ExistsBijection
  <1>3. Cardinality(A \ {k}) = IF k \in A THEN Cardinality(A) - 1 ELSE Cardinality(A)
    BY <1>1, FS_RemoveElement
  <1>4. k \in A <=> b \in F[k]
    BY DEF Having
  <1>5. Odd(Cardinality(H)) <=> (Odd(Cardinality(A)) <=> ~ (b \in F[k]))
    <2> HIDE DEF A, H
    <2>1. CASE b \in F[k]
      <3>1. Cardinality(H) = Cardinality(A) - 1
        BY <1>2, <1>3, <1>4, <2>1
      <3> QED
        BY <1>1, <2>1, <3>1 DEF Odd
    <2>2. CASE ~ (b \in F[k])
      <3>1. Cardinality(H) = Cardinality(A)
        BY <1>2, <1>3, <1>4, <2>2
      <3> QED
        BY <2>2, <3>1
    <2> QED
      BY <2>1, <2>2
  <1> QED
    BY <1>1, <1>5 DEF Fec!Xor

-----------------------------------------------------------------------------
(* The packet the encoder was given as frame n, as Packetize writes it and *)
(* as the decoder keeps it; the groups and the repair packets made of      *)
(* them.                                                                   *)
SeqNo(n) == (StartSeq + n - 1) % SeqSpace
Given(s, n) ==
    [fec |-> FALSE, seq |-> SeqNo(n), ts |-> Fec!UsToRtp(s[n].us), ids |-> s[n].ids, len |-> s[n].len]
Burst(s, a, b) == [j \in 1 .. b - a + 1 |-> Given(s, a + j - 1)]

Originals == {Original(n) : n \in Sent}
Givens    == {Given(sent, n) : n \in Sent}
Repairs   == {Fec!Repair(Burst(sent, ab[1], ab[2])) :
                ab \in {p \in Sent \X Sent : p[1] <= p[2] /\ p[2] - p[1] < MaxMask}}

Distinct(media) == \A i, j \in DOMAIN media : media[i].seq = media[j].seq => i = j
KeepsOriginals(d) ==
    d \in [media : Seq(Originals), fec : Seq(Repairs)] /\ Distinct(d.media)

Carried(r) == "pkt" \in DOMAIN r /\ r.pkt.payload \in Givens \cup Repairs

(* The encoder's group is the end of the stream so far, every packet on    *)
(* its way is of the stream or repairs a group of it, and the decoder      *)
(* keeps and has emitted nothing else.                                     *)
FecInv ==
    codec = "flexfec" =>
        /\ sent \in Seq(Range(sent)) /\ Len(sent) <= MaxFrames[codec]
        /\ pk = [seq |-> SeqNo(Len(sent) + 1), fecSeq |-> pk.fecSeq, group |-> pk.group]
        /\ \/ pk.group = <<>>
           \/ \E a \in Sent : Len(sent) - a + 1 < GroupSize /\ pk.group = Burst(sent, a, Len(sent))
        /\ net \in Seq(Range(net))
        /\ \A i \in DOMAIN net : Carried(net[i])
        /\ KeepsOriginals(dp)
        /\ out \in Seq(Originals)

-----------------------------------------------------------------------------
(* Sequence numbers are places of the stream, taken modulo SeqSpace.       *)
LEMMA DivMod ==
    ASSUME NEW a \in Int, NEW m \in Nat \ {0}
    PROVE  a % m \in 0 .. m - 1 /\ \E q \in Int : a = m * q + (a % m)
  <1>1. a % m \in 0 .. m - 1 /\ a \div m \in Int /\ a = m * (a \div m) + (a % m)
    OBVIOUS
  <1> QED
    BY <1>1

(* A remainder is the only one.                                            *)
LEMMA ModUnique ==
    ASSUME NEW m \in Nat \ {0}, NEW r \in 0 .. m - 1, NEW a \in Int, NEW q \in Int, a = m * q + r
    PROVE  a % m = r
  OBVIOUS

(* Adding to a number that was already reduced.                            *)
LEMMA ModPlus ==
    ASSUME NEW a \in Int, NEW d \in Int
    PROVE  ((a % SeqSpace) + d) % SeqSpace = (a + d) % SeqSpace
  <1>1. SeqSpace \in Nat \ {0}
    BY RtpAssumption
  <1>2. PICK r \in 0 .. SeqSpace - 1 : r = a % SeqSpace
    BY <1>1, DivMod
  <1>3. PICK q \in Int : a = SeqSpace * q + r
    BY <1>1, <1>2, DivMod
  <1> PICK y \in Int : y = r + d
    BY <1>2
  <1> PICK z \in Int : z = a + d
    OBVIOUS
  <1>4. PICK s \in 0 .. SeqSpace - 1 : s = y % SeqSpace
    BY <1>1, DivMod
  <1>5. PICK t \in Int : y = SeqSpace * t + s
    BY <1>1, <1>4, DivMod
  <1>6. SeqSpace * q \in Int /\ SeqSpace * t \in Int /\ SeqSpace * (q + t) = SeqSpace * q + SeqSpace * t
    BY <1>1
  <1>7. z = SeqSpace * (q + t) + s /\ q + t \in Int
    BY <1>3, <1>5, <1>6
  <1>8. z % SeqSpace = s
    BY <1>1, <1>7, ModUnique
  <1> QED
    BY <1>2, <1>4, <1>8

(* Two places less than SeqSpace apart have different numbers.             *)
LEMMA ModApart ==
    ASSUME NEW a \in Int, NEW d \in 0 .. SeqSpace - 1, a % SeqSpace = (a + d) % SeqSpace
    PROVE  d = 0
  <1>1. SeqSpace \in Nat \ {0}
    BY RtpAssumption
  <1>2. PICK r \in 0 .. SeqSpace - 1 : r = a % SeqSpace
    BY <1>1, DivMod
  <1>3. PICK q \in Int : a = SeqSpace * q + r
    BY <1>1, <1>2, DivMod
  <1> PICK z \in Int : z = a + d
    BY <1>1
  <1>4. PICK t \in Int : z = SeqSpace * t + r
    BY <1>1, <1>2, DivMod
  <1>5. SeqSpace * q \in Int /\ SeqSpace * t \in Int /\ SeqSpace * (t - q) = SeqSpace * t - SeqSpace * q
    BY <1>1
  <1>6. PICK k \in Int : k = t - q
    OBVIOUS
  <1>7. d = SeqSpace * k
    <2>1. SeqSpace * k = SeqSpace * t - SeqSpace * q
      BY <1>5, <1>6
    <2>2. PICK u, v \in Int : u = SeqSpace * q /\ v = SeqSpace * t
      BY <1>5
    <2>3. a = u + r /\ z = v + r /\ SeqSpace * k = v - u
      BY <1>3, <1>4, <2>1, <2>2
    <2>4. d = v - u
      BY <1>1, <2>2, <2>3
    <2> QED
      BY <2>3, <2>4
  <1>8. k >= 1 => SeqSpace * k >= SeqSpace
    BY <1>1
  <1>9. k <= -1 => SeqSpace * k <= -SeqSpace
    BY <1>1
  <1> QED
    BY <1>1, <1>6, <1>7, <1>8, <1>9

(* What SeqNo returns is a sequence number.                                *)
LEMMA SeqNoType == \A n \in Int : SeqNo(n) \in 0 .. SeqSpace - 1
  <1>1. SeqSpace \in Nat \ {0} /\ StartSeq \in Int
    BY RtpAssumption, PathAssumption
  <1> QED
    BY <1>1, DivMod DEF SeqNo

(* NextSeq goes from a place to the next, and within one cycle of the      *)
(* numbers places are told apart by them.                                  *)
LEMMA SeqNos ==
    /\ SeqSpace \in Nat \ {0} /\ StartSeq \in 0 .. SeqSpace - 1 /\ MaxMask \in 1 .. SeqSpace
    /\ GroupSize \in 1 .. MaxMask
    /\ SeqNo(1) = StartSeq
    /\ \A n \in Int : Fec!NextSeq(SeqNo(n)) = SeqNo(n + 1)
    /\ \A n, d \in Int : (SeqNo(n) + d) % SeqSpace = SeqNo(n + d)
    /\ \A n, k \in 1 .. SeqSpace : SeqNo(n) = SeqNo(k) => n = k
  <1>1. SeqSpace \in Nat \ {0} /\ StartSeq \in 0 .. SeqSpace - 1 /\ MaxMask \in 1 .. SeqSpace
        /\ GroupSize \in 1 .. MaxMask
    BY RtpAssumption, PathAssumption
  <1>2. SeqNo(1) = StartSeq
    BY <1>1 DEF SeqNo
  <1>4. \A n, d \in Int : (SeqNo(n) + d) % SeqSpace = SeqNo(n + d)
    <2> TAKE n, d \in Int
    <2>1. PICK a \in Int : a = StartSeq + n - 1
      BY <1>1
    <2>2. ((a % SeqSpace) + d) % SeqSpace = (a + d) % SeqSpace
      BY ModPlus
    <2>3. a + d = StartSeq + (n + d) - 1
      BY <1>1, <2>1
    <2> QED
      BY <2>1, <2>2, <2>3 DEF SeqNo
  <1>5. \A n \in Int : Fec!NextSeq(SeqNo(n)) = SeqNo(n + 1)
    BY <1>4 DEF Fec!NextSeq
  <1>6. ASSUME NEW n \in 1 .. SeqSpace, NEW k \in 1 .. SeqSpace, SeqNo(n) = SeqNo(k), n <= k
        PROVE  n = k
    <2>1. PICK a \in Int : a = StartSeq + n - 1
      BY <1>1
    <2>2. PICK d \in 0 .. SeqSpace - 1 : d = k - n
      BY <1>1, <1>6
    <2>3. a + d = StartSeq + k - 1
      BY <1>1, <2>1, <2>2
    <2>4. a % SeqSpace = (a + d) % SeqSpace
      BY <1>6, <2>1, <2>3 DEF SeqNo
    <2>5. d = 0
      BY <2>4, ModApart
    <2> QED
      BY <1>1, <2>2, <2>5
  <1>7. \A n, k \in 1 .. SeqSpace : SeqNo(n) = SeqNo(k) => n = k
    <2> TAKE n, k \in 1 .. SeqSpace
    <2>1. CASE n <= k
      BY <1>6, <2>1
    <2>2. CASE k <= n
      BY <1>6, <2>2
    <2> QED
      BY <1>1, <2>1, <2>2
  <1> QED
    BY <1>1, <1>2, <1>4, <1>5, <1>7

-----------------------------------------------------------------------------
(* The repair of frames a to b: its mask names them, and no others.        *)
LEMMA RepairOf ==
    ASSUME NEW a \in Nat, NEW b \in Nat, a <= b, b - a < MaxMask
    PROVE  /\ DOMAIN Burst(sent, a, b) = 1 .. b - a + 1
           /\ \A j \in 1 .. b - a + 1 : Burst(sent, a, b)[j] = Given(sent, a + j - 1)
           /\ Fec!Repair(Burst(sent, a, b)).base = SeqNo(a)
           /\ Fec!Repair(Burst(sent, a, b)).mask = 0 .. b - a
           /\ Fec!Covered(Fec!Repair(Burst(sent, a, b))) = {SeqNo(n) : n \in a .. b}
           /\ Fec!Repair(Burst(sent, a, b)).ids = Fec!XorAll([j \in 1 .. b - a + 1 |-> sent[a + j - 1].ids])
           /\ Fec!Repair(Burst(sent, a, b)).len = Fec!XorAll([j \in 1 .. b - a + 1 |-> sent[a + j - 1].len])
  <1> DEFINE g == Burst(sent, a, b)
             A == 1 .. b - a + 1
  <1>1. DOMAIN g = A /\ \A j \in A : g[j] = Given(sent, a + j - 1)
    BY DEF Burst
  <1>2. \A j \in A : /\ g[j].seq = SeqNo(a + j - 1) /\ g[j].ids = sent[a + j - 1].ids
                     /\ g[j].len = sent[a + j - 1].len
    BY <1>1 DEF Given
  <1>3. 1 \in A /\ g[1].seq = SeqNo(a)
    <2>1. 1 \in A /\ a + 1 - 1 = a
      OBVIOUS
    <2> HIDE DEF g, A
    <2> QED
      BY <1>2, <2>1
  <1> HIDE DEF g
  <1>4. \A j \in A : Fec!SeqDiff(g[j].seq, g[1].seq) = j - 1
    <2> TAKE j \in A
    <2>1. PICK x \in 0 .. SeqSpace - 1 : x = SeqNo(a)
      BY SeqNoType
    <2>2. SeqSpace \in Nat \ {0} /\ MaxMask \in 1 .. SeqSpace
      BY SeqNos
    <2>3. PICK i \in Int : i = j - 1
      OBVIOUS
    <2>4. (x + i) % SeqSpace = SeqNo(a + j - 1)
      <3>1. a + i = a + j - 1 /\ a \in Int
        BY <2>3
      <3> QED
        BY <2>1, <3>1, SeqNos
    <2>5. PICK y, z \in Int : y = x + i /\ z = -x
      BY <2>1, <2>2, <2>3
    <2>6. ((y % SeqSpace) + z) % SeqSpace = (y + z) % SeqSpace
      BY ModPlus
    <2>7. y + z = i /\ i \in 0 .. SeqSpace - 1
      BY <2>1, <2>2, <2>3, <2>5
    <2>8. i % SeqSpace = i
      BY <2>2, <2>7
    <2>9. PICK w \in 0 .. SeqSpace - 1 : w = SeqNo(a + j - 1)
      <3>1. a + j - 1 \in Int
        OBVIOUS
      <3> QED
        BY <3>1, SeqNoType
    <2>10. w + z = w - x /\ y % SeqSpace = w
      BY <2>1, <2>2, <2>4, <2>5, <2>9
    <2>11. (w - x) % SeqSpace = i
      BY <2>6, <2>7, <2>8, <2>10
    <2>12. g[j].seq = w /\ g[1].seq = x
      BY <1>2, <1>3, <2>1, <2>9
    <2> QED
      BY <2>3, <2>11, <2>12 DEF Fec!SeqDiff
  <1>5. Fec!Mask(g) = 0 .. b - a
    <2>1. ASSUME NEW d \in Fec!Mask(g) PROVE d \in 0 .. b - a
      BY <1>1, <1>4, <2>1 DEF Fec!Mask
    <2>2. ASSUME NEW d \in 0 .. b - a PROVE d \in Fec!Mask(g)
      <3>1. d + 1 \in A /\ d \in 0 .. MaxMask - 1 /\ d + 1 - 1 = d
        BY SeqNos
      <3>2. Fec!SeqDiff(g[d + 1].seq, g[1].seq) = d
        BY <1>4, <3>1
      <3> HIDE DEF A
      <3> QED
        BY <1>1, <3>1, <3>2 DEF Fec!Mask
    <2> QED
      BY <2>1, <2>2
  <1>6. /\ Fec!Repair(g).base = SeqNo(a) /\ Fec!Repair(g).mask = 0 .. b - a
        /\ Fec!Repair(g).ids = Fec!XorAll([j \in DOMAIN g |-> g[j].ids])
        /\ Fec!Repair(g).len = Fec!XorAll([j \in DOMAIN g |-> g[j].len])
    BY <1>3, <1>5 DEF Fec!Repair
  <1>7. /\ [j \in DOMAIN g |-> g[j].ids] = [j \in A |-> sent[a + j - 1].ids]
        /\ [j \in DOMAIN g |-> g[j].len] = [j \in A |-> sent[a + j - 1].len]
    <2> HIDE DEF A
    <2> QED
      BY <1>1, <1>2
  <1>8. Fec!Covered(Fec!Repair(g)) = {SeqNo(n) : n \in a .. b}
    <2>1. Fec!Covered(Fec!Repair(g)) = {(SeqNo(a) + d) % SeqSpace : d \in 0 .. b - a}
      BY <1>6 DEF Fec!Covered
    <2>2. \A d \in 0 .. b - a : (SeqNo(a) + d) % SeqSpace = SeqNo(a + d) /\ a + d \in a .. b
      BY SeqNos
    <2>3. \A n \in a .. b : n - a \in 0 .. b - a /\ a + (n - a) = n
      OBVIOUS
    <2>4. \A n \in a .. b : SeqNo(n) = (SeqNo(a) + (n - a)) % SeqSpace
      BY <2>2, <2>3
    <2> QED
      BY <2>1, <2>2, <2>3, <2>4
  <1> QED
    BY <1>1, <1>6, <1>7, <1>8 DEF g

(* When one packet of a group is missing, what _tryRecover makes of the    *)
(* repair and of the others is that packet.                                *)
LEMMA RecoveryIsExact ==
    ASSUME Len(sent) \in Nat, Len(sent) <= SeqSpace, NEW d, KeepsOriginals(d),
           NEW f \in Repairs, Fec!OneMissing(d, f)
    PROVE  /\ Fec!Recovered(d, f) \in Originals
           /\ Fec!At(d.media, Fec!Recovered(d, f).seq) = {}
  <1>1. PICK a \in Sent, b \in Sent : a <= b /\ b - a < MaxMask /\ f = Fec!Repair(Burst(sent, a, b))
    BY DEF Repairs
  <1>2. a \in Nat /\ b \in Nat /\ a .. b \subseteq Sent /\ a .. b \subseteq 1 .. SeqSpace /\ a .. b \subseteq Int
        /\ Sent \subseteq 1 .. SeqSpace
    BY <1>1, RtpAssumption DEF Sent
  <1> DEFINE media == d.media
             A     == 1 .. b - a + 1
             have  == {h \in DOMAIN media : media[h].seq \in Fec!Covered(f)}
             lost  == Fec!Missing(d, f)
  <1>3. /\ Fec!Covered(f) = {SeqNo(n) : n \in a .. b}
        /\ f.ids = Fec!XorAll([j \in A |-> sent[a + j - 1].ids])
        /\ f.len = Fec!XorAll([j \in A |-> sent[a + j - 1].len])
    BY <1>1, <1>2, RepairOf
  <1>4. /\ media \in Seq(Originals) /\ Len(media) \in Nat /\ DOMAIN media = 1 .. Len(media)
        /\ \A h \in DOMAIN media : media[h] \in Originals
        /\ Distinct(media)
    <2>1. media \in Seq(Originals) /\ Distinct(media)
      BY DEF KeepsOriginals
    <2> HIDE DEF media
    <2> QED
      BY <2>1, LenProperties, ElementOfSeq
  <1>5. \A n, k \in a .. b : SeqNo(n) = SeqNo(k) => n = k
    BY <1>2, SeqNos
  <1>6. PICK q : lost = {q}
    <2>1. IsFiniteSet(lost)
      <3>1. lost \subseteq 0 .. SeqSpace - 1
        BY <1>2, <1>3, SeqNoType DEF Fec!Missing
      <3>2. IsFiniteSet(0 .. SeqSpace - 1)
        BY SeqNos, FS_Interval
      <3> HIDE DEF lost
      <3> QED
        BY <3>1, <3>2, FS_Subset
    <2>2. Cardinality(lost) = 1
      BY DEF Fec!OneMissing, Fec!Cardinality, Cardinality
    <2> HIDE DEF lost
    <2> QED
      BY <2>1, <2>2, FS_Singleton
  <1>7. PICK k \in a .. b : q = SeqNo(k)
    BY <1>3, <1>6 DEF Fec!Missing
  <1>8. /\ \A h \in DOMAIN media : media[h].seq # q
        /\ \A n \in a .. b : n # k => \E h \in DOMAIN media : media[h].seq = SeqNo(n)
    <2>1. \A n \in a .. b : SeqNo(n) \in lost <=> Fec!At(media, SeqNo(n)) = {}
      BY <1>3 DEF Fec!Missing
    <2>2. \A n \in a .. b : SeqNo(n) \in lost <=> n = k
      BY <1>5, <1>6, <1>7
    <2> HIDE DEF lost, media
    <2> QED
      BY <1>7, <2>1, <2>2 DEF Fec!At
  <1>9. \A h \in have : \E n \in a .. b :
            /\ n # k /\ media[h].seq = SeqNo(n)
            /\ media[h].ids = sent[n].ids /\ media[h].len = sent[n].len
    <2> TAKE h \in have
    <2>1. PICK n \in a .. b : media[h].seq = SeqNo(n)
      BY <1>3
    <2>2. PICK o \in Sent : media[h] = Original(o)
      BY <1>4 DEF Originals
    <2>3. media[h].seq = SeqNo(o) /\ media[h].ids = sent[o].ids /\ media[h].len = sent[o].len
      BY <2>2 DEF Original, SeqNo
    <2>4. o \in 1 .. SeqSpace /\ n \in 1 .. SeqSpace
      BY <1>2
    <2>5. n = o
      BY <2>1, <2>3, <2>4, SeqNos
    <2>6. n # k
      BY <1>7, <1>8, <2>1
    <2> QED
      BY <2>1, <2>3, <2>5, <2>6
  <1> DEFINE m == [h \in have |-> CHOOSE j \in A : SeqNo(a + j - 1) = media[h].seq]
             x == k - a + 1
  <1>10. x \in A /\ a + x - 1 = k
    BY <1>2
  <1>11. ASSUME NEW h \in have
         PROVE  /\ m[h] \in A \ {x} /\ SeqNo(a + m[h] - 1) = media[h].seq
                /\ media[h].ids = sent[a + m[h] - 1].ids /\ media[h].len = sent[a + m[h] - 1].len
    <2>1. PICK n \in a .. b : /\ n # k /\ media[h].seq = SeqNo(n)
                              /\ media[h].ids = sent[n].ids /\ media[h].len = sent[n].len
      BY <1>9
    <2>2. PICK i \in A : i = n - a + 1 /\ a + i - 1 = n
      BY <1>2
    <2>3. m[h] = CHOOSE j \in A : SeqNo(a + j - 1) = media[h].seq
      OBVIOUS
    <2>4. m[h] \in A /\ SeqNo(a + m[h] - 1) = media[h].seq
      <3> HIDE DEF m, A, have, media
      <3> QED
        BY <2>1, <2>2, <2>3
    <2>5. PICK y \in A : y = m[h]
      BY <2>4
    <2>6. a + y - 1 \in a .. b
      BY <1>2
    <2>7. a + y - 1 = n
      BY <1>5, <2>1, <2>4, <2>5, <2>6
    <2>8. y # x
      BY <1>2, <1>10, <2>1, <2>7
    <2> HIDE DEF m
    <2> QED
      BY <2>1, <2>4, <2>5, <2>7, <2>8
  <1>12. m \in Bijection(have, A \ {x})
    <2>1. m \in [have -> A \ {x}]
      <3>1. m = [h \in have |-> m[h]]
        OBVIOUS
      <3> HIDE DEF m, A, have, x
      <3> QED
        BY <1>11, <3>1
    <2>2. \A g, h \in have : m[g] = m[h] => g = h
      <3> HIDE DEF m
      <3> QED
        BY <1>4, <1>11 DEF Distinct
    <2>3. \A t \in A \ {x} : \E h \in have : m[h] = t
      <3> TAKE t \in A \ {x}
      <3>1. PICK n \in a .. b : n = a + t - 1 /\ n # k
        BY <1>2
      <3>2. PICK h \in DOMAIN media : media[h].seq = SeqNo(n)
        BY <1>8, <3>1
      <3>3. h \in have
        BY <1>3, <3>2
      <3>4. PICK y \in A : y = m[h]
        BY <1>11, <3>3
      <3>5. a + y - 1 \in a .. b /\ SeqNo(a + y - 1) = SeqNo(n)
        <4>1. a + y - 1 \in a .. b
          BY <1>2
        <4>2. SeqNo(a + m[h] - 1) = media[h].seq
          BY <1>11, <3>3
        <4> HIDE DEF m, media, have, A
        <4> QED
          BY <3>2, <3>4, <4>1, <4>2
      <3>6. a + y - 1 = n
        BY <1>5, <3>5
      <3>7. y = t
        BY <1>2, <3>1, <3>6
      <3> QED
        BY <3>3, <3>4, <3>7
    <2> HIDE DEF m, A, have, x
    <2> QED
      BY <2>1, <2>2, <2>3 DEF Bijection, Injection, Surjection, IsInjective
  <1>13. IsFiniteSet(A) /\ IsFiniteSet(have)
    <2>1. IsFiniteSet(A) /\ IsFiniteSet(1 .. Len(media))
      <3>1. PICK w \in Int : w = b - a + 1
        BY <1>2
      <3>2. IsFiniteSet(1 .. w)
        BY FS_Interval
      <3>3. PICK l \in Nat : l = Len(media)
        BY <1>4
      <3>4. IsFiniteSet(1 .. l)
        BY FS_Interval
      <3> QED
        BY <3>1, <3>2, <3>3, <3>4
    <2>2. have \subseteq 1 .. Len(media)
      BY <1>4
    <2> HIDE DEF have, A
    <2> QED
      BY <2>1, <2>2, FS_Subset
  <1>14. Fec!Xor(f.ids, Fec!XorAll([h \in have |-> media[h].ids])) = sent[k].ids
    <2> DEFINE F == [j \in A |-> sent[a + j - 1].ids]
               G == [h \in have |-> media[h].ids]
    <2>1. DOMAIN F = A /\ DOMAIN G = have /\ F[x] = sent[k].ids
      BY <1>10
    <2>2. \A h \in have : G[h] = F[m[h]]
      BY <1>11
    <2> HIDE DEF F, G, A, have, m, x
    <2>3. Fec!Xor(Fec!XorAll(F), Fec!XorAll(G)) = F[x]
      BY <1>10, <1>12, <1>13, <2>1, <2>2, XorExact
    <2> QED
      BY <1>3, <2>1, <2>3 DEF F, G
  <1>15. Fec!Xor(f.len, Fec!XorAll([h \in have |-> media[h].len])) = sent[k].len
    <2> DEFINE F == [j \in A |-> sent[a + j - 1].len]
               G == [h \in have |-> media[h].len]
    <2>1. DOMAIN F = A /\ DOMAIN G = have /\ F[x] = sent[k].len
      BY <1>10
    <2>2. \A h \in have : G[h] = F[m[h]]
      BY <1>11
    <2> HIDE DEF F, G, A, have, m, x
    <2>3. Fec!Xor(Fec!XorAll(F), Fec!XorAll(G)) = F[x]
      BY <1>10, <1>12, <1>13, <2>1, <2>2, XorExact
    <2> QED
      BY <1>3, <2>1, <2>3 DEF F, G
  <1>16. Fec!Recovered(d, f) = Original(k) /\ k \in Sent
    <2>1. (CHOOSE r \in Fec!Missing(d, f) : TRUE) = SeqNo(k)
      BY <1>6, <1>7
    <2> HIDE DEF m, x
    <2> QED
      BY <1>2, <1>14, <1>15, <2>1 DEF Fec!Recovered, Original, SeqNo
  <1> QED
    <2>1. Original(k).seq = q
      BY <1>7 DEF Original, SeqNo
    <2> QED
      BY <1>8, <1>16, <2>1 DEF Originals, Fec!At

-----------------------------------------------------------------------------
(* The decoder's operations on its windows.                                *)
LEMMA PutKeeps ==
    ASSUME NEW media \in Seq(Originals), Distinct(media), NEW m \in Originals
    PROVE  Fec!Put(media, m) \in Seq(Originals) /\ Distinct(Fec!Put(media, m))
  <1>1. Len(media) \in Nat /\ DOMAIN media = 1 .. Len(media) /\ media \in [1 .. Len(media) -> Originals]
    BY LenProperties
  <1>2. CASE Fec!At(media, m.seq) = {}
    <2>1. /\ Append(media, m) \in Seq(Originals) /\ Len(Append(media, m)) = Len(media) + 1
          /\ \A i \in 1 .. Len(media) : Append(media, m)[i] = media[i]
          /\ Append(media, m)[Len(media) + 1] = m
      BY AppendProperties
    <2>2. DOMAIN Append(media, m) = 1 .. Len(media) + 1
      BY <2>1, LenProperties
    <2>3. \A i \in 1 .. Len(media) : media[i].seq # m.seq
      BY <1>1, <1>2 DEF Fec!At
    <2>4. \A i \in 1 .. Len(media) + 1 : i \in 1 .. Len(media) \/ i = Len(media) + 1
      BY <1>1
    <2> DEFINE q == Append(media, m)
    <2> HIDE DEF q
    <2>5. \A i, j \in 1 .. Len(media) : q[i].seq = q[j].seq => i = j
      BY <1>1, <2>1 DEF Distinct, q
    <2>6. \A i \in 1 .. Len(media) : q[i].seq # q[Len(media) + 1].seq
      BY <2>1, <2>3 DEF q
    <2>7. Distinct(q)
      BY <2>2, <2>4, <2>5, <2>6 DEF Distinct, q
    <2> QED
      BY <1>2, <2>1, <2>7 DEF Fec!Put, q
  <1>3. CASE Fec!At(media, m.seq) # {}
    <2> DEFINE q == [j \in DOMAIN media |-> IF media[j].seq = m.seq THEN m ELSE media[j]]
    <2>1. q \in [1 .. Len(media) -> Originals]
      BY <1>1
    <2>2. q \in Seq(Originals)
      BY <1>1, <2>1, SeqDef
    <2>3. \A j \in DOMAIN media : q[j].seq = media[j].seq
      OBVIOUS
    <2>4. DOMAIN q = DOMAIN media
      OBVIOUS
    <2>5. Fec!Put(media, m) = q
      BY <1>3 DEF Fec!Put
    <2> HIDE DEF q
    <2>6. Distinct(q)
      BY <2>3, <2>4 DEF Distinct
    <2> QED
      BY <2>2, <2>5, <2>6
  <1> QED
    BY <1>2, <1>3

(* A window whose oldest entries were dropped holds nothing new.           *)
LEMMA LatestKeeps ==
    ASSUME NEW S, NEW s \in Seq(S), NEW n \in Nat \ {0}
    PROVE  Fec!Latest(s, n) \in Seq(S) /\ (Distinct(s) => Distinct(Fec!Latest(s, n)))
  <1>1. Len(s) \in Nat /\ DOMAIN s = 1 .. Len(s) /\ \A i \in 1 .. Len(s) : s[i] \in S
    BY LenProperties, ElementOfSeq
  <1>2. PICK from \in Int : from = (IF Len(s) > n THEN Len(s) - n + 1 ELSE 1) /\ from >= 1
    BY <1>1
  <1>3. PICK l \in Nat : l = Len(s)
    BY <1>1
  <1>4. \A i \in from .. l : s[i] \in S
    BY <1>1, <1>2, <1>3
  <1> DEFINE q == SubSeq(s, from, l)
  <1>5. /\ q \in Seq(S) /\ Len(q) = (IF from <= l THEN l - from + 1 ELSE 0)
        /\ \A i \in 1 .. l - from + 1 : q[i] = s[from + i - 1]
    BY <1>4, SubSeqProperties
  <1>6. Fec!Latest(s, n) = q
    BY <1>2, <1>3 DEF Fec!Latest
  <1> HIDE DEF q
  <1>7. DOMAIN q = 1 .. Len(q)
    BY <1>5, LenProperties
  <1>8. ASSUME NEW i \in DOMAIN q
        PROVE  q[i] = s[from + i - 1] /\ from + i - 1 \in DOMAIN s /\ i \in Int
    <2>1. i \in 1 .. l - from + 1
      <3>1. PICK k \in Nat : k = Len(q)
        BY <1>5, LenProperties
      <3>2. i \in 1 .. k
        BY <1>7, <3>1
      <3>3. k = IF from <= l THEN l - from + 1 ELSE 0
        BY <1>5, <3>1
      <3>4. CASE from <= l
        BY <3>2, <3>3, <3>4
      <3>5. CASE ~ (from <= l)
        <4>1. k = 0
          BY <3>3, <3>5
        <4> QED
          BY <3>2, <4>1
      <3> QED
        BY <3>4, <3>5
    <2>2. from + i - 1 \in 1 .. l
      <3>1. from >= 1
        BY <1>2
      <3> QED
        BY <2>1, <3>1
    <2> QED
      BY <1>1, <1>3, <1>5, <2>1, <2>2
  <1>9. ASSUME Distinct(s), NEW i \in DOMAIN q, NEW j \in DOMAIN q, q[i].seq = q[j].seq
        PROVE  i = j
    <2>1. from + i - 1 = from + j - 1
      BY <1>8, <1>9 DEF Distinct
    <2> QED
      BY <1>2, <1>8, <2>1
  <1> QED
    BY <1>5, <1>6, <1>9 DEF Distinct

(* A sequence that one entry was taken out of holds nothing new and is one *)
(* shorter.                                                                *)
LEMMA WithoutOne ==
    ASSUME NEW S, NEW s \in Seq(S), NEW i \in 1 .. Len(s)
    PROVE  /\ SubSeq(s, 1, i - 1) \o SubSeq(s, i + 1, Len(s)) \in Seq(S)
           /\ Len(SubSeq(s, 1, i - 1) \o SubSeq(s, i + 1, Len(s))) = Len(s) - 1
  <1>1. PICK l \in Nat : l = Len(s)
    BY LenProperties
  <1>2. PICK a, b \in Int : a = i - 1 /\ b = i + 1
    BY <1>1
  <1>3. (\A j \in 1 .. a : s[j] \in S) /\ (\A j \in b .. l : s[j] \in S)
    BY <1>1, <1>2, ElementOfSeq
  <1>4. SubSeq(s, 1, a) \in Seq(S) /\ Len(SubSeq(s, 1, a)) = IF 1 <= a THEN a - 1 + 1 ELSE 0
    BY <1>3, SubSeqProperties
  <1>5. SubSeq(s, b, l) \in Seq(S) /\ Len(SubSeq(s, b, l)) = IF b <= l THEN l - b + 1 ELSE 0
    BY <1>3, SubSeqProperties
  <1>6. /\ SubSeq(s, 1, a) \o SubSeq(s, b, l) \in Seq(S)
        /\ Len(SubSeq(s, 1, a) \o SubSeq(s, b, l)) = Len(SubSeq(s, 1, a)) + Len(SubSeq(s, b, l))
    BY <1>4, <1>5, ConcatProperties
  <1>7. Len(SubSeq(s, 1, a)) + Len(SubSeq(s, b, l)) = l - 1
    <2>1. Len(SubSeq(s, 1, a)) = a
      BY <1>2, <1>4
    <2>2. Len(SubSeq(s, b, l)) = l - b + 1
      BY <1>1, <1>2, <1>5
    <2>3. a + (l - b + 1) = l - 1
      BY <1>2
    <2> QED
      BY <2>1, <2>2, <2>3
  <1> QED
    BY <1>1, <1>2, <1>6, <1>7

(* One turn of _tryRecoverAll.                                             *)
Safe(x) ==
    /\ x \in [d : [media : Seq(Originals), fec : Seq(Repairs)], i : Nat, out : Seq(Originals)]
    /\ Distinct(x.d.media) /\ x.i <= Len(x.d.fec)

(* A turn recovers the packet that was lost, or retires a repair, or goes  *)
(* on to the next one.                                                     *)
LEMMA TurnKeeps ==
    ASSUME Len(sent) \in Nat, Len(sent) <= SeqSpace, NEW x, Safe(x)
    PROVE  Safe(Fec!Turn(x))
  <1> DEFINE f == x.d.fec[x.i]
             rest == Fec!Seqs!RemoveAt(x.d.fec, x.i)
  <1>1. /\ x = [d |-> x.d, i |-> x.i, out |-> x.out] /\ x.d = [media |-> x.d.media, fec |-> x.d.fec]
        /\ x.d.media \in Seq(Originals) /\ x.d.fec \in Seq(Repairs) /\ x.out \in Seq(Originals)
        /\ x.i \in Nat /\ Distinct(x.d.media) /\ x.i <= Len(x.d.fec) /\ Len(x.d.fec) \in Nat
    <2>1. x.d.fec \in Seq(Repairs)
      BY DEF Safe
    <2>2. Len(x.d.fec) \in Nat
      BY <2>1, LenProperties
    <2> QED
      BY <2>2 DEF Safe
  <1>2. CASE x.i = 0
    BY <1>2 DEF Fec!Turn
  <1>3. ASSUME x.i > 0
        PROVE  /\ f \in Repairs /\ rest \in Seq(Repairs) /\ Len(rest) = Len(x.d.fec) - 1
               /\ x.i - 1 \in Nat /\ x.i - 1 <= Len(rest) /\ Len(rest) \in Nat
    <2>1. x.i \in 1 .. Len(x.d.fec)
      BY <1>1, <1>3
    <2>2. f \in Repairs
      BY <1>1, <2>1, ElementOfSeq
    <2>3. rest \in Seq(Repairs) /\ Len(rest) = Len(x.d.fec) - 1
      BY <1>1, <2>1, WithoutOne DEF Fec!Seqs!RemoveAt
    <2> HIDE DEF f, rest
    <2> QED
      BY <1>1, <2>1, <2>2, <2>3
  <1>4. CASE x.i > 0 /\ Fec!Missing(x.d, f) = {}
    <2>1. Fec!Turn(x) = [d |-> [media |-> x.d.media, fec |-> rest], i |-> x.i - 1, out |-> x.out]
      <3>1. Fec!Turn(x) = [d |-> [x.d EXCEPT !.fec = rest], i |-> x.i - 1, out |-> x.out]
        <4>1. x.i # 0 /\ x.i > 0
          BY <1>1, <1>4
        <4>2. PICK r : r = [x.d EXCEPT !.fec = rest]
          OBVIOUS
        <4>3. PICK g : g = f
          OBVIOUS
        <4>4. Fec!Missing(x.d, g) = {}
          BY <1>4, <4>3
        <4>5. ~ Fec!Recovers(x.d, g)
          <5>1. Fec!Cardinality(Fec!Missing(x.d, g)) = 0
            BY <4>4, FS_EmptySet DEF Fec!Cardinality, Cardinality
          <5> QED
            BY <5>1 DEF Fec!Recovers, Fec!OneMissing
        <4>6. Fec!Turn(x) = [d |-> r, i |-> x.i - 1, out |-> x.out]
          BY <4>1, <4>2, <4>3, <4>4, <4>5 DEF Fec!Turn
        <4> QED
          BY <4>2, <4>6
      <3>2. [x.d EXCEPT !.fec = rest] = [media |-> x.d.media, fec |-> rest]
        <4> HIDE DEF rest
        <4> QED
          BY <1>1
      <3> HIDE DEF rest, f
      <3> QED
        BY <1>1, <3>1, <3>2
    <2> HIDE DEF rest, f
    <2> QED
      BY <1>1, <1>3, <1>4, <2>1 DEF Safe
  <1>5. CASE x.i > 0 /\ Fec!Missing(x.d, f) # {} /\ Fec!Recovers(x.d, f)
    <2> DEFINE rec == Fec!Recovered(x.d, f)
    <2>1. rec \in Originals
      <3>1. KeepsOriginals(x.d)
        BY <1>1 DEF KeepsOriginals
      <3>2. Fec!OneMissing(x.d, f) /\ f \in Repairs
        BY <1>3, <1>5 DEF Fec!Recovers
      <3> HIDE DEF f
      <3> QED
        BY <3>1, <3>2, RecoveryIsExact
    <2>2. Fec!Put(x.d.media, rec) \in Seq(Originals) /\ Distinct(Fec!Put(x.d.media, rec))
      BY <1>1, <2>1, PutKeeps
    <2>3. Append(x.out, rec) \in Seq(Originals)
      BY <1>1, <2>1, AppendProperties
    <2>4. Fec!Turn(x) = [d |-> [media |-> Fec!Put(x.d.media, rec), fec |-> rest], i |-> Len(rest),
                         out |-> Append(x.out, rec)]
      <3>1. Fec!Turn(x) = [d |-> [[x.d EXCEPT !.fec = rest] EXCEPT !.media = Fec!Put(x.d.media, rec)],
                           i |-> Len([x.d EXCEPT !.fec = rest].fec), out |-> Append(x.out, rec)]
        BY <1>1, <1>5 DEF Fec!Turn
      <3> DEFINE r == [x.d EXCEPT !.fec = rest]
                 p == Fec!Put(x.d.media, rec)
      <3> HIDE DEF rest, rec, f, p
      <3>2. r = [media |-> x.d.media, fec |-> rest]
        BY <1>1
      <3> HIDE DEF r
      <3>3. [r EXCEPT !.media = p] = [media |-> p, fec |-> rest]
        BY <3>2
      <3>4. r.fec = rest
        BY <3>2
      <3> USE DEF r, p
      <3> QED
        BY <3>1, <3>3, <3>4
    <2> HIDE DEF rest, f, rec
    <2> QED
      BY <1>3, <1>5, <2>2, <2>3, <2>4 DEF Safe
  <1>6. CASE x.i > 0 /\ Fec!Missing(x.d, f) # {} /\ ~ Fec!Recovers(x.d, f)
    <2>1. Fec!Turn(x) = [d |-> x.d, i |-> x.i - 1, out |-> x.out]
      <3>1. Fec!Turn(x) = [x EXCEPT !.i = x.i - 1]
        <4>1. x.i # 0
          BY <1>1, <1>6
        <4> QED
          BY <1>6, <4>1 DEF Fec!Turn
      <3> QED
        BY <1>1, <3>1
    <2> HIDE DEF rest, f
    <2> QED
      BY <1>1, <1>6, <2>1 DEF Safe
  <1> QED
    BY <1>1, <1>2, <1>4, <1>5, <1>6

-----------------------------------------------------------------------------
(* The loop of _tryRecoverAll is a function defined by recursion: its      *)
(* approximations on 0 .. n exist and agree, and together they are it.     *)
Turns(x, n, g) ==
    /\ g[0] = x
    /\ \A k \in 0 .. n - 1 : g[k + 1] = Fec!Turn(g[k])

(* There is an approximation of every length.                              *)
LEMMA TurnsExist ==
    ASSUME NEW x, NEW n \in Nat
    PROVE  \E g : Turns(x, n, g)
  <1> DEFINE S == {m \in Nat : \E g : Turns(x, m, g)}
  <1>1. 0 \in S
    <2> DEFINE g == [k \in {0} |-> x]
    <2>1. Turns(x, 0, g)
      BY DEF Turns
    <2> QED
      BY <2>1
  <1>2. ASSUME NEW m \in Nat, m \in S PROVE m + 1 \in S
    <2>1. PICK g : Turns(x, m, g)
      BY <1>2
    <2> DEFINE h == [k \in 0 .. m + 1 |-> IF k = m + 1 THEN Fec!Turn(g[m]) ELSE g[k]]
    <2>2. h[0] = x
      BY <2>1 DEF Turns
    <2>3. ASSUME NEW k \in 0 .. m PROVE h[k + 1] = Fec!Turn(h[k])
      <3>1. CASE k = m
        BY <3>1
      <3>2. CASE k # m
        <4>1. k \in 0 .. m - 1 /\ k + 1 \in 0 .. m + 1 /\ k + 1 # m + 1 /\ k # m + 1 /\ k \in 0 .. m + 1
          BY <3>2
        <4>2. g[k + 1] = Fec!Turn(g[k])
          BY <2>1, <4>1 DEF Turns
        <4> QED
          BY <4>1, <4>2
      <3> QED
        BY <3>1, <3>2
    <2>4. m + 1 - 1 = m /\ m + 1 \in Nat
      OBVIOUS
    <2> HIDE DEF h
    <2>5. Turns(x, m + 1, h)
      BY <2>2, <2>3, <2>4 DEF Turns
    <2> QED
      BY <2>4, <2>5
  <1> HIDE DEF S
  <1>3. n \in S
    BY <1>1, <1>2, Induct
  <1> QED
    BY <1>3 DEF S

(* Two approximations agree as far as both go.                             *)
LEMMA TurnsAgree ==
    ASSUME NEW x, NEW n \in Nat, NEW m \in Nat, NEW g, NEW h, Turns(x, n, g), Turns(x, m, h),
           NEW k \in Nat, k <= n, k <= m
    PROVE  g[k] = h[k]
  <1> DEFINE S == {i \in Nat : i <= n /\ i <= m => g[i] = h[i]}
  <1>1. 0 \in S
    BY DEF Turns
  <1>2. ASSUME NEW i \in Nat, i \in S PROVE i + 1 \in S
    <2> SUFFICES ASSUME i + 1 <= n, i + 1 <= m PROVE g[i + 1] = h[i + 1]
      OBVIOUS
    <2>1. g[i] = h[i]
      BY <1>2
    <2>2. i \in 0 .. n - 1 /\ i \in 0 .. m - 1
      OBVIOUS
    <2> QED
      BY <2>1, <2>2 DEF Turns
  <1> HIDE DEF S
  <1>3. k \in S
    BY <1>1, <1>2, Induct
  <1> QED
    BY <1>3 DEF S

Loop(x) == LET turns[k \in Nat] == IF k = 0 THEN x ELSE Fec!Turn(turns[k - 1]) IN turns

(* The loop takes one turn after the other.                                *)
LEMMA LoopRuns ==
    ASSUME NEW x
    PROVE  /\ Loop(x)[0] = x
           /\ \A k \in Nat : Loop(x)[k + 1] = Fec!Turn(Loop(x)[k])
  <1> DEFINE G(k) == CHOOSE g : Turns(x, k, g)
             f    == [k \in Nat |-> G(k)[k]]
             turns[k \in Nat] == IF k = 0 THEN x ELSE Fec!Turn(turns[k - 1])
  <1>1. \A k \in Nat : Turns(x, k, G(k))
    BY TurnsExist
  <1> HIDE DEF G
  <1>2. f[0] = x
    BY <1>1 DEF Turns
  <1>3. \A k \in Nat : f[k + 1] = Fec!Turn(f[k])
    <2> TAKE k \in Nat
    <2>1. k + 1 \in Nat /\ k \in 0 .. k + 1 - 1 /\ k <= k + 1
      OBVIOUS
    <2>2. G(k + 1)[k + 1] = Fec!Turn(G(k + 1)[k])
      BY <1>1, <2>1 DEF Turns
    <2>3. G(k + 1)[k] = G(k)[k]
      BY <1>1, <2>1, TurnsAgree
    <2> QED
      BY <2>1, <2>2, <2>3
  <1>4. f = [k \in Nat |-> IF k = 0 THEN x ELSE Fec!Turn(f[k - 1])]
    <2>1. \A k \in Nat : f[k] = IF k = 0 THEN x ELSE Fec!Turn(f[k - 1])
      <3> TAKE k \in Nat
      <3>1. CASE k = 0
        BY <1>2, <3>1
      <3>2. CASE k # 0
        <4>1. k - 1 \in Nat /\ k - 1 + 1 = k
          BY <3>2
        <4> HIDE DEF f
        <4> QED
          BY <1>3, <3>2, <4>1
      <3> QED
        BY <3>1, <3>2
    <2>2. f = [k \in Nat |-> f[k]]
      OBVIOUS
    <2> HIDE DEF f
    <2> QED
      BY <2>1, <2>2
  <1>5. turns = [k \in Nat |-> IF k = 0 THEN x ELSE Fec!Turn(turns[k - 1])]
    <2> HIDE DEF f
    <2> QED
      BY <1>4
  <1> HIDE DEF turns
  <1>6. turns[0] = x
    BY <1>5
  <1>7. \A k \in Nat : turns[k + 1] = Fec!Turn(turns[k])
    <2> TAKE k \in Nat
    <2>1. k + 1 \in Nat /\ k + 1 # 0 /\ k + 1 - 1 = k
      OBVIOUS
    <2>2. turns[k + 1] = IF k + 1 = 0 THEN x ELSE Fec!Turn(turns[k + 1 - 1])
      BY <1>5, <2>1
    <2> QED
      BY <2>1, <2>2
  <1>8. turns = Loop(x)
    BY Zenon DEF turns, Loop
  <1> QED
    BY <1>6, <1>7, <1>8

(* The decoder, given packets of the stream and repairs of its groups,     *)
(* keeps and emits nothing else.                                           *)
LEMMA RecoverAllKeeps ==
    ASSUME Len(sent) \in Nat, Len(sent) <= SeqSpace, NEW d, KeepsOriginals(d)
    PROVE  /\ KeepsOriginals(Fec!TryRecoverAll(d).st)
           /\ Fec!TryRecoverAll(d).out \in Seq(Originals)
  <1> DEFINE x == [d |-> d, i |-> Len(d.fec), out |-> <<>>]
             turns[k \in Nat] == IF k = 0 THEN x ELSE Fec!Turn(turns[k - 1])
  <1>1. turns[0] = x /\ \A k \in Nat : turns[k + 1] = Fec!Turn(turns[k])
    <2>1. turns = Loop(x)
      BY Zenon DEF Loop
    <2> HIDE DEF turns, x
    <2> QED
      BY <2>1, LoopRuns
  <1>2. Len(d.fec) \in Nat
    BY LenProperties DEF KeepsOriginals
  <1>3. Safe(x)
    <2>1. <<>> \in Seq(Originals)
      BY EmptySeq
    <2> QED
      BY <1>2, <2>1 DEF Safe, KeepsOriginals
  <1> DEFINE n == (Len(d.fec) + 1) * (Len(d.fec) + 1)
  <1>4. n \in Nat
    BY <1>2
  <1>5. Fec!TryRecoverAll(d) = [st |-> turns[n].d, out |-> turns[n].out, err |-> FALSE]
    BY DEF Fec!TryRecoverAll, Fec!Emit
  <1> HIDE DEF turns, x, n
  <1> DEFINE S == {k \in Nat : Safe(turns[k])}
  <1>6. 0 \in S
    BY <1>1, <1>3
  <1>7. \A k \in Nat : k \in S => k + 1 \in S
    BY <1>1, TurnKeeps
  <1> HIDE DEF S
  <1>8. n \in S
    BY <1>4, <1>6, <1>7, Induct
  <1>9. Safe(turns[n])
    BY <1>8 DEF S
  <1> QED
    BY <1>5, <1>9 DEF Safe, KeepsOriginals

(* A packet handed to the decoder: a media packet, a repair of a group, or *)
(* a repair that does not parse.                                           *)
LEMMA DecoderKeeps ==
    ASSUME Len(sent) \in Nat, Len(sent) <= SeqSpace, NEW d, KeepsOriginals(d), NEW pkt, NEW o,
           pkt.payload \in Givens \cup Repairs \/ pkt.payload = [fec |-> TRUE, mask |-> {}]
    PROVE  /\ KeepsOriginals(Fec!Depacketize(d, pkt, o).st)
           /\ Fec!Depacketize(d, pkt, o).out \in Seq(Originals)
  <1> DEFINE p == pkt.payload
  <1>1. /\ d = [media |-> d.media, fec |-> d.fec] /\ d.media \in Seq(Originals) /\ d.fec \in Seq(Repairs)
        /\ Distinct(d.media)
    BY DEF KeepsOriginals
  <1>2. WindowSize \in Nat \ {0} /\ MaxFec \in Nat \ {0}
    BY PathAssumption
  <1>3. CASE p \in Givens
    <2>1. PICK n \in Sent : p = Given(sent, n)
      BY <1>3 DEF Givens
    <2> DEFINE m == [fec |-> FALSE, seq |-> p.seq, ids |-> p.ids, len |-> p.len]
               q == Fec!Latest(Fec!Put(d.media, m), WindowSize)
    <2>2. m = Original(n) /\ ~ p.fec
      BY <2>1 DEF Given, Original, SeqNo
    <2>3. m \in Originals
      BY <2>2 DEF Originals
    <2> HIDE DEF m
    <2>4. Fec!Put(d.media, m) \in Seq(Originals) /\ Distinct(Fec!Put(d.media, m))
      BY <1>1, <2>3, PutKeeps
    <2>5. q \in Seq(Originals) /\ Distinct(q)
      BY <1>2, <2>4, LatestKeeps
    <2> HIDE DEF q
    <2>6. KeepsOriginals([d EXCEPT !.media = q])
      <3>1. [d EXCEPT !.media = q] = [media |-> q, fec |-> d.fec]
        BY <1>1
      <3> QED
        BY <1>1, <2>5, <3>1 DEF KeepsOriginals
    <2>7. Fec!Depacketize(d, pkt, o) = Fec!TryRecoverAll([d EXCEPT !.media = q])
      BY <2>2 DEF Fec!Depacketize, Fec!AddMediaPacket, q, m
    <2> QED
      BY <2>6, <2>7, RecoverAllKeeps
  <1>4. CASE p \in Repairs /\ p.mask # {}
    <2>1. PICK ab \in Sent \X Sent : p = Fec!Repair(Burst(sent, ab[1], ab[2]))
      BY <1>4 DEF Repairs
    <2>2. p.fec
      BY <2>1 DEF Fec!Repair
    <2> DEFINE q == Fec!Latest(Append(d.fec, p), MaxFec)
    <2>3. Append(d.fec, p) \in Seq(Repairs)
      BY <1>1, <1>4, AppendProperties
    <2>4. q \in Seq(Repairs)
      BY <1>2, <2>3, LatestKeeps
    <2> HIDE DEF q
    <2>5. KeepsOriginals([d EXCEPT !.fec = q])
      <3>1. [d EXCEPT !.fec = q] = [media |-> d.media, fec |-> q]
        BY <1>1
      <3> QED
        BY <1>1, <2>4, <3>1 DEF KeepsOriginals
    <2>6. Fec!Depacketize(d, pkt, o) = Fec!TryRecoverAll([d EXCEPT !.fec = q])
      BY <1>4, <2>2 DEF Fec!Depacketize, Fec!AddFecPacket, q
    <2> QED
      BY <2>5, <2>6, RecoverAllKeeps
  <1>5. CASE p.fec /\ p.mask = {}
    <2>1. Fec!Depacketize(d, pkt, o) = [st |-> d, out |-> <<>>, err |-> FALSE]
      BY <1>5 DEF Fec!Depacketize, Fec!AddFecPacket, Fec!Keep
    <2>2. <<>> \in Seq(Originals)
      BY EmptySeq
    <2> QED
      BY <2>1, <2>2
  <1>6. ASSUME p \in Repairs PROVE p.fec
    <2>1. PICK ab \in Sent \X Sent : p = Fec!Repair(Burst(sent, ab[1], ab[2]))
      BY <1>6 DEF Repairs
    <2> QED
      BY <2>1 DEF Fec!Repair
  <1> QED
    BY <1>3, <1>4, <1>5, <1>6

-----------------------------------------------------------------------------
(* A frame more in the stream leaves what was given before as it was.      *)
LEMMA StreamGrows ==
    ASSUME NEW chunk, sent \in Seq(Range(sent)), sent' = Append(sent, chunk)
    PROVE  /\ Len(sent) \in Nat /\ Len(sent') = Len(sent) + 1 /\ sent'[Len(sent) + 1] = chunk
           /\ sent' \in Seq(Range(sent')) /\ Sent \subseteq Sent'
           /\ \A n \in Sent : Given(sent', n) = Given(sent, n) /\ Original(n)' = Original(n)
           /\ \A a, b \in Sent : Burst(sent', a, b) = Burst(sent, a, b)
           /\ Originals \subseteq Originals' /\ Givens \subseteq Givens' /\ Repairs \subseteq Repairs'
  <1> DEFINE S == Range(sent) \cup {chunk}
  <1>1. sent \in Seq(S)
    BY SeqMonotonic
  <1>2. /\ Append(sent, chunk) \in Seq(S) /\ Len(Append(sent, chunk)) = Len(sent) + 1
        /\ \A i \in 1 .. Len(sent) : Append(sent, chunk)[i] = sent[i]
        /\ Append(sent, chunk)[Len(sent) + 1] = chunk
    <2> HIDE DEF S
    <2>1. chunk \in S
      BY DEF S
    <2> QED
      BY <1>1, <2>1, AppendProperties
  <1>3. Len(sent) \in Nat
    BY LenProperties
  <1>4. sent' \in Seq(Range(sent'))
    <2> HIDE DEF S
    <2>1. sent' \in Seq(S)
      BY <1>2
    <2>2. PICK q : q = sent'
      OBVIOUS
    <2>3. q \in Seq(Range(q))
      BY <2>1, <2>2, SeqOfRange
    <2> QED
      BY <2>2, <2>3
  <1>5. Sent \subseteq Sent' /\ \A n \in Sent : sent'[n] = sent[n]
    BY <1>2, <1>3 DEF Sent
  <1>6. \A n \in Sent : Given(sent', n) = Given(sent, n) /\ Original(n)' = Original(n)
    BY <1>5 DEF Given, Original, SeqNo
  <1>7. \A a, b \in Sent : Burst(sent', a, b) = Burst(sent, a, b)
    <2> TAKE a, b \in Sent
    <2>1. \A j \in 1 .. b - a + 1 : a + j - 1 \in Sent
      BY <1>3 DEF Sent
    <2> QED
      BY <1>6, <2>1 DEF Burst
  <1>8. Originals \subseteq Originals' /\ Givens \subseteq Givens'
    BY <1>5, <1>6 DEF Originals, Givens
  <1>9. Repairs \subseteq Repairs'
    <2> SUFFICES ASSUME NEW f \in Repairs PROVE f \in Repairs'
      OBVIOUS
    <2>1. PICK ab \in {p \in Sent \X Sent : p[1] <= p[2] /\ p[2] - p[1] < MaxMask} :
                f = Fec!Repair(Burst(sent, ab[1], ab[2]))
      BY DEF Repairs
    <2>2. f = Fec!Repair(Burst(sent', ab[1], ab[2]))
      BY <1>7, <2>1
    <2>3. ab \in {p \in (Sent \X Sent)' : p[1] <= p[2] /\ p[2] - p[1] < MaxMask}
      BY <1>5, <2>1
    <2> QED
      BY <2>2, <2>3 DEF Repairs
  <1> QED
    BY <1>2, <1>3, <1>4, <1>5, <1>6, <1>7, <1>8, <1>9

(* What the encoder makes of one more frame: its packet, and when a group  *)
(* is complete or the burst ends the repair of that group.                 *)
LEMMA EncoderKeeps ==
    ASSUME NEW chunk, codec = "flexfec", FecInv, sent' = Append(sent, chunk),
           NEW res, res = Fec!Packetize(pk, chunk)
    PROVE  /\ \E a \in 1 .. Len(sent) + 1 :
                  \E fs : \/ res.st = [seq |-> SeqNo(Len(sent) + 2), fecSeq |-> fs, group |-> <<>>]
                         \/ /\ res.st = [seq |-> SeqNo(Len(sent) + 2), fecSeq |-> fs,
                                         group |-> Burst(sent', a, Len(sent) + 1)]
                            /\ Len(sent) + 1 - a + 1 < GroupSize
           /\ res.pkts \in Seq(Range(res.pkts))
           /\ \A i \in DOMAIN res.pkts : res.pkts[i].payload \in Givens' \cup Repairs'
  <1> DEFINE N == Len(sent) + 1
             m == [fec |-> FALSE, seq |-> pk.seq, ts |-> Fec!UsToRtp(chunk.us), ids |-> chunk.ids, len |-> chunk.len]
  <1>1. /\ sent \in Seq(Range(sent))
        /\ pk = [seq |-> SeqNo(N), fecSeq |-> pk.fecSeq, group |-> pk.group]
        /\ \/ pk.group = <<>>
           \/ \E a \in Sent : Len(sent) - a + 1 < GroupSize /\ pk.group = Burst(sent, a, Len(sent))
    BY DEF FecInv
  <1>2. /\ Len(sent) \in Nat /\ Len(sent') = N /\ sent'[N] = chunk
        /\ \A a, b \in Sent : Burst(sent', a, b) = Burst(sent, a, b)
        /\ \A n \in Sent : Given(sent', n) = Given(sent, n)
    BY <1>1, StreamGrows
  <1>3. m = Given(sent', N) /\ m \in Givens' /\ N \in Sent'
    <2>1. N \in Sent'
      BY <1>2 DEF Sent
    <2>2. pk.seq = SeqNo(N)
      BY <1>1
    <2>3. m = Given(sent', N)
      BY <1>2, <2>2 DEF Given, SeqNo
    <2> HIDE DEF m, N
    <2> QED
      BY <2>1, <2>3 DEF Givens
  <1>4. PICK a \in 1 .. N : Append(pk.group, m) = Burst(sent', a, N) /\ N - a < GroupSize
    <2>1. CASE pk.group = <<>>
      <3>1. Append(pk.group, m) = [j \in 1 .. 1 |-> m]
        <4> HIDE DEF m, N
        <4>1. Append(<<>>, m) = <<m>>
          OBVIOUS
        <4>2. <<m>> = [j \in 1 .. 1 |-> m]
          OBVIOUS
        <4> QED
          BY <2>1, <4>1, <4>2
      <3>2. Burst(sent', N, N) = [j \in 1 .. 1 |-> m]
        <4>1. N - N + 1 = 1 /\ N + 1 - 1 = N
          BY <1>2
        <4>2. Burst(sent', N, N) = [j \in 1 .. N - N + 1 |-> Given(sent', N + j - 1)]
          BY DEF Burst
        <4>3. \A j \in 1 .. 1 : Given(sent', N + j - 1) = m
          <5> TAKE j \in 1 .. 1
          <5>1. N + j - 1 = N
            BY <1>2
          <5> HIDE DEF m, N
          <5> QED
            BY <1>3, <5>1
        <4> HIDE DEF m, N
        <4> QED
          BY <4>1, <4>2, <4>3
      <3>3. N \in 1 .. N /\ N - N < GroupSize
        BY <1>2, PathAssumption
      <3> HIDE DEF m, N
      <3> QED
        BY <3>1, <3>2, <3>3
    <2>2. CASE \E b \in Sent : Len(sent) - b + 1 < GroupSize /\ pk.group = Burst(sent, b, Len(sent))
      <3>1. PICK b \in Sent : Len(sent) - b + 1 < GroupSize /\ pk.group = Burst(sent, b, Len(sent))
        BY <2>2
      <3>2. b \in 1 .. Len(sent) /\ Len(sent) \in Sent
        BY <1>2, <3>1 DEF Sent
      <3>3. PICK l \in Nat : l = Len(sent) - b + 1
        BY <1>2, <3>2
      <3>4. pk.group = [j \in 1 .. l |-> Given(sent', b + j - 1)]
        <4>1. \A j \in 1 .. l : b + j - 1 \in Sent
          BY <1>2, <3>2, <3>3 DEF Sent
        <4>2. pk.group = [j \in 1 .. l |-> Given(sent, b + j - 1)]
          BY <3>1, <3>3 DEF Burst
        <4> QED
          BY <1>2, <4>1, <4>2
      <3>5. Append(pk.group, m) = [j \in 1 .. l + 1 |-> IF j = l + 1 THEN m ELSE Given(sent', b + j - 1)]
        <4> DEFINE g == [j \in 1 .. l |-> Given(sent', b + j - 1)]
                   T == {m} \cup {g[j] : j \in 1 .. l}
        <4>1. g \in [1 .. l -> T]
          OBVIOUS
        <4>2. g \in Seq(T)
          <5> HIDE DEF g, T
          <5> QED
            BY <3>3, <4>1, SeqDef
        <4>3. Len(g) = l
          <5>1. DOMAIN g = 1 .. l
            OBVIOUS
          <5>2. DOMAIN g = 1 .. Len(g) /\ Len(g) \in Nat
            <6> HIDE DEF g, T
            <6> QED
              BY <4>2, LenProperties
          <5> HIDE DEF g, T
          <5> QED
            BY <3>3, <5>1, <5>2
        <4>4. /\ Append(g, m) \in Seq(T) /\ Len(Append(g, m)) = l + 1
              /\ \A i \in 1 .. l : Append(g, m)[i] = g[i]
              /\ Append(g, m)[l + 1] = m
          <5>1. m \in T
            OBVIOUS
          <5> HIDE DEF g, T, m
          <5> QED
            BY <4>2, <4>3, <5>1, AppendProperties
        <4>5. Append(g, m) = [j \in 1 .. l + 1 |-> Append(g, m)[j]]
          <5> HIDE DEF g, T, m
          <5> QED
            BY <4>4, LenProperties
        <4>6. \A j \in 1 .. l + 1 : Append(g, m)[j] = IF j = l + 1 THEN m ELSE Given(sent', b + j - 1)
          <5> TAKE j \in 1 .. l + 1
          <5>1. CASE j = l + 1
            <6> HIDE DEF g, m
            <6> QED
              BY <4>4, <5>1
          <5>2. CASE j # l + 1
            <6>1. j \in 1 .. l
              BY <3>3, <5>2
            <6>2. g[j] = Given(sent', b + j - 1)
              BY <6>1
            <6> HIDE DEF g, m
            <6> QED
              BY <4>4, <5>2, <6>1, <6>2
          <5> QED
            BY <5>1, <5>2
        <4>7. pk.group = g
          BY <3>4
        <4> HIDE DEF g, m
        <4> QED
          BY <4>5, <4>6, <4>7
      <3>6. N - b + 1 = l + 1 /\ b + (l + 1) - 1 = N /\ b \in 1 .. N /\ N - b < GroupSize
        BY <1>2, <3>1, <3>2, <3>3
      <3>7. Burst(sent', b, N) = [j \in 1 .. l + 1 |-> Given(sent', b + j - 1)]
        <4> HIDE DEF N
        <4> QED
          BY <3>6 DEF Burst
      <3>8. \A j \in 1 .. l + 1 : (IF j = l + 1 THEN m ELSE Given(sent', b + j - 1)) = Given(sent', b + j - 1)
        <4> HIDE DEF m, N
        <4> QED
          BY <1>3, <3>6
      <3> HIDE DEF m, N
      <3> QED
        BY <3>5, <3>6, <3>7, <3>8
    <2> QED
      BY <1>1, <2>1, <2>2
  <1> DEFINE G == Append(pk.group, m)
  <1>5. Len(G) = N - a + 1 /\ G # <<>>
    <2> DEFINE T == {Given(sent', a + j - 1) : j \in 1 .. N - a + 1}
    <2>1. G = [j \in 1 .. N - a + 1 |-> Given(sent', a + j - 1)]
      <3> HIDE DEF G, N
      <3> QED
        BY <1>4 DEF Burst, G
    <2>2. PICK l \in Nat : l = N - a + 1
      <3>1. N \in Int
        BY <1>2
      <3> HIDE DEF N, G, T, m
      <3> QED
        BY <3>1
    <2>3. G \in [1 .. l -> T] /\ l # 0
      <3>1. l # 0
        BY <1>2, <1>4, <2>2
      <3> HIDE DEF G, N
      <3> QED
        BY <2>1, <2>2, <3>1
    <2> HIDE DEF G, N, T
    <2>4. G \in Seq(T) /\ DOMAIN G = 1 .. l
      BY <2>2, <2>3, SeqDef
    <2>5. DOMAIN G = 1 .. Len(G) /\ Len(G) \in Nat
      BY <2>4, LenProperties
    <2>6. Len(G) = l
      BY <2>4, <2>5
    <2> QED
      BY <2>2, <2>3, <2>6, EmptySeq
  <1>6. Fec!Repair(G) \in Repairs'
    <2>1. a \in Sent' /\ a <= N /\ N - a < MaxMask
      BY <1>2, <1>4, PathAssumption DEF Sent
    <2>2. <<a, N>> \in {p \in (Sent \X Sent)' : p[1] <= p[2] /\ p[2] - p[1] < MaxMask}
      <3> HIDE DEF N
      <3> QED
        BY <1>3, <2>1
    <2>3. Fec!Repair(G) = Fec!Repair(Burst(sent', a, N))
      BY <1>4
    <2> HIDE DEF G, N
    <2>4. \E ab \in {p \in (Sent \X Sent)' : p[1] <= p[2] /\ p[2] - p[1] < MaxMask} :
              Fec!Repair(G) = Fec!Repair(Burst(sent', ab[1], ab[2]))
      BY <2>2, <2>3
    <2> QED
      BY <2>4 DEF Repairs
  <1> DEFINE next == SeqNo(N + 1)
             P0   == Fec!MakePacket(pk.seq, m, Fec!UsToRtp(chunk.us), FALSE)
             R    == Fec!MakePacket(pk.fecSeq, Fec!Repair(G), G[Len(G)].ts, FALSE)
             full == [seq |-> next, fecSeq |-> pk.fecSeq, group |-> G]
             done == [seq |-> next, fecSeq |-> Fec!NextSeq(pk.fecSeq), group |-> <<>>]
  <1>7. \/ res.st = done /\ res.pkts = <<P0>> \o <<R>> \o <<>>
        \/ res.st = done /\ res.pkts = <<P0>> \o <<>> \o <<R>>
        \/ res.st = full /\ res.pkts = <<P0>> \o <<>> \o <<>> /\ N - a + 1 < GroupSize
    <2> DEFINE s == [pk EXCEPT !.seq = Fec!NextSeq(pk.seq)]
    <2>1. s = [seq |-> next, fecSeq |-> pk.fecSeq, group |-> pk.group]
      <3>1. Fec!NextSeq(SeqNo(N)) = next
        BY <1>2, SeqNos
      <3> HIDE DEF next, N
      <3> QED
        BY <1>1, <3>1
    <2> HIDE DEF m, P0, next, N
    <2>2. [s EXCEPT !.group = Append(s.group, m)] = full
      <3> HIDE DEF s
      <3>1. s.group = pk.group
        BY <2>1
      <3>2. PICK g : g = Append(s.group, m)
        OBVIOUS
      <3>3. PICK y : y = [s EXCEPT !.group = g]
        OBVIOUS
      <3>4. y = [seq |-> next, fecSeq |-> pk.fecSeq, group |-> g]
        BY <2>1, <3>3
      <3> QED
        BY <3>1, <3>2, <3>3, <3>4
    <2>3. Fec!BuildFec(full) = [st |-> done, pkts |-> <<R>>]
      <3>1. full.group = G /\ full.fecSeq = pk.fecSeq
        OBVIOUS
      <3>2. [full EXCEPT !.group = <<>>, !.fecSeq = Fec!NextSeq(full.fecSeq)] = done
        <4> HIDE DEF G, R
        <4>1. PICK y : y = [full EXCEPT !.group = <<>>]
          OBVIOUS
        <4>2. y = [seq |-> next, fecSeq |-> pk.fecSeq, group |-> <<>>]
          BY <4>1
        <4>3. PICK q : q = Fec!NextSeq(full.fecSeq)
          OBVIOUS
        <4>4. PICK z : z = [y EXCEPT !.fecSeq = q]
          OBVIOUS
        <4>5. z = [seq |-> next, fecSeq |-> q, group |-> <<>>]
          BY <4>2, <4>4
        <4>6. q = Fec!NextSeq(pk.fecSeq)
          BY <3>1, <4>3
        <4> HIDE DEF full
        <4> QED
          BY <4>1, <4>3, <4>4, <4>5, <4>6
      <3> HIDE DEF G, full, done
      <3> QED
        BY <3>1, <3>2 DEF Fec!BuildFec
    <2>4. Fec!Protect(s, m) = IF Len(G) >= GroupSize THEN Fec!BuildFec(full) ELSE [st |-> full, pkts |-> <<>>]
      <3> HIDE DEF s
      <3>1. full.group = G
        OBVIOUS
      <3> HIDE DEF full, G
      <3> QED
        BY <2>2, <3>1 DEF Fec!Protect
    <2>5. Fec!Flush(done) = [st |-> done, pkts |-> <<>>]
      BY DEF Fec!Flush
    <2>6. Fec!Flush(full) = [st |-> done, pkts |-> <<R>>]
      <3>1. full.group = G
        OBVIOUS
      <3> HIDE DEF full, G, R, done
      <3> QED
        BY <1>5, <2>3, <3>1 DEF Fec!Flush
    <2> DEFINE after == Fec!Protect(s, m)
               rest  == IF chunk.last THEN Fec!Flush(after.st) ELSE [st |-> after.st, pkts |-> <<>>]
    <2>7. res.st = rest.st /\ res.pkts = <<P0>> \o after.pkts \o rest.pkts
      BY DEF Fec!Packetize, P0, m
    <2> HIDE DEF s, full, done, G, R
    <2>8. CASE Len(G) >= GroupSize
      <3>1. after = [st |-> done, pkts |-> <<R>>]
        BY <2>3, <2>4, <2>8
      <3> HIDE DEF after
      <3>2. rest = [st |-> done, pkts |-> <<>>]
        BY <2>5, <3>1
      <3> HIDE DEF rest
      <3> QED
        BY <2>7, <3>1, <3>2
    <2>9. CASE ~ (Len(G) >= GroupSize)
      <3>1. after = [st |-> full, pkts |-> <<>>]
        BY <2>4, <2>9
      <3> HIDE DEF after
      <3>2. rest = [st |-> done, pkts |-> <<R>>] \/ rest = [st |-> full, pkts |-> <<>>]
        BY <2>6, <3>1
      <3>3. N - a + 1 < GroupSize
        BY <1>2, <1>4, <1>5, <2>9, PathAssumption DEF N
      <3> HIDE DEF rest, N
      <3>4. CASE rest = [st |-> done, pkts |-> <<R>>]
        BY <2>7, <3>1, <3>4
      <3>5. CASE rest = [st |-> full, pkts |-> <<>>]
        BY <2>7, <3>1, <3>3, <3>5
      <3> QED
        BY <3>2, <3>4, <3>5
    <2> QED
      BY <2>8, <2>9
  <1>8. /\ res.pkts \in Seq({P0, R})
        /\ P0.payload = m /\ R.payload = Fec!Repair(G)
    <2>1. P0.payload = m /\ R.payload = Fec!Repair(G)
      BY DEF Fec!MakePacket
    <2> HIDE DEF P0, R, G, m, done, full
    <2>2. <<P0>> \in Seq({P0, R}) /\ <<R>> \in Seq({P0, R}) /\ <<>> \in Seq({P0, R})
      BY EmptySeq
    <2>3. \A s, t \in Seq({P0, R}) : s \o t \in Seq({P0, R})
      BY ConcatProperties
    <2>4. res.pkts \in Seq({P0, R})
      BY <1>7, <2>2, <2>3
    <2> QED
      BY <2>1, <2>4
  <1>9. res.pkts \in Seq(Range(res.pkts))
    BY <1>8, SeqOfRange
  <1>10. \A i \in DOMAIN res.pkts : res.pkts[i].payload \in Givens' \cup Repairs'
    <2> HIDE DEF P0, R, G, m
    <2>1. \A i \in DOMAIN res.pkts : res.pkts[i] \in {P0, R}
      BY <1>8, LenProperties, ElementOfSeq
    <2> QED
      BY <1>3, <1>6, <1>8, <2>1
  <1>11. next = SeqNo(Len(sent) + 2)
    <2>1. N + 1 = Len(sent) + 2
      BY <1>2
    <2> HIDE DEF N
    <2> QED
      BY <2>1
  <1> HIDE DEF P0, R, m
  <1>12. CASE res.st = done
    BY <1>9, <1>10, <1>11, <1>12
  <1>13. CASE res.st = full /\ N - a + 1 < GroupSize
    <2>1. G = Burst(sent', a, N)
      BY <1>4
    <2>2. res.st = [seq |-> next, fecSeq |-> pk.fecSeq, group |-> G]
      BY <1>13
    <2> HIDE DEF next, G, done, full
    <2>3. a \in 1 .. Len(sent) + 1 /\ Len(sent) + 1 - a + 1 < GroupSize
      BY <1>13
    <2>4. res.st = [seq |-> SeqNo(Len(sent) + 2), fecSeq |-> pk.fecSeq, group |-> Burst(sent', a, Len(sent) + 1)]
      BY <1>11, <2>1, <2>2
    <2> HIDE DEF N
    <2>5. \E fs : res.st = [seq |-> SeqNo(Len(sent) + 2), fecSeq |-> fs, group |-> Burst(sent', a, Len(sent) + 1)]
      BY <2>4
    <2> QED
      BY <1>9, <1>10, <2>3, <2>5
  <1> QED
    BY <1>7, <1>12, <1>13

-----------------------------------------------------------------------------
(* The invariant through every step.  First, which codec the path runs.    *)
LEMMA Dispatch ==
    ASSUME codec = "flexfec"
    PROVE  /\ Packetizer = Fec!Encoder(StartSeq) /\ Depacketizer = Fec!Decoder
           /\ \A s, c : Packetize(s, c) = Fec!Packetize(s, c)
           /\ \A d, p : Depacketize(d, p) = Fec!Depacketize(d, p, open)
           /\ Runts = {[fec |-> TRUE, mask |-> {}]}
  <1>1. Packetizer = Fec!Encoder(StartSeq)
    BY DEF Packetizer
  <1>2. Depacketizer = Fec!Decoder
    BY DEF Depacketizer
  <1>3. \A s, c : Packetize(s, c) = Fec!Packetize(s, c)
    BY DEF Packetize
  <1>4. \A d, p : Depacketize(d, p) = Fec!Depacketize(d, p, open)
    BY DEF Depacketize
  <1>5. Runts = {[fec |-> TRUE, mask |-> {}]}
    BY DEF Runts
  <1> QED
    BY <1>1, <1>2, <1>3, <1>4, <1>5

(* While no frame is sent, nothing said of the stream changes.             *)
LEMMA SameStream ==
    ASSUME sent' = sent
    PROVE  /\ Originals' = Originals /\ Givens' = Givens /\ Repairs' = Repairs /\ Sent' = Sent
           /\ \A a, b : Burst(sent', a, b) = Burst(sent, a, b)
           /\ \A r : Carried(r)' <=> Carried(r)
           /\ \A d : KeepsOriginals(d)' <=> KeepsOriginals(d)
  <1>1. Sent' = Sent
    BY DEF Sent
  <1>2. \A n : Original(n)' = Original(n) /\ Given(sent', n) = Given(sent, n)
    BY DEF Original, Given
  <1>3. \A a, b : Burst(sent', a, b) = Burst(sent, a, b)
    BY <1>2 DEF Burst
  <1>4. Originals' = Originals /\ Givens' = Givens
    BY <1>1, <1>2 DEF Originals, Givens
  <1>5. Repairs' = Repairs
    BY <1>1, <1>3 DEF Repairs
  <1>6. \A r : Carried(r)' <=> Carried(r)
    BY <1>4, <1>5 DEF Carried
  <1>7. \A d : KeepsOriginals(d)' <=> KeepsOriginals(d)
    BY <1>4, <1>5 DEF KeepsOriginals
  <1> QED
    BY <1>1, <1>3, <1>4, <1>5, <1>6, <1>7

(* A fresh decoder.                                                        *)
LEMMA DecoderStarts == KeepsOriginals(Fec!Decoder)
  <1>1. <<>> \in Seq(Originals) /\ <<>> \in Seq(Repairs) /\ Len(<<>>) = 0
    BY EmptySeq
  <1>2. DOMAIN <<>> = 1 .. 0
    BY <1>1, LenProperties
  <1> QED
    BY <1>1, <1>2 DEF KeepsOriginals, Distinct, Fec!Decoder

(* A sequence over S is one over what is in it, all of S.                  *)
LEMMA InRange ==
    ASSUME NEW S, NEW q \in Seq(S)
    PROVE  q \in Seq(Range(q)) /\ \A i \in DOMAIN q : q[i] \in S
  <1>1. q \in Seq(Range(q))
    BY SeqOfRange
  <1>2. \A i \in DOMAIN q : q[i] \in S
    BY LenProperties, ElementOfSeq
  <1> QED
    BY <1>1, <1>2

(* A stream no longer than the sequence space, so that no repair packet is *)
(* kept into another cycle of its numbers (flexfec.js:230).                *)
FecBound == MaxFrames["flexfec"] \in 0 .. SeqSpace

(* Nothing sent yet.                                                       *)
LEMMA FecInit ==
    ASSUME FecBound
    PROVE  Init => FecInv
  <1> SUFFICES ASSUME Init, codec = "flexfec" PROVE FecInv
    BY DEF FecInv
  <1>1. sent = <<>> /\ net = <<>> /\ out = <<>> /\ pk = Fec!Encoder(StartSeq) /\ dp = Fec!Decoder
    BY Dispatch DEF Init
  <1>2. <<>> \in Seq(Range(<<>>)) /\ <<>> \in Seq(Originals) /\ Len(<<>>) = 0
    BY EmptySeq
  <1>3. DOMAIN <<>> = 1 .. 0
    BY <1>2, LenProperties
  <1>4. sent \in Seq(Range(sent)) /\ Len(sent) = 0 /\ net \in Seq(Range(net)) /\ out \in Seq(Originals)
    BY <1>1, <1>2
  <1>5. pk = [seq |-> SeqNo(0 + 1), fecSeq |-> pk.fecSeq, group |-> pk.group] /\ pk.group = <<>>
    <2>1. SeqNo(0 + 1) = StartSeq
      BY SeqNos
    <2> QED
      BY <1>1, <2>1 DEF Fec!Encoder
  <1>6. \A i \in DOMAIN net : Carried(net[i])
    BY <1>1, <1>3
  <1>7. KeepsOriginals(dp)
    BY <1>1, DecoderStarts
  <1>8. Len(sent) <= MaxFrames[codec]
    BY <1>4 DEF FecBound
  <1> QED
    BY <1>4, <1>5, <1>6, <1>7, <1>8 DEF FecInv

(* One more frame: its packet joins the network, and maybe a repair.       *)
LEMMA FecEncode ==
    ASSUME FecBound, FecInv, codec = "flexfec", Encode
    PROVE  FecInv'
  <1>1. PICK chunk : \E res : \E new :
            /\ res = Fec!Packetize(pk, chunk)
            /\ DOMAIN new = DOMAIN res.pkts
            /\ \A i \in DOMAIN new : "pkt" \in DOMAIN new[i] /\ new[i].pkt = res.pkts[i]
            /\ new = [i \in DOMAIN new |-> new[i]]
            /\ Len(sent) + 1 <= MaxFrames[codec]
            /\ pk' = res.st /\ sent' = Append(sent, chunk) /\ net' = net \o new
            /\ UNCHANGED <<codec, dp, out>>
    <2>1. PICK shape \in Shapes[codec] :
            LET n     == Len(sent) + 1
                chunk == Chunk(n, shape)
                res   == Packetize(pk, chunk)
                frame(i) == IF codec = "flexfec" /\ i > 1 THEN -n ELSE n
            IN  /\ n <= MaxFrames[codec]
                /\ pk' = res.st
                /\ sent' = Append(sent, chunk)
                /\ net' = net \o [i \in DOMAIN res.pkts |-> [f |-> frame(i), at |-> posted + i, dup |-> FALSE,
                                                    pkt |-> res.pkts[i]]]
                /\ UNCHANGED <<codec, dp, out>>
      BY Zenon DEF Encode
    <2> DEFINE chunk == Chunk(Len(sent) + 1, shape)
               res   == Packetize(pk, chunk)
               n     == Len(sent) + 1
               new   == [i \in DOMAIN res.pkts |->
                            [f |-> IF codec = "flexfec" /\ i > 1 THEN -n ELSE n, at |-> posted + i, dup |-> FALSE,
                             pkt |-> res.pkts[i]]]
    <2>2. res = Fec!Packetize(pk, chunk)
      BY Dispatch
    <2> HIDE DEF chunk
    <2>3. /\ DOMAIN new = DOMAIN res.pkts
          /\ \A i \in DOMAIN new : "pkt" \in DOMAIN new[i] /\ new[i].pkt = res.pkts[i]
          /\ new = [i \in DOMAIN new |-> new[i]]
      <3> HIDE DEF res, n
      <3> QED
        OBVIOUS
    <2>4. /\ n <= MaxFrames[codec] /\ pk' = res.st /\ sent' = Append(sent, chunk) /\ net' = net \o new
          /\ UNCHANGED <<codec, dp, out>>
      BY <2>1 DEF chunk
    <2> HIDE DEF res, new
    <2> QED
      BY <2>2, <2>3, <2>4
  <1>2. PICK res : \E new :
            /\ res = Fec!Packetize(pk, chunk)
            /\ DOMAIN new = DOMAIN res.pkts
            /\ \A i \in DOMAIN new : "pkt" \in DOMAIN new[i] /\ new[i].pkt = res.pkts[i]
            /\ new = [i \in DOMAIN new |-> new[i]]
            /\ Len(sent) + 1 <= MaxFrames[codec]
            /\ pk' = res.st /\ sent' = Append(sent, chunk) /\ net' = net \o new
            /\ UNCHANGED <<codec, dp, out>>
    BY <1>1
  <1>3. PICK new :
            /\ DOMAIN new = DOMAIN res.pkts
            /\ \A i \in DOMAIN new : "pkt" \in DOMAIN new[i] /\ new[i].pkt = res.pkts[i]
            /\ new = [i \in DOMAIN new |-> new[i]]
            /\ Len(sent) + 1 <= MaxFrames[codec]
            /\ pk' = res.st /\ sent' = Append(sent, chunk) /\ net' = net \o new
            /\ UNCHANGED <<codec, dp, out>>
    BY <1>2
  <1>4. sent \in Seq(Range(sent)) /\ net \in Seq(Range(net)) /\ (\A i \in DOMAIN net : Carried(net[i]))
        /\ KeepsOriginals(dp) /\ out \in Seq(Originals)
    BY DEF FecInv
  <1>5. /\ Len(sent) \in Nat /\ Len(sent') = Len(sent) + 1
        /\ sent' \in Seq(Range(sent')) /\ Sent \subseteq Sent'
        /\ Originals \subseteq Originals' /\ Givens \subseteq Givens' /\ Repairs \subseteq Repairs'
    BY <1>3, <1>4, StreamGrows
  <1>6. /\ \E a \in 1 .. Len(sent) + 1 :
                  \E fs : \/ res.st = [seq |-> SeqNo(Len(sent) + 2), fecSeq |-> fs, group |-> <<>>]
                         \/ /\ res.st = [seq |-> SeqNo(Len(sent) + 2), fecSeq |-> fs,
                                         group |-> Burst(sent', a, Len(sent) + 1)]
                            /\ Len(sent) + 1 - a + 1 < GroupSize
        /\ res.pkts \in Seq(Range(res.pkts))
        /\ \A i \in DOMAIN res.pkts : res.pkts[i].payload \in Givens' \cup Repairs'
    BY <1>2, <1>3, EncoderKeeps
  <1>7. (net \in Seq(Range(net)) /\ \A i \in DOMAIN net : Carried(net[i]))'
    <2> DEFINE T == {new[i] : i \in DOMAIN new}
               S == Range(net) \cup T
    <2>1. \A r \in T : Carried(r)'
      BY <1>3, <1>6 DEF Carried
    <2>2. \A r \in Range(net) : Carried(r)'
      BY <1>4, <1>5 DEF Range, Carried
    <2>3. new \in Seq(T)
      <3>1. PICK l \in Nat : DOMAIN new = 1 .. l
        BY <1>3, <1>6, LenProperties
      <3>2. new \in [1 .. l -> T]
        BY <1>3, <3>1
      <3> HIDE DEF T
      <3> QED
        BY <3>1, <3>2, SeqDef
    <2> HIDE DEF T
    <2>4. net \in Seq(S) /\ new \in Seq(S)
      BY <1>4, <2>3, SeqMonotonic
    <2>5. \A r \in S : Carried(r)'
      BY <2>1, <2>2
    <2> HIDE DEF S
    <2>6. net \o new \in Seq(S)
      BY <2>4, ConcatProperties
    <2>7. PICK q : q = net \o new
      OBVIOUS
    <2>8. q \in Seq(Range(q)) /\ \A i \in DOMAIN q : q[i] \in S
      BY <2>6, <2>7, InRange
    <2>9. net' = q
      BY <1>3, <2>7
    <2> QED
      BY <2>5, <2>8, <2>9
  <1>8. KeepsOriginals(dp)' /\ out' \in Seq(Originals')
    <2>1. dp' = dp /\ out' = out
      BY <1>3
    <2>2. out \in Seq(Originals')
      BY <1>4, <1>5, SeqMonotonic
    <2>3. dp.media \in Seq(Originals') /\ dp.fec \in Seq(Repairs')
      <3>1. dp.media \in Seq(Originals) /\ dp.fec \in Seq(Repairs)
        BY <1>4 DEF KeepsOriginals
      <3> QED
        BY <1>5, <3>1, SeqMonotonic
    <2> QED
      BY <1>4, <2>1, <2>2, <2>3 DEF KeepsOriginals
  <1>9. (/\ pk = [seq |-> SeqNo(Len(sent) + 1), fecSeq |-> pk.fecSeq, group |-> pk.group]
         /\ \/ pk.group = <<>>
            \/ \E a \in Sent : Len(sent) - a + 1 < GroupSize /\ pk.group = Burst(sent, a, Len(sent)))'
    <2>1. PICK a \in 1 .. Len(sent) + 1 :
              \E fs : \/ res.st = [seq |-> SeqNo(Len(sent) + 2), fecSeq |-> fs, group |-> <<>>]
                     \/ /\ res.st = [seq |-> SeqNo(Len(sent) + 2), fecSeq |-> fs,
                                     group |-> Burst(sent', a, Len(sent) + 1)]
                        /\ Len(sent) + 1 - a + 1 < GroupSize
      BY <1>6
    <2>2. PICK fs : \/ res.st = [seq |-> SeqNo(Len(sent) + 2), fecSeq |-> fs, group |-> <<>>]
                    \/ /\ res.st = [seq |-> SeqNo(Len(sent) + 2), fecSeq |-> fs,
                                    group |-> Burst(sent', a, Len(sent) + 1)]
                       /\ Len(sent) + 1 - a + 1 < GroupSize
      BY <2>1
    <2>3. Len(sent') + 1 = Len(sent) + 2 /\ a \in Sent'
      BY <1>5 DEF Sent
    <2>4. SeqNo(Len(sent') + 1) = SeqNo(Len(sent) + 2)
      BY <2>3
    <2>5. pk' = res.st
      BY <1>3
    <2> QED
      BY <1>5, <2>2, <2>3, <2>4, <2>5
  <1>10. (Len(sent) <= MaxFrames[codec])'
    BY <1>3, <1>5
  <1> QED
    BY <1>5, <1>7, <1>8, <1>9, <1>10 DEF FecInv, SeqNo

(* A packet that reaches the decoder, from the network or astray.          *)
LEMMA FecTake ==
    ASSUME FecBound, FecInv, codec = "flexfec", sent' = sent, NEW pkt, Take(Depacketize(dp, pkt)),
           pkt.payload \in Givens \cup Repairs \/ pkt.payload = [fec |-> TRUE, mask |-> {}]
    PROVE  KeepsOriginals(dp)' /\ out' \in Seq(Originals')
  <1> DEFINE res == Fec!Depacketize(dp, pkt, open)
  <1>1. dp' = res.st /\ out' = out \o res.out
    BY Dispatch DEF Take
  <1>2. Len(sent) \in Nat /\ Len(sent) <= SeqSpace /\ KeepsOriginals(dp) /\ out \in Seq(Originals)
    <2>1. sent \in Seq(Range(sent)) /\ Len(sent) <= MaxFrames["flexfec"]
      BY DEF FecInv
    <2>2. Len(sent) \in Nat
      BY <2>1, LenProperties
    <2> QED
      BY <2>1, <2>2, RtpAssumption DEF FecInv, FecBound
  <1>3. KeepsOriginals(res.st) /\ res.out \in Seq(Originals)
    BY <1>2, DecoderKeeps
  <1> HIDE DEF res
  <1>4. out \o res.out \in Seq(Originals)
    BY <1>2, <1>3, ConcatProperties
  <1>5. Originals' = Originals /\ Repairs' = Repairs
    BY SameStream
  <1>6. KeepsOriginals(dp)'
    BY <1>1, <1>3, <1>5 DEF KeepsOriginals
  <1> QED
    BY <1>1, <1>4, <1>5, <1>6

(* The rest of the invariant, in a step of the network or the decoder.     *)
LEMMA FecAside ==
    ASSUME FecInv, codec = "flexfec", UNCHANGED <<codec, pk, sent>>,
           NEW S, net' \in Seq(S), \A r \in S : Carried(r),
           KeepsOriginals(dp)', out' \in Seq(Originals')
    PROVE  FecInv'
  <1>1. net' \in Seq(Range(net')) /\ \A i \in DOMAIN net' : net'[i] \in S
    <2>1. PICK q : q = net'
      OBVIOUS
    <2>2. q \in Seq(Range(q)) /\ \A i \in DOMAIN q : q[i] \in S
      BY <2>1, InRange
    <2> QED
      BY <2>1, <2>2
  <1>2. (\A i \in DOMAIN net : Carried(net[i]))'
    <2>1. \A i \in DOMAIN net' : Carried(net'[i])
      BY <1>1
    <2>2. (Givens \cup Repairs)' = Givens \cup Repairs
      BY SameStream
    <2> QED
      BY <2>1, <2>2 DEF Carried
  <1>3. /\ sent \in Seq(Range(sent)) /\ Len(sent) <= MaxFrames[codec]
        /\ pk = [seq |-> SeqNo(Len(sent) + 1), fecSeq |-> pk.fecSeq, group |-> pk.group]
        /\ \/ pk.group = <<>>
           \/ \E a \in Sent : Len(sent) - a + 1 < GroupSize /\ pk.group = Burst(sent, a, Len(sent))
    BY DEF FecInv
  <1>4. (sent \in Seq(Range(sent)) /\ Len(sent) <= MaxFrames[codec])'
    BY <1>3
  <1>5. (pk = [seq |-> SeqNo(Len(sent) + 1), fecSeq |-> pk.fecSeq, group |-> pk.group])'
    BY <1>3 DEF SeqNo
  <1>6. (\/ pk.group = <<>>
         \/ \E a \in Sent : Len(sent) - a + 1 < GroupSize /\ pk.group = Burst(sent, a, Len(sent)))'
    <2>1. CASE pk.group = <<>>
      BY <2>1
    <2>2. CASE \E a \in Sent : Len(sent) - a + 1 < GroupSize /\ pk.group = Burst(sent, a, Len(sent))
      <3>1. PICK a \in Sent : Len(sent) - a + 1 < GroupSize /\ pk.group = Burst(sent, a, Len(sent))
        BY <2>2
      <3>2. a \in Sent' /\ (pk.group = Burst(sent, a, Len(sent)))'
        BY <3>1, SameStream DEF Burst, Given, SeqNo
      <3> QED
        BY <3>1, <3>2
    <2> QED
      BY <1>3, <2>1, <2>2
  <1> QED
    BY <1>1, <1>2, <1>4, <1>5, <1>6, Zenon DEF FecInv

(* Every step.                                                             *)
LEMMA FecStep ==
    ASSUME FecBound, FecInv, [Next]_pathVars
    PROVE  FecInv'
  <1>1. CASE UNCHANGED pathVars /\ codec = "flexfec"
    <2>1. UNCHANGED <<codec, pk, sent, net, dp, out>>
      BY <1>1 DEF pathVars
    <2>2. net \in Seq(Range(net)) /\ (\A r \in Range(net) : Carried(r)) /\ KeepsOriginals(dp) /\ out \in Seq(Originals)
      BY <1>1 DEF FecInv, Range
    <2>3. KeepsOriginals(dp)' /\ out' \in Seq(Originals')
      BY <2>1, <2>2, SameStream DEF KeepsOriginals
    <2> QED
      BY <1>1, <2>1, <2>2, <2>3, FecAside
  <1> SUFFICES ASSUME codec = "flexfec", Next PROVE FecInv'
    <2>1. codec' = codec
      BY DEF Next, Encode, Deliver, Duplicate, Lose, Stray, Reset, Close, pathVars
    <2>2. CASE codec # "flexfec"
      BY <2>1, <2>2 DEF FecInv
    <2> QED
      BY <1>1, <2>2
  <1>2. /\ net \in Seq(Range(net)) /\ (\A r \in Range(net) : Carried(r))
        /\ (\A i \in DOMAIN net : Carried(net[i])) /\ DOMAIN net = 1 .. Len(net)
        /\ KeepsOriginals(dp) /\ out \in Seq(Originals)
    <2>1. net \in Seq(Range(net)) /\ (\A i \in DOMAIN net : Carried(net[i])) /\ KeepsOriginals(dp)
          /\ out \in Seq(Originals)
      BY DEF FecInv
    <2> QED
      BY <2>1, LenProperties DEF Range
  <1>3. CASE Encode
    BY <1>3, FecEncode
  <1>4. CASE Deliver
    <2>1. PICK i \in Reach : /\ Take(Depacketize(dp, net[i].pkt)) /\ net' = Seqs!RemoveAt(net, i)
                             /\ UNCHANGED <<codec, pk, sent>>
      BY <1>4, Zenon DEF Deliver
    <2>2. i \in 1 .. Len(net)
      BY <1>2 DEF Reach
    <2>3. net' \in Seq(Range(net))
      BY <1>2, <2>1, <2>2, WithoutOne DEF Seqs!RemoveAt
    <2>4. net[i].pkt.payload \in Givens \cup Repairs
      BY <1>2, <2>2 DEF Carried
    <2>5. KeepsOriginals(dp)' /\ out' \in Seq(Originals')
      BY <2>1, <2>4, FecTake
    <2> QED
      BY <1>2, <2>1, <2>3, <2>5, FecAside
  <1>5. CASE Duplicate
    <2>1. PICK i \in Reach : /\ Take(Depacketize(dp, net[i].pkt)) /\ net' = [net EXCEPT ![i].dup = TRUE]
                             /\ UNCHANGED <<codec, pk, sent>>
      BY <1>5, Zenon DEF Duplicate
    <2>2. i \in 1 .. Len(net)
      BY <1>2 DEF Reach
    <2>3. net[i].pkt.payload \in Givens \cup Repairs /\ "pkt" \in DOMAIN net[i]
      BY <1>2, <2>2 DEF Carried
    <2>4. KeepsOriginals(dp)' /\ out' \in Seq(Originals')
      BY <2>1, <2>3, FecTake
    <2> DEFINE e == [net[i] EXCEPT !.dup = TRUE]
               S == Range(net) \cup {e}
    <2>5. Carried(e)
      BY <2>3 DEF Carried
    <2>6. net' = [net EXCEPT ![i] = e]
      BY <2>1
    <2> HIDE DEF e
    <2>7. net \in Seq(S) /\ e \in S /\ \A r \in S : Carried(r)
      BY <1>2, <2>5, SeqMonotonic
    <2> HIDE DEF S
    <2>8. net' \in Seq(S)
      BY <2>2, <2>6, <2>7, ExceptSeq
    <2> QED
      BY <2>1, <2>4, <2>7, <2>8, FecAside
  <1>6. CASE Lose
    <2>1. PICK i \in Reach : net' = Seqs!RemoveAt(net, i) /\ UNCHANGED <<codec, pk, sent, dp, out>>
      BY <1>6, Zenon DEF Lose
    <2>2. i \in 1 .. Len(net)
      BY <1>2 DEF Reach
    <2>3. net' \in Seq(Range(net))
      BY <1>2, <2>1, <2>2, WithoutOne DEF Seqs!RemoveAt
    <2>4. KeepsOriginals(dp)' /\ out' \in Seq(Originals')
      BY <1>2, <2>1, SameStream DEF KeepsOriginals
    <2> QED
      BY <1>2, <2>1, <2>3, <2>4, FecAside
  <1>7. CASE Stray
    <2>1. PICK p \in Runts : Take(Depacketize(dp, MakePacket(0, p, 0, FALSE))) /\ UNCHANGED <<codec, pk, sent, net>>
      BY <1>7, Zenon DEF Stray
    <2>2. MakePacket(0, p, 0, FALSE).payload = [fec |-> TRUE, mask |-> {}]
      BY Dispatch DEF MakePacket
    <2>3. KeepsOriginals(dp)' /\ out' \in Seq(Originals')
      BY <2>1, <2>2, FecTake
    <2> QED
      BY <1>2, <2>1, <2>3, FecAside
  <1>8. CASE Reset \/ Close
    <2>1. dp' = Fec!Decoder /\ UNCHANGED <<codec, pk, sent, net, out>>
      BY <1>8, Dispatch DEF Reset, Close
    <2>2. KeepsOriginals(dp)' /\ out' \in Seq(Originals')
      <3>1. KeepsOriginals(Fec!Decoder)
        BY DecoderStarts
      <3> QED
        BY <1>2, <2>1, <3>1, SameStream DEF KeepsOriginals
    <2> QED
      BY <1>2, <2>1, <2>2, FecAside
  <1> QED
    BY <1>3, <1>4, <1>5, <1>6, <1>7, <1>8 DEF Next

(* FlexFEC invents nothing: whatever is lost, late, doubled or reset, what *)
(* the decoder emits was sent, bit for bit (flexfec.js:207-255), for every *)
(* size of a group and of the windows.                                     *)
THEOREM RecoveryInventsNothing ==
    ASSUME FecBound
    PROVE  Spec => [](codec = "flexfec" => NothingInvented)
  <1>1. FecInv => (codec = "flexfec" => NothingInvented)
    <2> SUFFICES ASSUME FecInv, codec = "flexfec" PROVE NothingInvented
      OBVIOUS
    <2>1. ASSUME NEW j \in DOMAIN out PROVE \E n \in Sent : out[j] = Original(n)
      <3>1. out \in Seq(Originals)
        BY DEF FecInv
      <3>2. out[j] \in Originals
        BY <3>1, LenProperties, ElementOfSeq
      <3> QED
        BY <3>2 DEF Originals
    <2> QED
      BY <2>1 DEF NothingInvented, Verbatim
  <1>2. Spec => []FecInv
    BY FecInit, FecStep, PTL DEF Spec
  <1> QED
    BY <1>1, <1>2, PTL
=============================================================================
