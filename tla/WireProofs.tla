------------------------------ MODULE WireProofs ------------------------------
(***************************************************************************)
(* The algebra of RTP packets on the wire: what a packet carries, whatever *)
(* its sources, its extensions, its payload and its padding, and how each  *)
(* function of the code that writes or reads a packet changes what it      *)
(* carries.  At the end, what is read of a datagram with one NACK in it.   *)
(***************************************************************************)
EXTENDS Wire, TLAPS, SequenceTheorems, FiniteSetTheorems, WellFoundedInduction, NaturalsInduction

(* Induction over the natural numbers, for a set in place of a predicate.  *)
LEMMA Induct ==
    ASSUME NEW Es, 0 \in Es, \A n \in Nat : n \in Es => n + 1 \in Es
    PROVE  Nat \subseteq Es
  <1> DEFINE Ts == Nat \ Es
  <1>1. SUFFICES ASSUME Ts # {} PROVE FALSE
    OBVIOUS
  <1>2. PICK x \in Ts : \A y \in Ts : <<y, x>> \notin OpToRel(<, Nat)
    <2>1. Ts \subseteq Nat
      OBVIOUS
    <2> HIDE DEF Ts
    <2> QED
      BY <1>1, <2>1, NatLessThanWellFounded, WFMin, Zenon
  <1>3. \A y \in Ts : ~ (y < x)
    BY <1>2, Zenon DEF OpToRel
  <1>4. x # 0 /\ x \in Nat
    OBVIOUS
  <1>5. x - 1 \in Nat /\ x - 1 < x /\ x - 1 + 1 = x
    BY <1>4
  <1>6. x - 1 \in Es
    BY <1>5, <1>3
  <1> QED
    BY <1>5, <1>6

-----------------------------------------------------------------------------
Kinds    == {"profile", "words", "element", "csrc", "osn", "media", "pad", "twcc", "abs", "level", "name"}
AnyOctet == [what : Kinds, v : Int, at : Int]

(* One step of the scan of a block's data.                                 *)
Found(data, careful, f, i) ==
    IF i > Len(data) THEN <<>>
    ELSE LET id  == data[i].v \div 16
             len == (data[i].v % 16) + 1
         IN  IF data[i].v = 0 THEN f[i + 1]
             ELSE IF careful /\ (id = 15 \/ i + len > Len(data)) THEN <<>>
             ELSE <<[at |-> i, id |-> id, len |-> len]>> \o f[i + 1 + len]
Scan(data, careful) == CHOOSE f : f = [i \in 1 .. Len(data) + 17 |-> Found(data, careful, f, i)]

(* The elements of a block are what the scan returns.                      *)
LEMMA ElementsScan ==
    ASSUME NEW data, NEW careful
    PROVE  H!Elements(data, careful) = Scan(data, careful)[1]
  BY Zenon DEF H!Elements, Scan, Found

(* The scan is well defined: it looks at what comes after.                 *)
LEMMA ScanRuns ==
    ASSUME NEW data \in Seq(AnyOctet), NEW careful
    PROVE  \A i \in 1 .. Len(data) + 17 : Scan(data, careful)[i] = Found(data, careful, Scan(data, careful), i)
  <1> DEFINE n == Len(data) + 17
             From(k) == n + 1 - k .. n
             Ran(f, k) == f = [i \in From(k) |-> Found(data, careful, f, i)]
             Es == {k \in Nat : k <= n => \E f : Ran(f, k)}
  <1>1. n \in Nat /\ Len(data) \in Nat
    OBVIOUS
  <1>2. 0 \in Es
    <2>1. From(0) = {}
      OBVIOUS
    <2>2. PICK f : f = [i \in From(0) |-> 0]
      BY Zenon
    <2>3. Ran(f, 0)
      BY <2>1, <2>2
    <2> QED BY <2>3
  <1>3. ASSUME NEW k \in Nat, k \in Es PROVE k + 1 \in Es
    <2> SUFFICES ASSUME k + 1 <= n PROVE \E f : Ran(f, k + 1)
      OBVIOUS
    <2>1. PICK f : Ran(f, k)
      BY <1>1, <1>3
    <2>2. PICK p \in Int : p = n - k
      BY <1>1
    <2>3. PICK g : g = [i \in From(k + 1) |-> IF i = p THEN Found(data, careful, f, p) ELSE f[i]]
      BY Zenon
    <2>4. \A i : i \in From(k + 1) <=> i = p \/ i \in From(k)
      BY <1>1, <2>2
    <2>5. \A i \in From(k) : g[i] = f[i] /\ i # p /\ i > p
      BY <2>3, <2>4, <2>2, <1>1
    <2>6. ASSUME NEW i \in From(k + 1) PROVE Found(data, careful, g, i) = Found(data, careful, f, i)
      <3>1. CASE i > Len(data)
        BY <3>1 DEF Found
      <3>2. CASE ~ i > Len(data)
        <4>1. i \in 1 .. Len(data) /\ i >= p
          BY <1>1, <2>2, <3>2
        <4>2. PICK v \in Int : v = data[i].v
          <5>1. data[i] \in AnyOctet
            BY <4>1, ElementOfSeq
          <5> QED BY <5>1 DEF AnyOctet
        <4>3. PICK len \in 1 .. 16 : len = (v % 16) + 1
          <5>1. (v % 16) \in 0 .. 15
            OBVIOUS
          <5> QED BY <5>1
        <4>4. i + 1 \in From(k) /\ i + 1 + len \in From(k)
          BY <1>1, <2>2, <4>1, <4>3
        <4>5. g[i + 1] = f[i + 1] /\ g[i + 1 + len] = f[i + 1 + len]
          BY <2>5, <4>4
        <4> QED BY <4>2, <4>3, <4>5 DEF Found
      <3> QED BY <3>1, <3>2
    <2> HIDE DEF From
    <2>7. \A i \in From(k + 1) : g[i] = Found(data, careful, f, i)
      BY <2>1, <2>3, <2>4
    <2>8. g = [i \in From(k + 1) |-> Found(data, careful, g, i)]
      <3>1. g = [i \in From(k + 1) |-> g[i]]
        BY <2>3
      <3> QED BY <3>1, <2>6, <2>7
    <2> QED BY <2>8
  <1>4. n \in Es
    <2> HIDE DEF Es
    <2> QED BY <1>1, <1>2, <1>3, Induct
  <1>5. PICK f : Ran(f, n)
    BY <1>1, <1>4
  <1>6. From(n) = 1 .. n
    BY <1>1
  <1>7. f = [i \in 1 .. n |-> Found(data, careful, f, i)]
    BY <1>5, <1>6
  <1>8. Scan(data, careful) = [i \in 1 .. n |-> Found(data, careful, Scan(data, careful), i)]
    <2> HIDE DEF n
    <2> SUFFICES (CHOOSE g : g = [i \in 1 .. n |-> Found(data, careful, g, i)])
                  = [i \in 1 .. n |-> Found(data, careful, CHOOSE g : g = [j \in 1 .. n |-> Found(data, careful, g, j)], i)]
      BY Zenon DEF Scan, n
    <2> QED BY <1>7, Zenon
  <1> QED BY <1>8, Zenon
-----------------------------------------------------------------------------
(* The octets of a value, which are never those of an original number.     *)
Plain == {o \in AnyOctet : o.what # "osn"}
ExtSets ==
    {exts \in UNION {[ids -> Seq(Plain)] : ids \in SUBSET (1 .. 14)} :
        \A id \in DOMAIN exts : Len(exts[id]) \in 1 .. 16}

(* A block's data holds extensions each at a place of its own, and nothing *)
(* else.                                                                   *)
Fits(data, exts, place) ==
    /\ data \in Seq(AnyOctet) /\ exts \in ExtSets
    /\ \A id \in DOMAIN exts :
          /\ place[id] \in 1 .. Len(data) /\ place[id] + Len(exts[id]) <= Len(data)
          /\ data[place[id]] = H!Element(id, Len(exts[id]))
          /\ \A j \in 1 .. Len(exts[id]) : data[place[id] + j] = exts[id][j]
    /\ \A a, b \in DOMAIN exts :
          a # b => place[a] + Len(exts[a]) < place[b] \/ place[b] + Len(exts[b]) < place[a]
    /\ \A i \in 1 .. Len(data) :
          data[i] = H!Zero \/ \E id \in DOMAIN exts : place[id] <= i /\ i <= place[id] + Len(exts[id])

(* What a scan has found of them from position i on.                       *)
Finds(s, exts, place, i) ==
    /\ s \in Seq([at : Int, id : Int, len : Int])
    /\ \A k \in 1 .. Len(s) : /\ s[k].id \in DOMAIN exts /\ place[s[k].id] >= i
                              /\ s[k].at = place[s[k].id] /\ s[k].len = Len(exts[s[k].id])
    /\ \A id \in DOMAIN exts : place[id] >= i => \E k \in 1 .. Len(s) : s[k].id = id
    /\ \A k, l \in 1 .. Len(s) : s[k].id = s[l].id => k = l

(* What a set of extensions is: 1 to 16 octets for some ids of 1 to 14.    *)
LEMMA ExtFacts ==
    ASSUME NEW exts \in ExtSets
    PROVE  /\ DOMAIN exts \subseteq 1 .. 14 /\ exts = [id \in DOMAIN exts |-> exts[id]]
           /\ \A id \in DOMAIN exts : exts[id] \in Seq(Plain) /\ Len(exts[id]) \in 1 .. 16
  <1>1. PICK ids \in SUBSET (1 .. 14) : exts \in [ids -> Seq(Plain)]
    BY DEF ExtSets
  <1>2. DOMAIN exts = ids /\ exts = [id \in ids |-> exts[id]]
    BY <1>1
  <1> QED BY <1>1, <1>2, Zenon DEF ExtSets

(* An element in front of those found is found as well.                    *)
LEMMA FindsOneMore ==
    ASSUME NEW s, NEW exts \in ExtSets, NEW place, NEW i \in Int, NEW id \in DOMAIN exts, place[id] = i,
           Finds(s, exts, place, i + 1 + Len(exts[id])),
           \A other \in DOMAIN exts : place[other] \in Int,
           \A other \in DOMAIN exts : other # id /\ place[other] >= i => place[other] >= i + 1 + Len(exts[id])
    PROVE  Finds(<<[at |-> i, id |-> id, len |-> Len(exts[id])]>> \o s, exts, place, i)
  <1> DEFINE Ts == [at : Int, id : Int, len : Int]
             e == [at |-> i, id |-> id, len |-> Len(exts[id])]
             all == <<e>> \o s
  <1>1. Len(exts[id]) \in 1 .. 16 /\ id \in Int
    <2>1. id \in 1 .. 14 /\ Len(exts[id]) \in 1 .. 16
      BY ExtFacts
    <2> QED BY <2>1
  <1>2. e \in Ts /\ <<e>> \in Seq(Ts) /\ Len(<<e>>) = 1 /\ <<e>>[1] = e
    BY <1>1
  <1>3. s \in Seq(Ts) /\ Len(s) \in Nat
    BY DEF Finds
  <1> HIDE DEF Ts, e
  <1>4. /\ all \in Seq(Ts) /\ Len(all) = 1 + Len(s)
        /\ \A k \in 1 .. 1 + Len(s) : all[k] = IF k <= 1 THEN <<e>>[k] ELSE s[k - 1]
    BY <1>2, <1>3, ConcatProperties
  <1>5. all[1] = e /\ \A k \in 1 .. Len(s) : all[k + 1] = s[k]
    BY <1>2, <1>3, <1>4
  <1> HIDE DEF all
  <1>6. e.id = id /\ e.at = i /\ e.len = Len(exts[id])
    BY DEF e
  <1>7. \A k \in 1 .. Len(all) : k = 1 \/ (k - 1 \in 1 .. Len(s) /\ k - 1 + 1 = k)
    BY <1>3, <1>4
  <1>8. ASSUME NEW k \in 1 .. Len(all)
        PROVE  /\ all[k].id \in DOMAIN exts /\ place[all[k].id] >= i
               /\ all[k].at = place[all[k].id] /\ all[k].len = Len(exts[all[k].id])
               /\ all[k].id = id <=> k = 1
    <2>1. CASE k = 1
      BY <1>5, <1>6, <2>1
    <2>2. CASE k # 1
      <3>1. k - 1 \in 1 .. Len(s) /\ all[k] = s[k - 1]
        BY <1>5, <1>7, <2>2
      <3>2. PICK o : o = s[k - 1].id
        OBVIOUS
      <3>3. /\ o \in DOMAIN exts /\ place[o] >= i + 1 + Len(exts[id])
            /\ s[k - 1].at = place[o] /\ s[k - 1].len = Len(exts[o])
        BY <3>1, <3>2, Zenon DEF Finds
      <3>4. place[o] \in Int
        BY <3>3
      <3>5. place[o] >= i /\ o # id
        BY <1>1, <3>3, <3>4
      <3> QED BY <3>1, <3>2, <3>3, <3>5, <2>2
    <2> QED BY <2>1, <2>2
  <1>9. ASSUME NEW other \in DOMAIN exts, place[other] >= i PROVE \E k \in 1 .. Len(all) : all[k].id = other
    <2>1. CASE other = id
      BY <1>3, <1>4, <1>5, <1>6, <2>1
    <2>2. CASE other # id
      <3>1. PICK k \in 1 .. Len(s) : s[k].id = other
        BY <1>9, <2>2 DEF Finds
      <3>2. k + 1 \in 1 .. Len(all) /\ all[k + 1] = s[k]
        BY <1>3, <1>4, <1>5
      <3> QED BY <3>1, <3>2
    <2> QED BY <2>1, <2>2
  <1>10. ASSUME NEW k \in 1 .. Len(all), NEW l \in 1 .. Len(all), all[k].id = all[l].id PROVE k = l
    <2>1. CASE k = 1 \/ l = 1
      BY <1>8, <1>10, <2>1
    <2>2. CASE k # 1 /\ l # 1
      <3>1. /\ k - 1 \in 1 .. Len(s) /\ l - 1 \in 1 .. Len(s)
            /\ all[k] = s[k - 1] /\ all[l] = s[l - 1]
        BY <1>5, <1>7, <2>2
      <3>2. k - 1 = l - 1
        BY <3>1, <1>10, Zenon DEF Finds
      <3> QED BY <3>2
    <2> QED BY <2>1, <2>2
  <1>11. Finds(all, exts, place, i)
    BY <1>4, <1>8, <1>9, <1>10, Zenon DEF Finds, Ts
  <1> QED BY <1>11 DEF all, e

(* A scan finds every extension, once, whatever the order and the gaps.    *)
LEMMA ScanFinds ==
    ASSUME NEW data, NEW exts, NEW place, Fits(data, exts, place), NEW careful
    PROVE  Finds(H!Elements(data, careful), exts, place, 1)
  <1> DEFINE n == Len(data)
             scan == Scan(data, careful)
             Whole(i) == \A id \in DOMAIN exts : ~ (place[id] < i /\ i <= place[id] + Len(exts[id]))
             Es == {k \in Nat : \A i \in 1 .. n + 17 : i + k > n /\ Whole(i) => Finds(scan[i], exts, place, i)}
  <1>1. data \in Seq(AnyOctet) /\ exts \in ExtSets /\ n \in Nat
    BY DEF Fits
  <1>2. \A i \in 1 .. n + 17 : scan[i] = Found(data, careful, scan, i)
    BY <1>1, ScanRuns
  <1>3. \A id \in DOMAIN exts : /\ id \in 1 .. 14 /\ Len(exts[id]) \in 1 .. 16
                                /\ place[id] \in 1 .. n /\ place[id] + Len(exts[id]) <= n
    BY <1>1, ExtFacts DEF Fits
  <1> HIDE DEF n, scan
  <1>4. 0 \in Es
    <2> SUFFICES ASSUME NEW i \in 1 .. n + 17, i + 0 > n PROVE Finds(scan[i], exts, place, i)
      OBVIOUS
    <2>1. i > Len(data) /\ \A id \in DOMAIN exts : ~ (place[id] >= i)
      BY <1>1, <1>3 DEF n
    <2>2. scan[i] = <<>>
      BY <1>2, <2>1, Zenon DEF Found
    <2>3. Len(scan[i]) = 0 /\ scan[i] \in Seq([at : Int, id : Int, len : Int])
      BY <2>2, EmptySeq
    <2> QED BY <2>1, <2>3 DEF Finds
  <1>5. ASSUME NEW k \in Nat, k \in Es PROVE k + 1 \in Es
    <2> SUFFICES ASSUME NEW i \in 1 .. n + 17, i + k = n, Whole(i) PROVE Finds(scan[i], exts, place, i)
      <3>1. \A i \in 1 .. n + 17 : i + (k + 1) > n <=> i + k > n \/ i + k = n
        BY <1>1
      <3> QED BY <1>5, <3>1
    <2>1. i \in 1 .. n /\ i + 1 \in 1 .. n + 17 /\ i + 1 + k > n /\ ~ (i > Len(data))
      BY <1>1 DEF n
    <2>2. CASE \E id \in DOMAIN exts : place[id] = i
      <3>1. PICK id \in DOMAIN exts : place[id] = i
        BY <2>2
      <3>2. PICK len \in 1 .. 16 : len = Len(exts[id])
        BY <1>3
      <3>3. id \in 1 .. 14 /\ i + len <= n
        BY <1>3, <3>1, <3>2
      <3>4. PICK q \in 1 .. 14 : q = id
        BY <3>3
      <3>5. data[i].v = 16 * q + len - 1
        <4>1. data[i] = H!Element(q, len)
          BY <3>1, <3>2, <3>4 DEF Fits
        <4> QED BY <4>1 DEF H!Element, H!Octet
      <3>6. ((16 * q + len - 1) \div 16) = q /\ ((16 * q + len - 1) % 16) = len - 1 /\ 16 * q + len - 1 # 0 /\ q # 15
        OBVIOUS
      <3>7. scan[i] = <<[at |-> i, id |-> id, len |-> len]>> \o scan[i + 1 + len]
        <4>1. Found(data, careful, scan, i) = <<[at |-> i, id |-> id, len |-> len]>> \o scan[i + 1 + len]
          <5>1. (len - 1) + 1 = len /\ ~ (i + len > Len(data))
            BY <1>1, <3>3 DEF n
          <5> QED BY <5>1, <3>4, <3>5, <3>6, <2>1, Zenon DEF Found
        <4> QED BY <4>1, <1>2, Zenon
      <3>8. i + 1 + len \in 1 .. n + 17 /\ i + 1 + len + k > n
        BY <1>1, <3>2, <3>3
      <3>9. \A other \in DOMAIN exts :
                 other # id => place[other] + Len(exts[other]) < i \/ i + len < place[other]
        BY <3>1, <3>2, Zenon DEF Fits
      <3>10. Whole(i + 1 + len)
        BY <1>3, <3>1, <3>2, <3>9
      <3>11. Finds(scan[i + 1 + len], exts, place, i + 1 + len)
        BY <1>5, <3>8, <3>10
      <3>12. \A other \in DOMAIN exts : place[other] \in Int
        BY <1>3
      <3>13. \A other \in DOMAIN exts : other # id /\ place[other] >= i => place[other] >= i + 1 + Len(exts[id])
        BY <1>3, <3>2, <3>9
      <3> QED BY <1>1, <3>1, <3>2, <3>7, <3>11, <3>12, <3>13, FindsOneMore, Zenon
    <2>3. CASE ~ \E id \in DOMAIN exts : place[id] = i
      <3>1. \A id \in DOMAIN exts : ~ (place[id] <= i /\ i <= place[id] + Len(exts[id]))
        BY <1>3, <2>3
      <3>2. data[i] = H!Zero
        BY <2>1, <3>1 DEF Fits, n
      <3>3. data[i].v = 0
        BY <3>2 DEF H!Zero, H!Octet
      <3>4. scan[i] = scan[i + 1]
        BY <1>2, <2>1, <3>3, Zenon DEF Found
      <3>5. Whole(i + 1)
        BY <1>3, <3>1
      <3>6. Finds(scan[i + 1], exts, place, i + 1)
        BY <1>5, <2>1, <3>5, Zenon
      <3>7. \A id \in DOMAIN exts : place[id] >= i <=> place[id] >= i + 1
        BY <1>3, <2>3
      <3>8. Finds(scan[i + 1], exts, place, i)
        BY <3>6, <3>7, Zenon DEF Finds
      <3> QED BY <3>4, <3>8
    <2> QED BY <2>2, <2>3
  <1>6. n \in Es
    <2> HIDE DEF Es
    <2> QED BY <1>1, <1>4, <1>5, Induct
  <1>7. 1 \in 1 .. n + 17 /\ 1 + n > n /\ Whole(1)
    BY <1>1, <1>3
  <1>8. Finds(scan[1], exts, place, 1)
    BY <1>6, <1>7
  <1> QED BY <1>8, ElementsScan DEF scan
(* What an element holds is the value of its extension.                    *)
LEMMA ValueFits ==
    ASSUME NEW data, NEW exts, NEW place, Fits(data, exts, place), NEW id \in DOMAIN exts,
           NEW e, e.at = place[id], e.len = Len(exts[id])
    PROVE  H!ValueOf(data, e) = exts[id]
  <1>1. /\ data \in Seq(AnyOctet) /\ exts[id] \in Seq(Plain) /\ Len(exts[id]) \in 1 .. 16
        /\ place[id] \in 1 .. Len(data) /\ place[id] + Len(exts[id]) <= Len(data)
        /\ \A j \in 1 .. Len(exts[id]) : data[place[id] + j] = exts[id][j]
    BY ExtFacts DEF Fits
  <1>2. PICK p \in Int, n \in 1 .. 16 : p = place[id] /\ n = Len(exts[id])
    BY <1>1
  <1>3. exts[id] \in Seq(AnyOctet)
    <2>1. Plain \subseteq AnyOctet
      BY DEF Plain
    <2> QED BY <1>1, <2>1, SeqMonotonic
  <1>4. \A i \in p + 1 .. p + n : data[i] \in AnyOctet
    <2>1. \A i \in p + 1 .. p + n : i \in 1 .. Len(data)
      BY <1>1, <1>2
    <2> QED BY <1>1, <2>1, ElementOfSeq
  <1>5. p + 1 \in Int /\ p + n \in Int /\ p + 1 <= p + n /\ (p + n) - (p + 1) + 1 = n
    OBVIOUS
  <1>6. /\ SubSeq(data, p + 1, p + n) \in Seq(AnyOctet) /\ Len(SubSeq(data, p + 1, p + n)) = n
        /\ \A i \in 1 .. n : SubSeq(data, p + 1, p + n)[i] = data[p + 1 + i - 1]
    BY <1>4, <1>5, SubSeqProperties
  <1>7. \A i \in 1 .. n : p + 1 + i - 1 = p + i
    OBVIOUS
  <1>8. \A i \in 1 .. n : SubSeq(data, p + 1, p + n)[i] = exts[id][i]
    BY <1>1, <1>2, <1>6, <1>7, Zenon
  <1>9. SubSeq(data, p + 1, p + n) = exts[id]
    BY <1>2, <1>3, <1>6, <1>8, SeqEqual, Zenon
  <1> QED BY <1>2, <1>9 DEF H!ValueOf

(* What a parser reads from data that fits (rtp.js:640-655).               *)
LEMMA ParseFits ==
    ASSUME NEW data, NEW exts, NEW place, Fits(data, exts, place)
    PROVE  H!ParseExtensions(data) = exts
  <1> DEFINE found == H!Elements(data, TRUE)
             LastOf(id) == CHOOSE i \in DOMAIN found :
                               found[i].id = id /\ \A j \in i + 1 .. Len(found) : found[j].id # id
             ids == {found[i].id : i \in DOMAIN found}
  <1>1. Finds(found, exts, place, 1)
    BY ScanFinds, Zenon
  <1>2. H!ParseExtensions(data) = [id \in ids |-> H!ValueOf(data, found[LastOf(id)])]
    BY DEF H!ParseExtensions
  <1> HIDE DEF found
  <1>3. DOMAIN found = 1 .. Len(found) /\ Len(found) \in Nat
    BY <1>1 DEF Finds
  <1>4. \A id \in DOMAIN exts : place[id] >= 1
    BY DEF Fits
  <1>5. ids = DOMAIN exts
    <2>1. \A i \in DOMAIN found : found[i].id \in DOMAIN exts
      BY <1>1, <1>3 DEF Finds
    <2>2. \A id \in DOMAIN exts : \E i \in DOMAIN found : found[i].id = id
      BY <1>1, <1>3, <1>4, Zenon DEF Finds
    <2> QED BY <2>1, <2>2, Zenon
  <1>6. ASSUME NEW id \in DOMAIN exts PROVE H!ValueOf(data, found[LastOf(id)]) = exts[id]
    <2>1. PICK k \in 1 .. Len(found) : found[k].id = id
      BY <1>1, <1>4 DEF Finds
    <2>2. \A l \in 1 .. Len(found) : found[l].id = id => l = k
      BY <1>1, <2>1, Zenon DEF Finds
    <2>3. \A j \in k + 1 .. Len(found) : found[j].id # id
      BY <1>3, <2>2
    <2>4. LastOf(id) = k
      BY <1>3, <2>1, <2>2, <2>3
    <2>5. found[k].at = place[id] /\ found[k].len = Len(exts[id])
      BY <1>1, <2>1, Zenon DEF Finds
    <2>6. H!ValueOf(data, found[k]) = exts[id]
      BY <2>5, ValueFits
    <2> HIDE DEF LastOf
    <2> QED BY <2>4, <2>6
  <1>7. exts = [id \in DOMAIN exts |-> exts[id]]
    BY ExtFacts DEF Fits
  <1> QED BY <1>2, <1>5, <1>6, <1>7, Zenon

(* The first element with an id is the only one (readExtension,            *)
(* rtp.js:575-596).                                                        *)
Hits(found, id)     == {i \in DOMAIN found : found[i].id = id}
FirstHit(found, id) == found[CHOOSE i \in Hits(found, id) : \A j \in Hits(found, id) : i <= j]
(* The first element with an id holds the extension with that id.          *)
LEMMA FirstFits ==
    ASSUME NEW data, NEW exts, NEW place, Fits(data, exts, place), NEW id
    PROVE  /\ id \in DOMAIN exts => /\ Hits(H!Elements(data, TRUE), id) # {}
                                    /\ H!ValueOf(data, FirstHit(H!Elements(data, TRUE), id)) = exts[id]
           /\ id \notin DOMAIN exts => Hits(H!Elements(data, TRUE), id) = {}
  <1> DEFINE found == H!Elements(data, TRUE)
             hits  == {i \in DOMAIN found : found[i].id = id}
  <1>0. Hits(found, id) = hits /\ FirstHit(found, id) = found[CHOOSE i \in hits : \A j \in hits : i <= j]
    BY Zenon DEF Hits, FirstHit
  <1>1. Finds(found, exts, place, 1)
    BY ScanFinds, Zenon
  <1> HIDE DEF found
  <1>2. DOMAIN found = 1 .. Len(found) /\ Len(found) \in Nat
    BY <1>1 DEF Finds
  <1>3. CASE id \in DOMAIN exts
    <2>1. place[id] >= 1
      BY <1>3 DEF Fits
    <2>2. PICK k \in 1 .. Len(found) : found[k].id = id
      BY <1>1, <1>3, <2>1 DEF Finds
    <2>3. hits = {k}
      <3>1. \A l \in 1 .. Len(found) : found[l].id = id => l = k
        BY <1>1, <2>2, Zenon DEF Finds
      <3> QED BY <1>2, <2>2, <3>1
    <2>4. (CHOOSE i \in hits : \A j \in hits : i <= j) = k
      BY <2>2, <2>3
    <2>5. found[k].at = place[id] /\ found[k].len = Len(exts[id])
      BY <1>1, <2>2, Zenon DEF Finds
    <2>6. H!ValueOf(data, found[k]) = exts[id]
      BY <1>3, <2>5, ValueFits
    <2> HIDE DEF hits
    <2>7. hits # {} /\ FirstHit(found, id) = found[k]
      BY <1>0, <2>3, <2>4
    <2> QED BY <1>0, <1>3, <2>6, <2>7, Zenon DEF found
  <1>4. CASE id \notin DOMAIN exts
    <2>1. hits = {}
      BY <1>1, <1>2, <1>4 DEF Finds
    <2> QED BY <1>0, <1>4, <2>1, Zenon DEF found
  <1> QED BY <1>3, <1>4, Zenon

-----------------------------------------------------------------------------
(* A sequence of sequences made flat, one after the other.                 *)
LEMMA Flattens ==
    ASSUME NEW Es, NEW seqs \in Seq(Seq(Es))
    PROVE  \E f : /\ f[0] = <<>> /\ \A i \in 1 .. Len(seqs) : f[i] = f[i - 1] \o seqs[i]
                  /\ \A i \in 0 .. Len(seqs) : f[i] \in Seq(Es)
                  /\ H!Seqs!FlattenSeq(seqs) = f[Len(seqs)]
  <1> DEFINE n == Len(seqs)
             NextOf(f, i) == IF i = 1 THEN seqs[i] ELSE f[i - 1] \o seqs[i]
             Ran(f, k) == f = [i \in 1 .. k |-> NextOf(f, i)]
             Ts == {k \in Nat : k <= n => \E f : Ran(f, k)}
  <1>1. n \in Nat /\ \A i \in 1 .. n : seqs[i] \in Seq(Es)
    BY ElementOfSeq
  <1>2. ASSUME NEW f, f = [i \in 1 .. 0 |-> 0] PROVE Ran(f, 0)
    BY <1>2
  <1>3. ASSUME NEW k \in Nat, NEW f, Ran(f, k) PROVE \E g : Ran(g, k + 1)
    <2>1. f = [i \in 1 .. k |-> NextOf(f, i)]
      BY <1>3, Zenon
    <2>2. PICK g : g = [i \in 1 .. k + 1 |-> IF i = k + 1 THEN NextOf(f, k + 1) ELSE f[i]]
      BY Zenon
    <2>3. \A i \in 1 .. k : g[i] = f[i]
      BY <2>2
    <2>4. ASSUME NEW i \in 1 .. k + 1 PROVE NextOf(g, i) = NextOf(f, i)
      <3>1. i = 1 \/ i - 1 \in 1 .. k
        OBVIOUS
      <3> QED BY <2>3, <3>1
    <2> HIDE DEF NextOf
    <2>5. \A i \in 1 .. k : f[i] = NextOf(f, i)
      BY <2>1, Zenon
    <2>6. \A i \in 1 .. k + 1 : g[i] = NextOf(f, i)
      BY <2>2, <2>5
    <2>7. g = [i \in 1 .. k + 1 |-> NextOf(g, i)]
      <3>1. g = [i \in 1 .. k + 1 |-> g[i]]
        BY <2>2
      <3> QED BY <3>1, <2>4, <2>6
    <2> QED BY <2>7
  <1> HIDE DEF Ran
  <1>4. n \in Ts
    <2>1. 0 \in Ts
      BY <1>2
    <2>2. ASSUME NEW k \in Nat, k \in Ts PROVE k + 1 \in Ts
      BY <1>1, <1>3, <2>2
    <2> HIDE DEF Ts
    <2> QED BY <1>1, <2>1, <2>2, Induct, Zenon
  <1> DEFINE flat == CHOOSE f : Ran(f, n)
  <1>5. \E f : Ran(f, n)
    BY <1>1, <1>4
  <1>6. Ran(flat, n)
    <2> HIDE DEF n
    <2> QED BY <1>5
  <1>7. H!Seqs!FlattenSeq(seqs) = IF Len(seqs) = 0 THEN seqs ELSE flat[Len(seqs)]
    BY Zenon DEF H!Seqs!FlattenSeq, Ran
  <1> HIDE DEF flat
  <1>8. \A i \in 1 .. n : flat[i] = NextOf(flat, i)
    BY <1>6, Zenon DEF Ran
  <1>9. PICK f : f = [i \in 0 .. n |-> IF i = 0 THEN <<>> ELSE flat[i]]
    BY Zenon
  <1>10. f[0] = <<>> /\ \A i \in 1 .. n : f[i] = flat[i]
    BY <1>1, <1>9
  <1>11. ASSUME NEW i \in 1 .. n PROVE f[i] = f[i - 1] \o seqs[i]
    <2>1. CASE i = 1
      <3>1. f[i] = seqs[i] /\ f[i - 1] = <<>>
        BY <1>8, <1>10, <2>1
      <3> QED BY <1>1, <3>1, ConcatEmptySeq
    <2>2. CASE i # 1
      <3>1. i - 1 \in 1 .. n
        BY <2>2
      <3> QED BY <1>8, <1>10, <2>2, <3>1, Zenon
    <2> QED BY <2>1, <2>2, Zenon
  <1>12. \A i \in 0 .. n : f[i] \in Seq(Es)
    <2> DEFINE U == {k \in Nat : k <= n => f[k] \in Seq(Es)}
    <2> HIDE DEF n
    <2>1. 0 \in U
      BY <1>10, EmptySeq, Zenon
    <2>2. ASSUME NEW k \in Nat, k \in U PROVE k + 1 \in U
      <3> SUFFICES ASSUME k + 1 <= n PROVE f[k + 1] \in Seq(Es)
        OBVIOUS
      <3>1. k + 1 \in 1 .. n /\ k + 1 - 1 = k /\ f[k] \in Seq(Es)
        BY <1>1, <2>2
      <3>2. f[k + 1] = f[k] \o seqs[k + 1]
        <4>1. PICK m \in 1 .. n : m = k + 1
          BY <3>1
        <4>2. f[m] = f[m - 1] \o seqs[m]
          BY <1>11, Zenon
        <4>3. m - 1 = k
          BY <4>1
        <4> QED BY Zenon, <4>1, <4>2, <4>3, Zenon
      <3> QED BY <1>1, <3>1, <3>2, ConcatProperties
    <2> HIDE DEF U
    <2>3. Nat \subseteq U
      BY <2>1, <2>2, Induct, Zenon
    <2> QED BY <1>1, <2>3 DEF U
  <1>13. H!Seqs!FlattenSeq(seqs) = f[n]
    <2>1. CASE n = 0
      <3>1. seqs = <<>>
        BY <2>1, EmptySeq
      <3> QED BY <1>7, <1>10, <2>1, <3>1
    <2>2. CASE n # 0
      BY <1>1, <1>7, <1>10, <2>2
    <2> QED BY <2>1, <2>2
  <1> QED BY <1>10, <1>11, <1>12, <1>13, Zenon
-----------------------------------------------------------------------------
(* What a block is made of, apart from values, are plain octets.           *)
LEMMA PlainOctets ==
    /\ Plain \subseteq AnyOctet
    /\ \A id \in Int, len \in Int : H!Element(id, len) \in Plain
    /\ H!Zero \in Plain
  <1>1. ASSUME NEW v \in Int PROVE H!Octet("element", v, 1) \in Plain
    <2>1. H!Octet("element", v, 1) \in AnyOctet
      BY DEF H!Octet, AnyOctet, Kinds
    <2>2. H!Octet("element", v, 1).what # "osn"
      BY DEF H!Octet
    <2> QED BY <2>1, <2>2 DEF Plain
  <1>2. \A id \in Int, len \in Int : 16 * id + len - 1 \in Int
    OBVIOUS
  <1> QED BY <1>1, <1>2 DEF Plain, H!Element, H!Zero

(* Plain octets are octets.                                                *)
LEMMA PlainSeq ==
    ASSUME NEW s \in Seq(Plain)
    PROVE  s \in Seq(AnyOctet)
  BY PlainOctets, SeqMonotonic

(* Zeros after the data do not disturb it.                                 *)
LEMMA FitsPadded ==
    ASSUME NEW data, NEW exts, NEW place, Fits(data, exts, place),
           NEW more \in Seq(Plain), \A i \in 1 .. Len(more) : more[i] = H!Zero
    PROVE  Fits(data \o more, exts, place)
  <1> DEFINE all == data \o more
  <1>1. data \in Seq(AnyOctet) /\ more \in Seq(AnyOctet) /\ Len(data) \in Nat /\ Len(more) \in Nat
    BY PlainSeq DEF Fits
  <1>2. /\ all \in Seq(AnyOctet) /\ Len(all) = Len(data) + Len(more)
        /\ \A i \in 1 .. Len(data) + Len(more) :
              all[i] = IF i <= Len(data) THEN data[i] ELSE more[i - Len(data)]
    BY <1>1, ConcatProperties
  <1> HIDE DEF all
  <1>3. \A i \in 1 .. Len(data) : i \in 1 .. Len(all) /\ all[i] = data[i]
    BY <1>1, <1>2
  <1>4. ASSUME NEW id \in DOMAIN exts
        PROVE  /\ place[id] \in 1 .. Len(all) /\ place[id] + Len(exts[id]) <= Len(all)
               /\ all[place[id]] = H!Element(id, Len(exts[id]))
               /\ \A j \in 1 .. Len(exts[id]) : all[place[id] + j] = exts[id][j]
    <2>1. /\ place[id] \in 1 .. Len(data) /\ place[id] + Len(exts[id]) <= Len(data)
          /\ data[place[id]] = H!Element(id, Len(exts[id]))
          /\ \A j \in 1 .. Len(exts[id]) : data[place[id] + j] = exts[id][j]
      BY DEF Fits
    <2>2. PICK len \in 1 .. 16 : len = Len(exts[id])
      BY ExtFacts DEF Fits
    <2>3. PICK p \in 1 .. Len(data) : p = place[id]
      BY <2>1
    <2>4. p + len <= Len(data)
      BY <2>1, <2>2, <2>3
    <2>5. p + len <= Len(all)
      <3>1. Len(all) = Len(data) + Len(more)
        BY <1>2
      <3>2. Len(data) <= Len(all) /\ Len(all) \in Nat
        BY <3>1, <1>1
      <3> QED BY <2>4, <3>2, <1>1
    <2>6. \A j \in 1 .. len : p + j \in 1 .. Len(data)
      BY <2>4, <1>1
    <2>7. \A j \in 1 .. len : all[p + j] = data[p + j]
      BY <2>6, <1>3
    <2>8. \A j \in 1 .. len : data[p + j] = exts[id][j]
      BY <2>1, <2>2, <2>3
    <2>9. \A j \in 1 .. len : all[p + j] = exts[id][j]
      BY <2>7, <2>8, Zenon
    <2>10. all[p] = H!Element(id, len)
      BY <1>3, <2>1, <2>2, <2>3
    <2> QED BY <1>3, <2>2, <2>3, <2>5, <2>9, <2>10
  <1>5. ASSUME NEW i \in 1 .. Len(all)
        PROVE  all[i] = H!Zero \/ \E id \in DOMAIN exts : place[id] <= i /\ i <= place[id] + Len(exts[id])
    <2>1. CASE i <= Len(data)
      BY <1>1, <1>3, <2>1 DEF Fits
    <2>2. CASE ~ (i <= Len(data))
      <3>1. i - Len(data) \in 1 .. Len(more)
        BY <1>1, <1>2, <2>2
      <3> QED BY <1>2, <2>2, <3>1
    <2> QED BY <2>1, <2>2
  <1>6. Fits(all, exts, place)
    BY <1>2, <1>4, <1>5 DEF Fits
  <1> QED BY <1>6 DEF all

(* One extension more, after the others.                                   *)
LEMMA FitsMore ==
    ASSUME NEW data, NEW exts, NEW place, Fits(data, exts, place), DOMAIN place = DOMAIN exts,
           NEW new \in 1 .. 14, new \notin DOMAIN exts, NEW value \in Seq(Plain), Len(value) \in 1 .. 16
    PROVE  /\ Fits(data \o (<<H!Element(new, Len(value))>> \o value), H!Put(exts, new, value),
                   H!Put(place, new, Len(data) + 1))
           /\ DOMAIN H!Put(place, new, Len(data) + 1) = DOMAIN H!Put(exts, new, value)
  <1> DEFINE item == <<H!Element(new, Len(value))>> \o value
             all  == data \o item
             more == H!Put(exts, new, value)
             at   == H!Put(place, new, Len(data) + 1)
  <1>40. PICK n \in Nat, len \in 1 .. 16 : n = Len(data) /\ len = Len(value)
    BY DEF Fits
  <1>1. data \in Seq(AnyOctet) /\ n \in Nat /\ exts \in ExtSets /\ len \in 1 .. 16
    BY <1>40, Zenon DEF Fits
  <1>2. /\ item \in Seq(Plain) /\ Len(item) = 1 + len /\ item[1] = H!Element(new, len)
        /\ \A j \in 1 .. len : item[1 + j] = value[j]
    <2> DEFINE e == H!Element(new, len)
    <2>1. e \in Plain
      <3>1. new \in Int /\ len \in Int
        BY <1>1
      <3> QED BY <3>1, PlainOctets
    <2> HIDE DEF e
    <2>2. <<e>> \in Seq(Plain) /\ Len(<<e>>) = 1 /\ <<e>>[1] = e
      BY <2>1
    <2>3. /\ <<e>> \o value \in Seq(Plain) /\ Len(<<e>> \o value) = 1 + len
          /\ \A i \in 1 .. 1 + len : (<<e>> \o value)[i] = IF i <= 1 THEN <<e>>[i] ELSE value[i - 1]
      <3>1. PICK one \in Seq(Plain) : one = <<e>> /\ Len(one) = 1
        BY <2>2, Zenon
      <3>2. /\ one \o value \in Seq(Plain) /\ Len(one \o value) = 1 + len
            /\ \A i \in 1 .. 1 + len : (one \o value)[i] = IF i <= 1 THEN one[i] ELSE value[i - 1]
        BY <1>40, <3>1, ConcatProperties
      <3> QED BY <3>1, <3>2, Zenon
    <2>4. (<<e>> \o value)[1] = e
      BY <1>1, <2>2, <2>3
    <2>5. \A j \in 1 .. len : 1 + j \in 1 .. 1 + len /\ ~ (1 + j <= 1) /\ (1 + j) - 1 = j
      BY <1>1
    <2>6. \A j \in 1 .. len : (<<e>> \o value)[1 + j] = value[j]
      BY <2>3, <2>5
    <2> QED BY <2>3, <2>4, <2>6 DEF e
  <1> HIDE DEF item
  <1>3. item \in Seq(AnyOctet)
    BY <1>2, PlainOctets
  <1>4. /\ all \in Seq(AnyOctet) /\ Len(all) = n + (1 + len)
        /\ \A i \in 1 .. n + (1 + len) : all[i] = IF i <= n THEN data[i] ELSE item[i - n]
    <2>1. /\ all \in Seq(AnyOctet) /\ Len(all) = Len(data) + Len(item)
          /\ \A i \in 1 .. Len(data) + Len(item) : all[i] = IF i <= Len(data) THEN data[i] ELSE item[i - Len(data)]
      BY <1>1, <1>3, ConcatProperties
    <2>2. Len(data) + Len(item) = n + (1 + len) /\ Len(data) = n
      BY <1>2, <1>40
    <2> QED BY <2>1, <2>2, Zenon
  <1> HIDE DEF all
  <1>5. \A i \in 1 .. n : i \in 1 .. Len(all) /\ all[i] = data[i]
    <2>1. \A i \in 1 .. n : i \in 1 .. n + (1 + len) /\ i <= n
      OBVIOUS
    <2> QED BY <2>1, <1>4
  <1>6. n + 1 \in 1 .. Len(all) /\ all[n + 1] = H!Element(new, len)
    <2>1. n + 1 \in 1 .. n + (1 + len) /\ ~ (n + 1 <= n) /\ (n + 1) - n = 1
      OBVIOUS
    <2> QED BY <1>2, <1>4, <2>1, Zenon
  <1>7. \A j \in 1 .. len : all[n + 1 + j] = value[j]
    <2> SUFFICES ASSUME NEW j \in 1 .. len PROVE all[n + 1 + j] = value[j]
      OBVIOUS
    <2>1. n + 1 + j \in 1 .. n + (1 + len) /\ ~ (n + 1 + j <= n) /\ (n + 1 + j) - n = 1 + j
      OBVIOUS
    <2>2. all[n + 1 + j] = item[(n + 1 + j) - n]
      BY <1>4, <2>1, Zenon
    <2> QED BY <1>2, <2>1, <2>2, Zenon
  <1>8. /\ DOMAIN more = DOMAIN exts \cup {new} /\ more[new] = value /\ at[new] = n + 1
        /\ \A id \in DOMAIN exts : more[id] = exts[id] /\ at[id] = place[id] /\ id # new
        /\ DOMAIN at = DOMAIN more
    BY <1>40 DEF H!Put
  <1>9. more \in ExtSets
    <2>1. DOMAIN exts \subseteq 1 .. 14 /\ \A id \in DOMAIN exts : exts[id] \in Seq(Plain) /\ Len(exts[id]) \in 1 .. 16
      BY <1>1, ExtFacts
    <2>2. more \in [DOMAIN exts \cup {new} -> Seq(Plain)]
      BY <2>1 DEF H!Put
    <2>3. \A id \in DOMAIN more : Len(more[id]) \in 1 .. 16
      BY <1>8, <2>1
    <2>4. DOMAIN exts \cup {new} \in SUBSET (1 .. 14)
      BY <2>1, Zenon
    <2> HIDE DEF more
    <2> QED BY <2>2, <2>3, <2>4, Zenon DEF ExtSets
  <1> HIDE DEF more, at
  <1>10. ASSUME NEW id \in DOMAIN exts
         PROVE  /\ place[id] \in 1 .. n /\ place[id] + Len(exts[id]) <= n /\ Len(exts[id]) \in 1 .. 16
                /\ data[place[id]] = H!Element(id, Len(exts[id]))
                /\ \A j \in 1 .. Len(exts[id]) : place[id] + j \in 1 .. n /\ data[place[id] + j] = exts[id][j]
    <2>1. /\ place[id] \in 1 .. n /\ place[id] + Len(exts[id]) <= n
          /\ data[place[id]] = H!Element(id, Len(exts[id]))
          /\ \A j \in 1 .. Len(exts[id]) : data[place[id] + j] = exts[id][j]
      BY <1>40 DEF Fits
    <2>2. Len(exts[id]) \in 1 .. 16
      BY <1>1, ExtFacts
    <2>3. \A j \in 1 .. Len(exts[id]) : place[id] + j \in 1 .. n
      BY <2>1, <2>2, <1>1
    <2> QED BY <2>1, <2>2, <2>3
  <1>11. ASSUME NEW id \in DOMAIN more
         PROVE  /\ at[id] \in 1 .. Len(all) /\ at[id] + Len(more[id]) <= Len(all)
                /\ all[at[id]] = H!Element(id, Len(more[id]))
                /\ \A j \in 1 .. Len(more[id]) : all[at[id] + j] = more[id][j]
    <2>1. CASE id = new
      <3>1. at[id] = n + 1 /\ more[id] = value
        BY <1>8, <2>1
      <3>2. n + 1 + len <= Len(all)
        <4>1. n + 1 + len <= n + (1 + len)
          OBVIOUS
        <4> QED BY <1>4, <4>1
      <3> QED BY <1>6, <1>7, <2>1, <3>1, <3>2, <1>40
    <2>2. CASE id # new
      <3>1. id \in DOMAIN exts /\ at[id] = place[id] /\ more[id] = exts[id]
        BY <1>8, <2>2
      <3>2. PICK p \in 1 .. n, l \in 1 .. 16 : p = place[id] /\ l = Len(exts[id])
        BY <1>10, <3>1
      <3>3. p + l <= n
        BY <1>10, <3>1, <3>2
      <3>4. p + l <= n + (1 + len)
        BY <3>3
      <3>5. all[p] = H!Element(id, l) /\ p \in 1 .. Len(all)
        BY <1>5, <1>10, <3>1, <3>2, Zenon
      <3>6. \A j \in 1 .. l : p + j \in 1 .. n /\ data[p + j] = exts[id][j]
        BY <1>10, <3>1, <3>2
      <3>7. \A j \in 1 .. l : all[p + j] = exts[id][j]
        BY <1>5, <3>6
      <3> QED BY <1>4, <3>1, <3>2, <3>4, <3>5, <3>7
    <2> QED BY <2>1, <2>2
  <1>12. ASSUME NEW a \in DOMAIN more, NEW b \in DOMAIN more, a # b
         PROVE  at[a] + Len(more[a]) < at[b] \/ at[b] + Len(more[b]) < at[a]
    <2>1. CASE a \in DOMAIN exts /\ b \in DOMAIN exts
      BY <1>8, <1>12, <2>1 DEF Fits
    <2>2. CASE a = new
      <3>1. b \in DOMAIN exts
        BY <1>8, <1>12, <2>2
      <3>2. place[b] + Len(exts[b]) < n + 1
        BY <1>1, <1>10, <3>1
      <3> QED BY <1>8, <2>2, <3>1, <3>2
    <2>3. CASE b = new
      <3>1. a \in DOMAIN exts
        BY <1>8, <1>12, <2>3
      <3>2. place[a] + Len(exts[a]) < n + 1
        BY <1>1, <1>10, <3>1
      <3> QED BY <1>8, <2>3, <3>1, <3>2
    <2> QED BY <1>8, <2>1, <2>2, <2>3
  <1>13. ASSUME NEW i \in 1 .. Len(all)
         PROVE  all[i] = H!Zero \/ \E id \in DOMAIN more : at[id] <= i /\ i <= at[id] + Len(more[id])
    <2>1. CASE i <= n
      <3>1. i \in 1 .. n /\ i \in 1 .. Len(data)
        BY <1>1, <2>1, <1>40
      <3>2. data[i] = H!Zero \/ \E id \in DOMAIN exts : place[id] <= i /\ i <= place[id] + Len(exts[id])
        BY <3>1 DEF Fits
      <3> QED BY <1>5, <1>8, <3>1, <3>2
    <2>2. CASE ~ (i <= n)
      <3>1. n + 1 <= i /\ i <= n + 1 + len
        <4>1. i \in 1 .. n + (1 + len)
          BY <1>4
        <4> QED BY <2>2, <4>1
      <3> QED BY <1>8, <3>1, <1>40
    <2> QED BY <2>1, <2>2
  <1>14. Fits(all, more, at)
    BY <1>4, <1>9, <1>11, <1>12, <1>13 DEF Fits
  <1> QED BY <1>8, <1>14, <1>40 DEF all, item, more, at

-----------------------------------------------------------------------------
(* A function on 1 .. n is a sequence of length n.                         *)
LEMMA FcnSeq ==
    ASSUME NEW Es, NEW n \in Nat, NEW f \in [1 .. n -> Es]
    PROVE  f \in Seq(Es) /\ Len(f) = n
  BY SeqDef

(* n octets of one kind, all of them v.                                    *)
LEMMA OctetsFacts ==
    ASSUME NEW what \in Kinds, NEW v \in Int, NEW n \in Nat
    PROVE  /\ H!Octets(what, v, n) \in Seq(AnyOctet) /\ Len(H!Octets(what, v, n)) = n
           /\ \A i \in 1 .. n : H!Octets(what, v, n)[i].v = v /\ H!Octets(what, v, n)[i].what = what
           /\ what # "osn" => H!Octets(what, v, n) \in Seq(Plain)
  <1>1. ASSUME NEW i \in 1 .. n
        PROVE  /\ H!Octet(what, v, i) \in AnyOctet /\ H!Octet(what, v, i).v = v /\ H!Octet(what, v, i).what = what
               /\ what # "osn" => H!Octet(what, v, i) \in Plain
    <2>1. H!Octet(what, v, i) \in AnyOctet /\ H!Octet(what, v, i).v = v /\ H!Octet(what, v, i).what = what
      BY DEF H!Octet, AnyOctet
    <2> QED BY <2>1 DEF Plain
  <1>2. H!Octets(what, v, n) = [i \in 1 .. n |-> H!Octet(what, v, i)]
    BY DEF H!Octets
  <1>3. H!Octets(what, v, n) \in [1 .. n -> AnyOctet]
    BY <1>1, <1>2
  <1>4. what # "osn" => H!Octets(what, v, n) \in [1 .. n -> Plain]
    BY <1>1, <1>2
  <1>5. \A Es : [1 .. n -> Es] \subseteq Seq(Es)
    BY SeqDef
  <1>6. Len(H!Octets(what, v, n)) = n
    BY <1>3
  <1> QED BY <1>1, <1>2, <1>3, <1>4, <1>5, <1>6

(* What writeExtensions writes (rtp.js:657-700): a header of four octets   *)
(* that counts the words, and data that holds each extension.              *)
LEMMA WriteFits ==
    ASSUME NEW exts \in ExtSets
    PROVE  \E w \in Nat : \E data, place :
              /\ Fits(data, exts, place) /\ Len(data) = 4 * w
              /\ H!WriteExtensions(exts) = (H!Octets("profile", H!OneByte, 2) \o H!Octets("words", w, 2)) \o data
  <1> DEFINE Item(i) == IF i - 1 \notin DOMAIN exts THEN <<>>
                        ELSE <<H!Element(i - 1, Len(exts[i - 1]))>> \o exts[i - 1]
             items == [i \in 1 .. 16 |-> Item(i)]
             Sub(k) == [id \in {d \in DOMAIN exts : d < k} |-> exts[id]]
  <1>0. exts = [id \in DOMAIN exts |-> exts[id]]
    BY ExtFacts
  <1>1. /\ DOMAIN exts \subseteq 1 .. 14
        /\ \A id \in DOMAIN exts : exts[id] \in Seq(Plain) /\ Len(exts[id]) \in 1 .. 16
    BY ExtFacts
  <1>2. ASSUME NEW i \in 1 .. 16 PROVE Item(i) \in Seq(Plain)
    <2>1. CASE i - 1 \notin DOMAIN exts
      BY <2>1, EmptySeq
    <2>2. CASE i - 1 \in DOMAIN exts
      <3>1. H!Element(i - 1, Len(exts[i - 1])) \in Plain
        <4>1. PICK len \in 1 .. 16 : len = Len(exts[i - 1])
          BY <1>1, <2>2
        <4>2. i - 1 \in Int /\ len \in Int
          OBVIOUS
        <4> QED BY <4>1, <4>2, PlainOctets
      <3>2. PICK e \in Plain : e = H!Element(i - 1, Len(exts[i - 1]))
        BY <3>1
      <3>3. <<e>> \in Seq(Plain) /\ exts[i - 1] \in Seq(Plain)
        BY <1>1, <2>2
      <3>4. <<e>> \o exts[i - 1] \in Seq(Plain)
        BY <3>3, ConcatProperties
      <3> QED BY <3>2, <3>4, <2>2
    <2> QED BY <2>1, <2>2
  <1>3. items \in Seq(Seq(Plain)) /\ Len(items) = 16 /\ \A i \in 1 .. 16 : items[i] = Item(i)
    <2> HIDE DEF Item
    <2>1. items \in [1 .. 16 -> Seq(Plain)]
      BY <1>2
    <2>2. items \in Seq(Seq(Plain)) /\ Len(items) = 16
      <3>1. 16 \in Nat
        OBVIOUS
      <3> HIDE DEF items
      <3> QED BY <2>1, <3>1, FcnSeq, Zenon
    <2>3. \A i \in 1 .. 16 : items[i] = Item(i)
      OBVIOUS
    <2> HIDE DEF items
    <2> QED BY <2>1, <2>2, <2>3
  <1> HIDE DEF items
  <1>4. PICK f : /\ f[0] = <<>> /\ \A i \in 1 .. 16 : f[i] = f[i - 1] \o items[i]
                 /\ \A i \in 0 .. 16 : f[i] \in Seq(Plain)
                 /\ H!Seqs!FlattenSeq(items) = f[16]
    <2>1. PICK f : /\ f[0] = <<>> /\ \A i \in 1 .. Len(items) : f[i] = f[i - 1] \o items[i]
                   /\ \A i \in 0 .. Len(items) : f[i] \in Seq(Plain)
                   /\ H!Seqs!FlattenSeq(items) = f[Len(items)]
      BY <1>3, Flattens, Zenon
    <2> QED BY <1>3, <2>1, Zenon
  <1> DEFINE Es == {k \in Nat : k <= 16 => \E place : Fits(f[k], Sub(k), place) /\ DOMAIN place = DOMAIN Sub(k)}
  <1>5. ASSUME NEW k \in Nat PROVE Sub(k) \in ExtSets
    <2>1. {d \in DOMAIN exts : d < k} \in SUBSET (1 .. 14) /\ Sub(k) \in [{d \in DOMAIN exts : d < k} -> Seq(Plain)]
      BY <1>1
    <2>2. \A id \in DOMAIN Sub(k) : Len(Sub(k)[id]) \in 1 .. 16
      BY <1>1
    <2> HIDE DEF Sub
    <2> QED BY <2>1, <2>2, Zenon DEF ExtSets
  <1>6. 0 \in Es
    <2>1. DOMAIN Sub(0) = {}
      BY <1>1
    <2>2. PICK place : place = <<>> /\ DOMAIN place = {}
      OBVIOUS
    <2>3. Sub(0) \in ExtSets
      BY <1>5
    <2>4. f[0] \in Seq(AnyOctet) /\ Len(f[0]) = 0
      BY <1>4, EmptySeq
    <2> HIDE DEF Sub
    <2>5. Fits(f[0], Sub(0), place)
      BY <2>1, <2>3, <2>4 DEF Fits
    <2> QED BY <2>1, <2>2, <2>5
  <1>7. ASSUME NEW k \in Nat, k \in Es PROVE k + 1 \in Es
    <2> HIDE DEF Sub, Item
    <2> SUFFICES ASSUME k + 1 <= 16
                 PROVE  \E place : Fits(f[k + 1], Sub(k + 1), place) /\ DOMAIN place = DOMAIN Sub(k + 1)
      OBVIOUS
    <2>0. k <= 16
      OBVIOUS
    <2>1. PICK place : Fits(f[k], Sub(k), place) /\ DOMAIN place = DOMAIN Sub(k)
      BY <1>7, <2>0
    <2>2. PICK i \in 1 .. 16 : i = k + 1
      OBVIOUS
    <2>3. f[i] = f[i - 1] \o items[i] /\ i - 1 = k
      <3>1. f[i] = f[i - 1] \o items[i]
        BY <1>4, Zenon
      <3>2. i - 1 = k
        BY <2>2
      <3> QED BY <3>1, <3>2
    <2>4. f[k + 1] = f[k] \o Item(k + 1)
      BY <1>3, <2>2, <2>3, Zenon
    <2>5. CASE k \notin DOMAIN exts
      <3>1. (k + 1) - 1 = k
        OBVIOUS
      <3>2. Item(k + 1) = <<>>
        BY <2>5, <3>1 DEF Item
      <3>3. f[k] \o <<>> = f[k]
        BY <1>4, ConcatEmptySeq
      <3>4. {d \in DOMAIN exts : d < k + 1} = {d \in DOMAIN exts : d < k}
        BY <1>1, <2>5
      <3>5. Sub(k + 1) = Sub(k)
        BY <3>4 DEF Sub
      <3> QED BY <2>1, <2>4, <3>2, <3>3, <3>5, Zenon
    <2>6. CASE k \in DOMAIN exts
      <3>1. (k + 1) - 1 = k
        OBVIOUS
      <3>2. Item(k + 1) = <<H!Element(k, Len(exts[k]))>> \o exts[k]
        BY <2>6, <3>1 DEF Item
      <3>3. {d \in DOMAIN exts : d < k + 1} = {d \in DOMAIN exts : d < k} \cup {k} /\ k \in 1 .. 14
        <4>1. k \in 1 .. 14
          BY <1>1, <2>6, Zenon
        <4>2. \A d \in DOMAIN exts : d < k + 1 <=> d < k \/ d = k
          BY <1>1
        <4> QED BY <2>6, <4>1, <4>2
      <3>4. Sub(k + 1) = H!Put(Sub(k), k, exts[k])
        BY <3>3 DEF H!Put, Sub
      <3>5. k \notin DOMAIN Sub(k)
        BY DEF Sub
      <3>6. exts[k] \in Seq(Plain) /\ Len(exts[k]) \in 1 .. 16
        BY <1>1, <2>6
      <3>7. /\ Fits(f[k] \o (<<H!Element(k, Len(exts[k]))>> \o exts[k]), H!Put(Sub(k), k, exts[k]),
                    H!Put(place, k, Len(f[k]) + 1))
            /\ DOMAIN H!Put(place, k, Len(f[k]) + 1) = DOMAIN H!Put(Sub(k), k, exts[k])
        <4>1. PICK sub, value, d : sub = Sub(k) /\ value = exts[k] /\ d = f[k]
          OBVIOUS
        <4>2. /\ Fits(d, sub, place) /\ DOMAIN place = DOMAIN sub /\ k \in 1 .. 14 /\ k \notin DOMAIN sub
              /\ value \in Seq(Plain) /\ Len(value) \in 1 .. 16
          BY <2>1, <3>3, <3>5, <3>6, <4>1
        <4>3. Fits(d \o (<<H!Element(k, Len(value))>> \o value), H!Put(sub, k, value), H!Put(place, k, Len(d) + 1))
          BY <4>2, FitsMore
        <4>4. DOMAIN H!Put(place, k, Len(d) + 1) = DOMAIN H!Put(sub, k, value)
          BY <4>2 DEF H!Put
        <4> QED BY <4>1, <4>3, <4>4, Zenon
      <3> QED BY <2>4, <3>2, <3>4, <3>7, Zenon
    <2> QED BY <2>5, <2>6
  <1>8. 16 \in Es
    <2> HIDE DEF Es
    <2> QED BY <1>6, <1>7, Induct
  <1>9. PICK place : Fits(f[16], Sub(16), place)
    BY <1>8
  <1>10. Sub(16) = exts
    <2>1. \A d \in DOMAIN exts : d < 16
      BY <1>1
    <2>2. {d \in DOMAIN exts : d < 16} = DOMAIN exts
      BY <2>1, Zenon
    <2> QED BY <1>0, <2>2, Zenon
  <1> HIDE DEF Sub
  <1>11. f[16] \in Seq(Plain) /\ f[16] \in Seq(AnyOctet)
    BY <1>4, PlainSeq
  <1>12. PICK n \in Nat : n = Len(f[16])
    BY <1>11
  <1>13. PICK w \in Nat : w = (n + 3) \div 4
    OBVIOUS
  <1>14. 4 * w - n \in Nat /\ n + (4 * w - n) = 4 * w
    BY <1>13
  <1>15. PICK zeros : zeros = [i \in 1 .. 4 * w - n |-> H!Zero]
    BY Zenon
  <1>16. zeros \in Seq(Plain) /\ Len(zeros) = 4 * w - n /\ \A i \in 1 .. Len(zeros) : zeros[i] = H!Zero
    <2>1. PICK m \in Nat : m = 4 * w - n
      BY <1>14, Zenon
    <2>2. zeros \in [1 .. m -> Plain]
      BY <1>15, <2>1, PlainOctets
    <2>3. [1 .. m -> Plain] \subseteq Seq(Plain)
      BY SeqDef
    <2> QED BY <1>15, <2>1, <2>2, <2>3
  <1>17. PICK data : data = f[16] \o zeros
    BY Zenon
  <1>18. Fits(data, exts, place)
    BY <1>9, <1>10, <1>16, <1>17, FitsPadded
  <1>19. Len(data) = 4 * w
    BY <1>11, <1>12, <1>14, <1>16, <1>17, PlainSeq, ConcatProperties
  <1> DEFINE head == H!Octets("profile", H!OneByte, 2) \o H!Octets("words", w, 2)
  <1>20. head \in Seq(AnyOctet)
    <2>1. H!Octets("profile", H!OneByte, 2) \in Seq(AnyOctet)
      BY OctetsFacts DEF H!OneByte, Kinds
    <2>2. H!Octets("words", w, 2) \in Seq(AnyOctet)
      BY OctetsFacts DEF Kinds
    <2> QED BY <2>1, <2>2, ConcatProperties
  <1>21. H!WriteExtensions(exts) = (head \o f[16]) \o zeros
    BY <1>4, <1>12, <1>13, <1>15, Zenon DEF H!WriteExtensions, items
  <1> HIDE DEF head
  <1>22. H!WriteExtensions(exts) = head \o data
    <2>1. zeros \in Seq(AnyOctet)
      BY <1>16, PlainSeq
    <2>2. (head \o f[16]) \o zeros = head \o (f[16] \o zeros)
      <3>1. PICK a \in Seq(AnyOctet), b \in Seq(AnyOctet) : a = head /\ b = f[16]
        BY <1>11, <1>20
      <3>2. (a \o b) \o zeros = a \o (b \o zeros)
        BY <2>1, ConcatAssociative
      <3> QED BY <3>1, <3>2, Zenon
    <2> QED BY <1>17, <1>21, <2>2, Zenon
  <1>23. H!WriteExtensions(exts) = (H!Octets("profile", H!OneByte, 2) \o H!Octets("words", w, 2)) \o data
    BY <1>22, Zenon DEF head
  <1> QED BY <1>18, <1>19, <1>23, Zenon

-----------------------------------------------------------------------------
(* The parts of a sequence made of three.                                  *)
LEMMA Middle ==
    ASSUME NEW Es, NEW a \in Seq(Es), NEW b \in Seq(Es), NEW c \in Seq(Es)
    PROVE  /\ (a \o b) \o c \in Seq(Es) /\ Len((a \o b) \o c) = Len(a) + Len(b) + Len(c)
           /\ \A i \in 1 .. Len(a) : ((a \o b) \o c)[i] = a[i]
           /\ \A i \in 1 .. Len(b) : ((a \o b) \o c)[Len(a) + i] = b[i]
           /\ \A i \in 1 .. Len(c) : ((a \o b) \o c)[Len(a) + Len(b) + i] = c[i]
           /\ SubSeq((a \o b) \o c, Len(a) + 1, Len(a) + Len(b)) = b
  <1>1. PICK k \in Nat, m \in Nat, n \in Nat : k = Len(a) /\ m = Len(b) /\ n = Len(c)
    OBVIOUS
  <1>2. PICK ab : ab = a \o b
    BY Zenon
  <1>3. /\ ab \in Seq(Es) /\ Len(ab) = k + m
        /\ \A i \in 1 .. k + m : ab[i] = IF i <= k THEN a[i] ELSE b[i - k]
    BY <1>1, <1>2, ConcatProperties
  <1>4. PICK t : t = ab \o c
    BY Zenon
  <1>5. t \in Seq(Es) /\ Len(t) = k + m + n
    <2>1. t \in Seq(Es) /\ Len(t) = Len(ab) + Len(c)
      BY <1>3, <1>4, ConcatProperties, Zenon
    <2> QED BY <1>1, <1>3, <2>1
  <1>6. \A i \in 1 .. k + m + n : t[i] = IF i <= k + m THEN ab[i] ELSE c[i - (k + m)]
    <2>1. \A i \in 1 .. Len(ab) + Len(c) : t[i] = IF i <= Len(ab) THEN ab[i] ELSE c[i - Len(ab)]
      BY <1>3, <1>4, ConcatProperties, Zenon
    <2>2. Len(ab) + Len(c) = k + m + n
      BY <1>1, <1>3
    <2> QED BY <1>3, <2>1, <2>2
  <1>7. ASSUME NEW i \in 1 .. k PROVE t[i] = a[i]
    <2>1. i \in 1 .. k + m + n /\ i <= k + m /\ i <= k /\ i \in 1 .. k + m
      OBVIOUS
    <2> QED BY <1>3, <1>6, <2>1
  <1>8. ASSUME NEW i \in 1 .. m PROVE t[k + i] = b[i]
    <2>1. PICK j \in Int : j = k + i
      OBVIOUS
    <2>2. j \in 1 .. k + m + n /\ j <= k + m /\ ~ (j <= k) /\ j \in 1 .. k + m /\ j - k = i
      BY <2>1
    <2>3. t[j] = ab[j] /\ ab[j] = b[j - k]
      BY <1>3, <1>6, <2>2, Zenon
    <2> QED BY <2>1, <2>2, <2>3, Zenon
  <1>9. ASSUME NEW i \in 1 .. n PROVE t[k + m + i] = c[i]
    <2>1. PICK j \in Int : j = k + m + i
      OBVIOUS
    <2>2. j \in 1 .. k + m + n /\ ~ (j <= k + m) /\ j - (k + m) = i
      BY <2>1
    <2>3. t[j] = c[j - (k + m)]
      BY <1>6, <2>2
    <2> QED BY <2>1, <2>2, <2>3, Zenon
  <1>10. SubSeq(t, k + 1, k + m) = b
    <2>1. \A i \in k + 1 .. k + m : i \in 1 .. k + m + n
      OBVIOUS
    <2>2. \A i \in k + 1 .. k + m : t[i] \in Es
      BY <1>5, <2>1, ElementOfSeq
    <2>3. k + 1 \in Int /\ k + m \in Int
      OBVIOUS
    <2>4. /\ SubSeq(t, k + 1, k + m) \in Seq(Es)
          /\ Len(SubSeq(t, k + 1, k + m)) = IF k + 1 <= k + m THEN (k + m) - (k + 1) + 1 ELSE 0
          /\ \A i \in 1 .. (k + m) - (k + 1) + 1 : SubSeq(t, k + 1, k + m)[i] = t[(k + 1) + i - 1]
      BY <2>2, <2>3, SubSeqProperties
    <2>5. (IF k + 1 <= k + m THEN (k + m) - (k + 1) + 1 ELSE 0) = m /\ (k + m) - (k + 1) + 1 = m
      OBVIOUS
    <2>6. PICK s : s = SubSeq(t, k + 1, k + m)
      BY Zenon
    <2>7. s \in Seq(Es) /\ Len(s) = m /\ \A i \in 1 .. m : s[i] = t[(k + 1) + i - 1]
      BY <2>4, <2>5, <2>6, Zenon
    <2>8. ASSUME NEW i \in 1 .. m PROVE s[i] = b[i]
      <3>1. (k + 1) + i - 1 = k + i
        OBVIOUS
      <3>2. s[i] = t[(k + 1) + i - 1]
        BY <2>7
      <3> QED BY <1>8, <3>1, <3>2, Zenon
    <2>9. s = b
      BY <1>1, <2>7, <2>8, SeqEqual
    <2> QED BY <2>6, <2>9
  <1> QED BY <1>1, <1>2, <1>4, <1>5, <1>7, <1>8, <1>9, <1>10, Zenon

(* Both parts of a concatenation, cut out of it again.                     *)
LEMMA Ends ==
    ASSUME NEW Es, NEW a \in Seq(Es), NEW b \in Seq(Es)
    PROVE  /\ a \o b \in Seq(Es) /\ Len(a \o b) = Len(a) + Len(b)
           /\ SubSeq(a \o b, 1, Len(a)) = a
           /\ SubSeq(a \o b, Len(a) + 1, Len(a \o b)) = b
           /\ SubSeq(a \o b, Len(a) + 1, Len(a) + Len(b)) = b
           /\ \A i \in 1 .. Len(a) : (a \o b)[i] = a[i]
           /\ \A i \in 1 .. Len(b) : (a \o b)[Len(a) + i] = b[i]
  <1>1. /\ a \o b \in Seq(Es) /\ Len(a \o b) = Len(a) + Len(b) /\ Len(a) \in Nat /\ Len(b) \in Nat
        /\ <<>> \in Seq(Es) /\ Len(<<>>) = 0 /\ <<>> \o a = a /\ (a \o b) \o <<>> = a \o b
    BY ConcatProperties, EmptySeq, ConcatEmptySeq
  <1>2. SubSeq((<<>> \o a) \o b, Len(<<>>) + 1, Len(<<>>) + Len(a)) = a
    BY <1>1, Middle
  <1>3. SubSeq((a \o b) \o <<>>, Len(a) + 1, Len(a) + Len(b)) = b
    BY <1>1, Middle
  <1>4. 0 + 1 = 1 /\ 0 + Len(a) = Len(a)
    BY <1>1
  <1>5. SubSeq(a \o b, 1, Len(a)) = a
    BY <1>1, <1>2, <1>4, Zenon
  <1>6. SubSeq(a \o b, Len(a) + 1, Len(a) + Len(b)) = b
    BY <1>1, <1>3, Zenon
  <1>7. /\ \A i \in 1 .. Len(a) : ((a \o b) \o <<>>)[i] = a[i]
        /\ \A i \in 1 .. Len(b) : ((a \o b) \o <<>>)[Len(a) + i] = b[i]
    BY <1>1, Middle
  <1> QED BY <1>1, <1>5, <1>6, <1>7, Zenon


(* The same of octets.                                                     *)
Octs == Seq(AnyOctet)
(* The same for octets, as facts to cite one by one: the length of a       *)
(* concatenation, what stands in its front and its back, and its parts.    *)
LEMMA Cat == \A a, b \in Octs : a \o b \in Octs /\ Len(a \o b) = Len(a) + Len(b)
  BY ConcatProperties DEF Octs
LEMMA CatEmpty == <<>> \in Octs /\ Len(<<>>) = 0 /\ \A a \in Octs : a \o <<>> = a /\ <<>> \o a = a
  BY ConcatEmptySeq, EmptySeq DEF Octs
LEMMA Assoc == \A a, b, c \in Octs : (a \o b) \o c = a \o (b \o c)
  BY ConcatAssociative DEF Octs
LEMMA Front == \A a, b \in Octs : SubSeq(a \o b, 1, Len(a)) = a
  BY Ends DEF Octs
LEMMA Back == \A a, b \in Octs : SubSeq(a \o b, Len(a) + 1, Len(a) + Len(b)) = b
  BY Ends DEF Octs
LEMMA Part == \A a, b, c \in Octs : SubSeq((a \o b) \o c, Len(a) + 1, Len(a) + Len(b)) = b
  BY Middle DEF Octs
LEMMA InFront == \A a, b \in Octs : \A i \in 1 .. Len(a) : (a \o b)[i] = a[i]
  BY Ends DEF Octs
LEMMA InBack == \A a, b \in Octs : \A i \in 1 .. Len(b) : (a \o b)[Len(a) + i] = b[i]
  BY Ends DEF Octs
LEMMA InPart == \A a, b, c \in Octs : \A i \in 1 .. Len(b) : ((a \o b) \o c)[Len(a) + i] = b[i]
  BY Middle DEF Octs
LEMMA LenNat == \A a \in Octs : Len(a) \in Nat
  BY DEF Octs
(* OctetsFacts for any kind, value and number.                             *)
LEMMA OctetsIn ==
    \A what \in Kinds, v \in Int, n \in Nat :
       /\ H!Octets(what, v, n) \in Octs /\ Len(H!Octets(what, v, n)) = n
       /\ \A i \in 1 .. n : H!Octets(what, v, n)[i].v = v /\ H!Octets(what, v, n)[i].what = what
  BY OctetsFacts DEF Octs

-----------------------------------------------------------------------------
(* A packet in its parts: the contributing sources, the block, the rest.   *)
Wire == [p : BOOLEAN, x : BOOLEAN, cc : Nat, m : BOOLEAN, pt : Int, seq : Int, ts : Int, ssrc : Int, body : Octs]
CsrcOctets(csrc) == [i \in 1 .. 4 * Len(csrc) |-> H!Octet("csrc", csrc[(i + 3) \div 4], ((i - 1) % 4) + 1)]
BlockHead(w) == H!Octets("profile", H!OneByte, 2) \o H!Octets("words", w, 2)
Blocks(block, exts) == \E w \in Nat : \E data, place :
    Fits(data, exts, place) /\ Len(data) = 4 * w /\ block = BlockHead(w) \o data
Carries(pkt, csrc, exts, rest) ==
    /\ pkt \in Wire /\ csrc \in Seq(Int) /\ exts \in ExtSets /\ rest \in Octs
    /\ pkt.cc = Len(csrc)
    /\ \E block \in Octs :
          /\ pkt.body = (CsrcOctets(csrc) \o block) \o rest
          /\ IF pkt.x THEN Blocks(block, exts) ELSE block = <<>> /\ exts = H!NoExts

(* The sources stand in order, in four octets each.                        *)
LEMMA CsrcFacts ==
    ASSUME NEW csrc \in Seq(Int)
    PROVE  /\ CsrcOctets(csrc) \in Seq(Plain) /\ Len(CsrcOctets(csrc)) = 4 * Len(csrc)
           /\ CsrcOctets(csrc) \in Octs
           /\ \A i \in 1 .. Len(csrc) : 4 * i \in 1 .. 4 * Len(csrc) /\ CsrcOctets(csrc)[4 * i].v = csrc[i]
  <1>1. PICK n \in Nat : n = Len(csrc)
    OBVIOUS
  <1>2. PICK m \in Nat : m = 4 * n
    OBVIOUS
  <1>3. ASSUME NEW i \in 1 .. m PROVE (i + 3) \div 4 \in 1 .. n /\ ((i - 1) % 4) + 1 \in Int
    BY <1>2
  <1>4. ASSUME NEW i \in 1 .. m
        PROVE  H!Octet("csrc", csrc[(i + 3) \div 4], ((i - 1) % 4) + 1) \in Plain
    <2>1. csrc[(i + 3) \div 4] \in Int
      BY <1>1, <1>3, ElementOfSeq
    <2>2. ASSUME NEW v \in Int, NEW a \in Int PROVE H!Octet("csrc", v, a) \in Plain
      <3>1. H!Octet("csrc", v, a) \in AnyOctet /\ H!Octet("csrc", v, a).what # "osn"
        BY DEF H!Octet, AnyOctet, Kinds
      <3> QED BY <3>1 DEF Plain
    <2> QED BY <1>3, <2>1, <2>2
  <1>5. CsrcOctets(csrc) = [i \in 1 .. m |-> H!Octet("csrc", csrc[(i + 3) \div 4], ((i - 1) % 4) + 1)]
    BY <1>1, <1>2 DEF CsrcOctets
  <1>6. CsrcOctets(csrc) \in [1 .. m -> Plain]
    BY <1>4, <1>5
  <1>7. CsrcOctets(csrc) \in Seq(Plain) /\ Len(CsrcOctets(csrc)) = m
    BY <1>6, FcnSeq
  <1>8. ASSUME NEW i \in 1 .. n PROVE 4 * i \in 1 .. m /\ CsrcOctets(csrc)[4 * i].v = csrc[i]
    <2>1. PICK j \in Int : j = 4 * i
      OBVIOUS
    <2>2. j \in 1 .. m /\ (j + 3) \div 4 = i
      BY <1>2, <2>1
    <2>3. CsrcOctets(csrc)[j] = H!Octet("csrc", csrc[(j + 3) \div 4], ((j - 1) % 4) + 1)
      BY <1>5, <2>2
    <2>4. CsrcOctets(csrc)[j].v = csrc[(j + 3) \div 4]
      BY <2>3 DEF H!Octet
    <2> QED BY <2>1, <2>2, <2>4, Zenon
  <1> QED BY <1>1, <1>2, <1>7, <1>8, PlainSeq DEF Octs

(* What a block is made of.                                                *)
LEMMA BlockFacts ==
    ASSUME NEW w \in Nat, NEW data \in Octs, Len(data) = 4 * w
    PROVE  /\ BlockHead(w) \o data \in Octs /\ Len(BlockHead(w) \o data) = 4 + 4 * w
           /\ (BlockHead(w) \o data)[1].v = H!OneByte /\ (BlockHead(w) \o data)[3].v = w
           /\ BlockHead(w) \in Octs /\ Len(BlockHead(w)) = 4
  <1>1. PICK a \in Octs : a = H!Octets("profile", H!OneByte, 2) /\ Len(a) = 2 /\ a[1].v = H!OneByte
    <2>1. "profile" \in Kinds /\ H!OneByte \in Int /\ 2 \in Nat /\ 1 \in 1 .. 2
      BY DEF Kinds, H!OneByte
    <2>2. PICK n \in Nat : n = 2
      OBVIOUS
    <2>3. /\ H!Octets("profile", H!OneByte, n) \in Octs /\ Len(H!Octets("profile", H!OneByte, n)) = n
          /\ \A i \in 1 .. n : H!Octets("profile", H!OneByte, n)[i].v = H!OneByte
      BY <2>1, OctetsIn
    <2> QED BY <2>1, <2>2, <2>3
  <1>2. PICK b \in Octs : b = H!Octets("words", w, 2) /\ Len(b) = 2 /\ b[1].v = w
    <2>1. "words" \in Kinds /\ w \in Int /\ 2 \in Nat /\ 1 \in 1 .. 2
      BY DEF Kinds
    <2>2. PICK n \in Nat : n = 2
      OBVIOUS
    <2>3. /\ H!Octets("words", w, n) \in Octs /\ Len(H!Octets("words", w, n)) = n
          /\ \A i \in 1 .. n : H!Octets("words", w, n)[i].v = w
      BY <2>1, OctetsIn
    <2> QED BY <2>1, <2>2, <2>3
  <1>3. BlockHead(w) = a \o b
    BY <1>1, <1>2 DEF BlockHead
  <1>4. a \o b \in Octs /\ Len(a \o b) = Len(a) + Len(b)
    BY Cat
  <1>50. Len(a) = 2 /\ Len(b) = 2
    BY <1>1, <1>2
  <1>5. Len(a \o b) = 4
    BY <1>4, <1>50
  <1>6. (a \o b) \o data \in Octs /\ Len((a \o b) \o data) = Len(a \o b) + Len(data)
    BY <1>4, Cat, Zenon
  <1>7. Len((a \o b) \o data) = 4 + 4 * w
    BY <1>5, <1>6
  <1>8. 1 \in 1 .. 2 /\ 1 \in 1 .. 4 /\ 2 + 1 = 3
    OBVIOUS
  <1>9. ((a \o b) \o data)[1] = (a \o b)[1] /\ (a \o b)[1] = a[1]
    <2>1. \A i \in 1 .. Len(a \o b) : ((a \o b) \o data)[i] = (a \o b)[i]
      BY <1>4, InFront
    <2>2. \A i \in 1 .. Len(a) : (a \o b)[i] = a[i]
      BY InFront
    <2> QED BY <1>5, <1>50, <1>8, <2>1, <2>2, Zenon
  <1>10. ((a \o b) \o data)[3] = b[1]
    <2>1. \A i \in 1 .. Len(b) : ((a \o b) \o data)[Len(a) + i] = b[i]
      BY InPart
    <2> QED BY <1>50, <1>8, <2>1, Zenon
  <1> QED BY <1>1, <1>2, <1>3, <1>4, <1>5, <1>6, <1>7, <1>9, <1>10, Zenon

(* The code's offsets are those of the parts (rtp.js:151-233).             *)
Laid(pkt, csrc, exts, rest, block) ==
    LET head == CsrcOctets(csrc)
        end  == Len(head) + Len(block)
    IN  /\ head \in Octs /\ Len(head) = H!CsrcEnd(pkt)
        /\ pkt.body = (head \o block) \o rest /\ Len(pkt.body) = end + Len(rest)
        /\ SubSeq(pkt.body, 1, H!CsrcEnd(pkt)) = head
        /\ SubSeq(pkt.body, 1, end) = head \o block
        /\ SubSeq(pkt.body, end + 1, Len(pkt.body)) = rest
        /\ H!HasBlock(pkt) <=> pkt.x
        /\ ~ pkt.x => block = <<>> /\ Len(block) = 0 /\ exts = H!NoExts
        /\ pkt.x => /\ H!IsOneByte(pkt) /\ H!BlockEnd(pkt) = end
                    /\ \E w \in Nat :
                          /\ SubSeq(pkt.body, 1, H!CsrcEnd(pkt) + 4) = head \o BlockHead(w)
                          /\ block = BlockHead(w) \o H!BlockData(pkt)
                          /\ Len(H!BlockData(pkt)) = 4 * w
                    /\ \E place : Fits(H!BlockData(pkt), exts, place)

(* Where in the body of a packet the parts of what it carries stand.       *)
LEMMA Layout ==
    ASSUME NEW pkt, NEW csrc, NEW exts, NEW rest, Carries(pkt, csrc, exts, rest)
    PROVE  \E block \in Octs : Laid(pkt, csrc, exts, rest, block)
  <1> DEFINE head == CsrcOctets(csrc)
  <1>1. PICK block \in Octs :
              /\ pkt.body = (head \o block) \o rest
              /\ IF pkt.x THEN Blocks(block, exts) ELSE block = <<>> /\ exts = H!NoExts
    BY Zenon DEF Carries
  <1>2. pkt \in Wire /\ csrc \in Seq(Int) /\ exts \in ExtSets /\ rest \in Octs /\ pkt.cc = Len(csrc)
    BY DEF Carries
  <1>3. PICK k \in Nat : k = Len(csrc)
    BY <1>2
  <1>4. head \in Octs /\ Len(head) = 4 * k /\ H!CsrcEnd(pkt) = 4 * k
    BY <1>2, <1>3, CsrcFacts DEF H!CsrcEnd
  <1> HIDE DEF head
  <1>5. PICK b \in Nat, n \in Nat : b = Len(block) /\ n = Len(rest)
    BY <1>2, LenNat
  <1>6. PICK hb \in Octs : hb = head \o block /\ Len(hb) = 4 * k + b
    <2>1. head \o block \in Octs /\ Len(head \o block) = Len(head) + Len(block)
      BY <1>4, Cat, Zenon
    <2> QED BY <1>4, <1>5, <2>1, Zenon
  <1>7. Len(pkt.body) = 4 * k + b + n
    <2>1. Len(hb \o rest) = Len(hb) + Len(rest)
      BY <1>2, Cat, Zenon
    <2> QED BY <1>1, <1>5, <1>6, <2>1, Zenon
  <1>8. \A i \in 1 .. b : pkt.body[4 * k + i] = block[i]
    <2>1. \A i \in 1 .. Len(block) : ((head \o block) \o rest)[Len(head) + i] = block[i]
      BY <1>2, <1>4, InPart, Zenon
    <2> QED BY <1>1, <1>4, <1>5, <2>1, Zenon
  <1>9. SubSeq(pkt.body, 1, 4 * k + b) = head \o block
    BY <1>1, <1>2, <1>6, Front, Zenon
  <1>10. SubSeq(pkt.body, 4 * k + b + 1, Len(pkt.body)) = rest
    <2>1. SubSeq(hb \o rest, Len(hb) + 1, Len(hb) + Len(rest)) = rest
      BY <1>2, Back
    <2> QED BY <1>1, <1>5, <1>6, <1>7, <2>1, Zenon
  <1>11. SubSeq(pkt.body, 1, 4 * k) = head
    <2>1. block \o rest \in Octs /\ (head \o block) \o rest = head \o (block \o rest)
      BY <1>2, <1>4, Cat, Assoc, Zenon
    <2> QED BY <1>1, <1>4, <2>1, Front, Zenon
  <1>12. ASSUME pkt.x
         PROVE  /\ H!IsOneByte(pkt) /\ H!BlockEnd(pkt) = 4 * k + b /\ H!HasBlock(pkt)
                /\ \E w \in Nat : /\ SubSeq(pkt.body, 1, 4 * k + 4) = head \o BlockHead(w)
                                  /\ block = BlockHead(w) \o H!BlockData(pkt)
                                  /\ Len(H!BlockData(pkt)) = 4 * w
                /\ \E place : Fits(H!BlockData(pkt), exts, place)
    <2>1. PICK w \in Nat : \E data, place : Fits(data, exts, place) /\ Len(data) = 4 * w /\ block = BlockHead(w) \o data
      BY <1>1, <1>12 DEF Blocks
    <2>2. PICK data, place : Fits(data, exts, place) /\ Len(data) = 4 * w /\ block = BlockHead(w) \o data
      BY <2>1, Zenon
    <2>3. data \in Octs
      BY <2>2 DEF Fits, Octs
    <2>4. /\ b = 4 + 4 * w /\ block[1].v = H!OneByte /\ block[3].v = w
          /\ BlockHead(w) \in Octs /\ Len(BlockHead(w)) = 4
      BY <1>5, <2>2, <2>3, BlockFacts
    <2>5. 1 \in 1 .. b /\ 3 \in 1 .. b
      BY <2>4
    <2>6. pkt.body[4 * k + 1].v = H!OneByte /\ pkt.body[4 * k + 3].v = w
      BY <1>8, <2>4, <2>5
    <2>7. H!IsOneByte(pkt)
      BY <1>4, <2>6 DEF H!IsOneByte
    <2>8. H!BlockEnd(pkt) = 4 * k + 4 + 4 * w
      BY <1>4, <2>6 DEF H!BlockEnd
    <2>9. H!BlockEnd(pkt) = 4 * k + b
      BY <2>4, <2>8
    <2>10. H!HasBlock(pkt)
      <3>1. 4 * k + b + n >= 4 * k + 4
        BY <2>4
      <3> QED BY <1>4, <1>7, <1>12, <3>1 DEF H!HasBlock
    <2>11. PICK bh \in Octs : bh = BlockHead(w) /\ Len(bh) = 4
      BY <2>4
    <2>12. PICK hh \in Octs : hh = head \o bh /\ Len(hh) = 4 * k + 4
      <3>1. head \o bh \in Octs /\ Len(head \o bh) = Len(head) + Len(bh)
        BY <1>4, Cat, Zenon
      <3> QED BY <1>4, <2>11, <3>1, Zenon
    <2>13. pkt.body = (hh \o data) \o rest
      <3>1. (head \o bh) \o data = head \o (bh \o data)
        BY <1>4, <2>3, Assoc
      <3> QED BY <1>1, <2>2, <2>11, <2>12, <3>1, Zenon
    <2>14. H!BlockData(pkt) = data
      <3>1. H!Least(4 * k + 4 + 4 * w, 4 * k + b + n) = 4 * k + 4 + 4 * w
        BY <2>4 DEF H!Least
      <3>2. H!BlockData(pkt) = SubSeq(pkt.body, 4 * k + 5, 4 * k + 4 + 4 * w)
        BY <1>4, <1>7, <2>8, <3>1, Zenon DEF H!BlockData
      <3>3. 4 * k + 5 = 4 * k + 4 + 1
        OBVIOUS
      <3>4. SubSeq((hh \o data) \o rest, Len(hh) + 1, Len(hh) + Len(data)) = data
        BY <1>2, <2>3, Part, Zenon
      <3> QED BY <2>2, <2>12, <2>13, <3>2, <3>3, <3>4, Zenon
    <2>15. SubSeq(pkt.body, 1, 4 * k + 4) = hh
      <3>1. data \o rest \in Octs /\ (hh \o data) \o rest = hh \o (data \o rest)
        <4>1. data \o rest \in Octs
          BY <1>2, <2>3, Cat
        <4>2. (hh \o data) \o rest = hh \o (data \o rest)
          BY <1>2, <2>3, Assoc, Zenon
        <4> QED BY <4>1, <4>2
      <3>2. SubSeq(hh \o (data \o rest), 1, Len(hh)) = hh
        BY <3>1, Front
      <3> QED BY <2>12, <2>13, <3>1, <3>2, Zenon
    <2> QED BY <2>2, <2>7, <2>9, <2>10, <2>11, <2>12, <2>14, <2>15, Zenon
  <1>13. ASSUME ~ pkt.x PROVE ~ H!HasBlock(pkt) /\ block = <<>> /\ b = 0 /\ exts = H!NoExts
    BY <1>1, <1>5, <1>13, CatEmpty DEF H!HasBlock
  <1>14. Len(head) + Len(block) = 4 * k + b /\ 4 * k + b + n = Len(head) + Len(block) + Len(rest)
    BY <1>4, <1>5
  <1>15. Laid(pkt, csrc, exts, rest, block)
    BY <1>1, <1>4, <1>5, <1>7, <1>9, <1>10, <1>11, <1>12, <1>13, <1>14, Zenon DEF head, Laid
  <1> QED BY <1>15

-----------------------------------------------------------------------------
Merged(add, old) == [id \in DOMAIN add \cup DOMAIN old |-> IF id \in DOMAIN add THEN add[id] ELSE old[id]]
SameHeader(out, pkt) ==
    /\ out.p = pkt.p /\ out.m = pkt.m /\ out.pt = pkt.pt /\ out.seq = pkt.seq /\ out.ts = pkt.ts /\ out.ssrc = pkt.ssrc

(* Extensions added to others are extensions.                              *)
LEMMA MergedIn ==
    ASSUME NEW add \in ExtSets, NEW old \in ExtSets
    PROVE  Merged(add, old) \in ExtSets
  <1>1. /\ DOMAIN add \subseteq 1 .. 14 /\ DOMAIN old \subseteq 1 .. 14
        /\ \A id \in DOMAIN add : add[id] \in Seq(Plain) /\ Len(add[id]) \in 1 .. 16
        /\ \A id \in DOMAIN old : old[id] \in Seq(Plain) /\ Len(old[id]) \in 1 .. 16
    BY ExtFacts
  <1> DEFINE ids == DOMAIN add \cup DOMAIN old
  <1>2. ids \in SUBSET (1 .. 14)
    BY <1>1
  <1>3. Merged(add, old) \in [ids -> Seq(Plain)] /\ DOMAIN Merged(add, old) = ids
    BY <1>1 DEF Merged
  <1>4. \A id \in ids : Len(Merged(add, old)[id]) \in 1 .. 16
    BY <1>1 DEF Merged
  <1> HIDE DEF ids
  <1> QED BY <1>2, <1>3, <1>4, Zenon DEF ExtSets

(* No extensions are extensions too.                                       *)
LEMMA NoExtsIn == H!NoExts \in ExtSets /\ DOMAIN H!NoExts = {}
  <1>1. H!NoExts \in [{} -> Seq(Plain)] /\ DOMAIN H!NoExts = {} /\ {} \in SUBSET (1 .. 14)
    BY DEF H!NoExts
  <1> QED BY <1>1, Zenon DEF ExtSets

(* A body put together again with another block.                           *)
LEMMA Rebuilt ==
    ASSUME NEW pkt \in Wire, NEW csrc \in Seq(Int), pkt.cc = Len(csrc), pkt.x, NEW exts \in ExtSets, NEW rest \in Octs,
           pkt.body = (CsrcOctets(csrc) \o H!WriteExtensions(exts)) \o rest
    PROVE  Carries(pkt, csrc, exts, rest)
  <1>1. PICK w \in Nat : \E data, place :
              /\ Fits(data, exts, place) /\ Len(data) = 4 * w
              /\ H!WriteExtensions(exts) = BlockHead(w) \o data
    BY WriteFits, Zenon DEF BlockHead
  <1>2. PICK data, place : /\ Fits(data, exts, place) /\ Len(data) = 4 * w
                           /\ H!WriteExtensions(exts) = BlockHead(w) \o data
    BY <1>1, Zenon
  <1>3. data \in Octs
    BY <1>2 DEF Fits, Octs
  <1>4. H!WriteExtensions(exts) \in Octs
    BY <1>2, <1>3, BlockFacts
  <1>5. Blocks(H!WriteExtensions(exts), exts)
    BY <1>1, Zenon DEF Blocks
  <1> QED BY <1>4, <1>5, Zenon DEF Carries

(* setHeaderExtensions (rtp.js:870-914) adds and replaces extensions, and  *)
(* leaves the rest of the packet alone.                                    *)
THEOREM SetCarries ==
    ASSUME NEW pkt, NEW csrc, NEW exts, NEW rest, Carries(pkt, csrc, exts, rest), NEW add \in ExtSets
    PROVE  /\ Carries(H!SetHeaderExtensions(pkt, add), csrc, Merged(add, exts), rest)
           /\ SameHeader(H!SetHeaderExtensions(pkt, add), pkt)
  <1> DEFINE valid == {id \in DOMAIN add : id \in 1 .. 14 /\ Len(add[id]) \in 1 .. 16}
             old   == IF pkt.x THEN H!ParseExtensions(H!BlockData(pkt)) ELSE H!NoExts
             from  == IF pkt.x THEN H!BlockEnd(pkt) ELSE H!CsrcEnd(pkt)
             head  == CsrcOctets(csrc)
  <1>1. pkt \in Wire /\ csrc \in Seq(Int) /\ exts \in ExtSets /\ rest \in Octs /\ pkt.cc = Len(csrc)
    BY DEF Carries
  <1>2. valid = DOMAIN add
    BY ExtFacts, Zenon
  <1>3. PICK block \in Octs :
                  /\ head \in Octs /\ Len(head) = H!CsrcEnd(pkt)
                  /\ Len(pkt.body) = Len(head) + Len(block) + Len(rest)
                  /\ SubSeq(pkt.body, 1, H!CsrcEnd(pkt)) = head
                  /\ SubSeq(pkt.body, Len(head) + Len(block) + 1, Len(pkt.body)) = rest
                  /\ H!HasBlock(pkt) <=> pkt.x
                  /\ ~ pkt.x => Len(block) = 0 /\ exts = H!NoExts
                  /\ pkt.x => /\ H!IsOneByte(pkt) /\ H!BlockEnd(pkt) = Len(head) + Len(block)
                              /\ \E place : Fits(H!BlockData(pkt), exts, place)
    <2>1. PICK block \in Octs : Laid(pkt, csrc, exts, rest, block)
      BY Layout
    <2> QED BY <2>1, Zenon DEF Laid
  <1>4. old = exts
    <2>1. CASE pkt.x
      BY <1>3, <2>1, ParseFits
    <2>2. CASE ~ pkt.x
      BY <1>3, <2>2
    <2> QED BY <2>1, <2>2
  <1>5. from = Len(head) + Len(block)
    <2>1. PICK h \in Nat, b \in Nat : h = Len(head) /\ b = Len(block)
      BY <1>3, LenNat
    <2>2. b = 0 => h + b = h
      OBVIOUS
    <2> QED BY <1>3, <2>1, <2>2, Zenon
  <1>6. pkt.x => H!BlockEnd(pkt) <= Len(pkt.body)
    <2>1. PICK h \in Nat, b \in Nat, n \in Nat : h = Len(head) /\ b = Len(block) /\ n = Len(rest)
      BY <1>1, <1>3, LenNat
    <2>2. h + b <= h + b + n
      OBVIOUS
    <2> QED BY <1>3, <2>1, <2>2
  <1>7. CASE ~ pkt.x /\ DOMAIN add = {}
    <2>1. H!SetHeaderExtensions(pkt, add) = pkt
      BY <1>2, <1>7 DEF H!SetHeaderExtensions
    <2>2. Merged(add, exts) = H!NoExts
      BY <1>3, <1>7, NoExtsIn DEF Merged, H!NoExts
    <2> QED BY <1>3, <1>7, <2>1, <2>2 DEF SameHeader
  <1>8. CASE pkt.x \/ DOMAIN add # {}
    <2>1. H!SetHeaderExtensions(pkt, add)
            = [pkt EXCEPT !.x = TRUE,
                          !.body = SubSeq(@, 1, H!CsrcEnd(pkt))
                                   \o H!WriteExtensions([id \in valid \cup DOMAIN old |->
                                          IF id \in valid THEN add[id] ELSE old[id]])
                                   \o SubSeq(@, from + 1, Len(@))]
      BY <1>2, <1>3, <1>6, <1>8, Zenon DEF H!SetHeaderExtensions
    <2>2. [id \in valid \cup DOMAIN old |-> IF id \in valid THEN add[id] ELSE old[id]] = Merged(add, exts)
      <3> HIDE DEF valid, old
      <3> QED BY <1>2, <1>4, Zenon DEF Merged
    <2> HIDE DEF valid, old, from, head
    <2>3. PICK body : body = (head \o H!WriteExtensions(Merged(add, exts))) \o rest
      BY Zenon
    <2>4. PICK out : out = [pkt EXCEPT !.x = TRUE, !.body = body]
      OBVIOUS
    <2>5. H!SetHeaderExtensions(pkt, add) = out
      BY <1>3, <1>5, <2>1, <2>2, <2>3, <2>4, Zenon
    <2>6. Merged(add, exts) \in ExtSets
      BY <1>1, MergedIn
    <2>7. H!WriteExtensions(Merged(add, exts)) \in Octs
      <3>1. PICK w \in Nat : \E data, place :
              /\ Fits(data, Merged(add, exts), place) /\ Len(data) = 4 * w
              /\ H!WriteExtensions(Merged(add, exts)) = BlockHead(w) \o data
        BY <2>6, WriteFits, Zenon DEF BlockHead
      <3>2. PICK data, place : /\ Fits(data, Merged(add, exts), place) /\ Len(data) = 4 * w
                               /\ H!WriteExtensions(Merged(add, exts)) = BlockHead(w) \o data
        BY <3>1, Zenon
      <3>3. data \in Octs
        BY <3>2 DEF Fits, Octs
      <3> QED BY <3>2, <3>3, BlockFacts
    <2>8. body \in Octs
      <3>1. head \o H!WriteExtensions(Merged(add, exts)) \in Octs
        BY <1>3, <2>7, Cat
      <3> QED BY <1>1, <2>3, <3>1, Cat
    <2>9. out \in Wire /\ out.x /\ out.cc = pkt.cc /\ out.body = body /\ SameHeader(out, pkt)
      BY <1>1, <2>4, <2>8, Zenon DEF Wire, SameHeader
    <2>10. Carries(out, csrc, Merged(add, exts), rest)
      BY <1>1, <2>3, <2>6, <2>9, Rebuilt, Zenon DEF head
    <2> QED BY <2>5, <2>9, <2>10
  <1> QED BY <1>7, <1>8, Zenon

-----------------------------------------------------------------------------
(* The packets of RtpHeaderStamper and Retransmit are those of RtpHeader.  *)
LEMMA SameHeaders ==
    /\ R!NoPacket = H!NoPacket /\ R!NoExts = H!NoExts
    /\ \A what, v, i : R!Octet(what, v, i) = H!Octet(what, v, i)
    /\ \A what, v, n : R!Octets(what, v, n) = H!Octets(what, v, n)
    /\ \A pkt : R!CsrcEnd(pkt) = H!CsrcEnd(pkt)
    /\ \A pkt : R!HasBlock(pkt) <=> H!HasBlock(pkt)
    /\ \A pkt : R!BlockEnd(pkt) = H!BlockEnd(pkt)
    /\ \A pkt, from : R!PaddingOf(pkt, from) = H!PaddingOf(pkt, from)
  <1>1. \A what, v, i : R!Octet(what, v, i) = H!Octet(what, v, i)
    BY DEF R!Octet, H!Octet
  <1>2. \A what, v, n : R!Octets(what, v, n) = H!Octets(what, v, n)
    BY <1>1 DEF R!Octets, H!Octets
  <1>3. \A pkt : R!CsrcEnd(pkt) = H!CsrcEnd(pkt)
    BY DEF R!CsrcEnd, H!CsrcEnd
  <1>4. \A pkt : R!HasBlock(pkt) <=> H!HasBlock(pkt)
    BY <1>3 DEF R!HasBlock, H!HasBlock
  <1>5. \A pkt : R!BlockEnd(pkt) = H!BlockEnd(pkt)
    BY <1>3 DEF R!BlockEnd, H!BlockEnd
  <1>6. \A pkt, from : R!PaddingOf(pkt, from) = H!PaddingOf(pkt, from)
    BY DEF R!PaddingOf, H!PaddingOf
  <1>7. R!NoPacket = H!NoPacket /\ R!NoExts = H!NoExts
    BY DEF R!NoPacket, H!NoPacket, R!NoExts, H!NoExts
  <1> QED BY <1>1, <1>2, <1>3, <1>4, <1>5, <1>6, <1>7

(* The stamper reads blocks as RtpHeader does.                             *)
LEMMA SameElements ==
    \A data, careful : S!Elements(data, careful) = H!Elements(data, careful)
  BY Zenon DEF S!Elements, H!Elements

(* The shapes of two operators, with what they call as parameters.         *)
Gathered(found, data) ==
    LET LastOf(id) == CHOOSE i \in DOMAIN found :
                          found[i].id = id /\ \A j \in i + 1 .. Len(found) : found[j].id # id
    IN  [id \in {found[i].id : i \in DOMAIN found} |->
            SubSeq(data, found[LastOf(id)].at + 1, found[LastOf(id)].at + found[LastOf(id)].len)]
Valid(add) == {id \in DOMAIN add : id \in 1 .. 14 /\ Len(add[id]) \in 1 .. 16}
Extended(add, old) == [id \in Valid(add) \cup DOMAIN old |-> IF id \in Valid(add) THEN add[id] ELSE old[id]]
Rewritten(pkt, keeps, end, block, from) ==
    IF keeps THEN pkt
    ELSE [pkt EXCEPT !.x = TRUE, !.body = SubSeq(@, 1, end) \o block \o SubSeq(@, from + 1, Len(@))]

(* The stamper writes octets and extensions as RtpHeader does.             *)
LEMMA SameStamps ==
    /\ \A what, v, n : S!Octets(what, v, n) = H!Octets(what, v, n)
    /\ \A pkt, add : S!SetHeaderExtensions(pkt, add) = H!SetHeaderExtensions(pkt, add)
    /\ \A f, k, v : S!Put(f, k, v) = H!Put(f, k, v)
  <1>1. \A what, v, i : S!Octet(what, v, i) = H!Octet(what, v, i)
    BY DEF S!Octet, H!Octet
  <1>2. \A what, v, n : S!Octets(what, v, n) = H!Octets(what, v, n)
    BY <1>1 DEF S!Octets, H!Octets
  <1>3. \A pkt : S!CsrcEnd(pkt) = H!CsrcEnd(pkt)
    BY DEF S!CsrcEnd, H!CsrcEnd
  <1>4. \A pkt : S!HasBlock(pkt) <=> H!HasBlock(pkt)
    BY <1>3 DEF S!HasBlock, H!HasBlock
  <1>5. \A pkt : S!BlockEnd(pkt) = H!BlockEnd(pkt)
    BY <1>3 DEF S!BlockEnd, H!BlockEnd
  <1>6. \A pkt : S!IsOneByte(pkt) <=> H!IsOneByte(pkt)
    BY <1>3 DEF S!IsOneByte, H!IsOneByte, S!OneByte, H!OneByte
  <1>7. \A a, b : S!Least(a, b) = H!Least(a, b)
    BY DEF S!Least, H!Least
  <1>8. \A pkt : S!BlockData(pkt) = H!BlockData(pkt)
    BY <1>3, <1>5, <1>7, Zenon DEF S!BlockData, H!BlockData
  <1>9. \A data, e : S!ValueOf(data, e) = H!ValueOf(data, e)
    BY DEF S!ValueOf, H!ValueOf
  <1>10. \A data : S!ParseExtensions(data) = H!ParseExtensions(data)
    <2> SUFFICES ASSUME NEW data PROVE S!ParseExtensions(data) = H!ParseExtensions(data)
      OBVIOUS
    <2>1. S!ParseExtensions(data) = Gathered(S!Elements(data, TRUE), data)
      BY Zenon DEF S!ParseExtensions, S!ValueOf, Gathered
    <2>2. H!ParseExtensions(data) = Gathered(H!Elements(data, TRUE), data)
      BY Zenon DEF H!ParseExtensions, H!ValueOf, Gathered
    <2> QED BY <2>1, <2>2, SameElements, Zenon
  <1>11. \A id, len : S!Element(id, len) = H!Element(id, len)
    BY <1>1 DEF S!Element, H!Element
  <1>12. \A seqs : S!Seqs!FlattenSeq(seqs) = H!Seqs!FlattenSeq(seqs)
    BY Zenon DEF S!Seqs!FlattenSeq, H!Seqs!FlattenSeq
  <1>13. S!Zero = H!Zero /\ S!OneByte = H!OneByte /\ S!NoExts = H!NoExts
    BY <1>1 DEF S!Zero, H!Zero, S!OneByte, H!OneByte, S!NoExts, H!NoExts
  <1>14. \A exts : S!WriteExtensions(exts) = H!WriteExtensions(exts)
    BY <1>2, <1>11, <1>12, <1>13, Zenon DEF S!WriteExtensions, H!WriteExtensions
  <1>15. \A pkt, add : S!SetHeaderExtensions(pkt, add) = H!SetHeaderExtensions(pkt, add)
    <2> SUFFICES ASSUME NEW pkt, NEW add PROVE S!SetHeaderExtensions(pkt, add) = H!SetHeaderExtensions(pkt, add)
      OBVIOUS
    <2>1. S!SetHeaderExtensions(pkt, add)
            = Rewritten(pkt,
                        \/ pkt.x /\ ~(S!HasBlock(pkt) /\ S!IsOneByte(pkt) /\ S!BlockEnd(pkt) <= Len(pkt.body))
                        \/ ~pkt.x /\ Valid(add) = {},
                        S!CsrcEnd(pkt),
                        S!WriteExtensions(Extended(add, IF pkt.x THEN S!ParseExtensions(S!BlockData(pkt)) ELSE S!NoExts)),
                        IF pkt.x THEN S!BlockEnd(pkt) ELSE S!CsrcEnd(pkt))
      BY Zenon DEF S!SetHeaderExtensions, Rewritten, Extended, Valid
    <2>2. H!SetHeaderExtensions(pkt, add)
            = Rewritten(pkt,
                        \/ pkt.x /\ ~(H!HasBlock(pkt) /\ H!IsOneByte(pkt) /\ H!BlockEnd(pkt) <= Len(pkt.body))
                        \/ ~pkt.x /\ Valid(add) = {},
                        H!CsrcEnd(pkt),
                        H!WriteExtensions(Extended(add, IF pkt.x THEN H!ParseExtensions(H!BlockData(pkt)) ELSE H!NoExts)),
                        IF pkt.x THEN H!BlockEnd(pkt) ELSE H!CsrcEnd(pkt))
      BY Zenon DEF H!SetHeaderExtensions, Rewritten, Extended, Valid
    <2>3. (S!HasBlock(pkt) /\ S!IsOneByte(pkt) /\ S!BlockEnd(pkt) <= Len(pkt.body))
            = (H!HasBlock(pkt) /\ H!IsOneByte(pkt) /\ H!BlockEnd(pkt) <= Len(pkt.body))
      BY <1>4, <1>5, <1>6
    <2>4. S!CsrcEnd(pkt) = H!CsrcEnd(pkt) /\ S!BlockEnd(pkt) = H!BlockEnd(pkt)
      BY <1>3, <1>5
    <2>5. (IF pkt.x THEN S!ParseExtensions(S!BlockData(pkt)) ELSE S!NoExts)
            = (IF pkt.x THEN H!ParseExtensions(H!BlockData(pkt)) ELSE H!NoExts)
      BY <1>8, <1>10, <1>13
    <2> QED BY <1>14, <2>1, <2>2, <2>3, <2>4, <2>5, Zenon
  <1>16. \A f, k, v : S!Put(f, k, v) = H!Put(f, k, v)
    BY DEF S!Put, H!Put
  <1> QED BY <1>2, <1>15, <1>16

-----------------------------------------------------------------------------
OnlyHeader(out, pkt) == out.p = pkt.p /\ out.x = pkt.x /\ out.cc = pkt.cc /\ out.m = pkt.m /\ out.ts = pkt.ts
Osn(seq) == H!Octets("osn", seq, 2)

(* An original sequence number is two octets.                              *)
LEMMA OsnIn ==
    ASSUME NEW seq \in Int
    PROVE  /\ Osn(seq) \in Octs /\ Len(Osn(seq)) = 2 /\ Osn(seq)[1].v = seq
           /\ \A i \in 1 .. 2 : Osn(seq)[i].v = seq /\ Osn(seq)[i].what = "osn"
  <1>1. "osn" \in Kinds
    BY DEF Kinds
  <1>2. PICK n \in Nat : n = 2
    OBVIOUS
  <1>3. /\ H!Octets("osn", seq, n) \in Octs /\ Len(H!Octets("osn", seq, n)) = n
        /\ \A i \in 1 .. n : H!Octets("osn", seq, n)[i].v = seq /\ H!Octets("osn", seq, n)[i].what = "osn"
    BY <1>1, OctetsIn
  <1>4. 1 \in 1 .. 2
    OBVIOUS
  <1> QED BY <1>2, <1>3, <1>4, Zenon DEF Osn

(* The header's length, as Retransmit computes it, ends the block.         *)
LEMMA HeaderEnds ==
    ASSUME NEW pkt, NEW csrc, NEW exts, NEW rest, NEW block \in Octs, Laid(pkt, csrc, exts, rest, block)
    PROVE  /\ R!HeaderLen(pkt) = Len(CsrcOctets(csrc)) + Len(block)
           /\ H!PayloadOffset(pkt) = R!HeaderLen(pkt) \/ rest \notin Octs
  <1> DEFINE head == CsrcOctets(csrc)
  <1>1. /\ head \in Octs /\ Len(head) = H!CsrcEnd(pkt) /\ Len(pkt.body) = Len(head) + Len(block) + Len(rest)
        /\ H!HasBlock(pkt) <=> pkt.x
        /\ ~ pkt.x => Len(block) = 0
        /\ pkt.x => H!BlockEnd(pkt) = Len(head) + Len(block)
    BY Zenon DEF Laid
  <1> HIDE DEF head
  <1>2. PICK h \in Nat, b \in Nat : h = Len(head) /\ b = Len(block)
    BY <1>1, LenNat
  <1>3. R!HeaderLen(pkt) = IF pkt.x THEN H!BlockEnd(pkt) ELSE H!CsrcEnd(pkt)
    BY <1>1, SameHeaders DEF R!HeaderLen
  <1>4. h + 0 = h
    OBVIOUS
  <1>5. R!HeaderLen(pkt) = Len(head) + Len(block)
    BY <1>1, <1>2, <1>3, <1>4
  <1>6. ASSUME rest \in Octs PROVE H!PayloadOffset(pkt) = R!HeaderLen(pkt)
    <2>1. PICK n \in Nat : n = Len(rest)
      BY <1>6, LenNat
    <2>2. ~ (h + b + n < h) /\ h + b <= h + b + n
      OBVIOUS
    <2>3. ~ (Len(pkt.body) < H!CsrcEnd(pkt)) /\ Len(head) + Len(block) <= Len(pkt.body)
      BY <1>1, <1>2, <2>1, <2>2
    <2> QED BY <1>1, <1>3, <1>5, <2>3 DEF H!PayloadOffset, H!Least
  <1> QED BY <1>5, <1>6 DEF head

(* buildRtxPacket (retransmit.js:150-189) puts the original number before  *)
(* the payload and keeps the header.                                       *)
LEMMA BuildCarries ==
    ASSUME NEW pkt, NEW csrc, NEW exts, NEW rest, Carries(pkt, csrc, exts, rest),
           NEW ssrc \in Int, NEW pt \in Int, NEW seq \in Int
    PROVE  LET out == R!BuildRtxPacket(pkt, ssrc, pt, seq)
           IN  /\ Carries(out, csrc, exts, Osn(pkt.seq) \o rest)
               /\ OnlyHeader(out, pkt) /\ out.pt = pt /\ out.seq = seq /\ out.ssrc = ssrc
  <1> DEFINE head == CsrcOctets(csrc)
             h    == R!HeaderLen(pkt)
  <1>1. pkt \in Wire /\ csrc \in Seq(Int) /\ exts \in ExtSets /\ rest \in Octs /\ pkt.cc = Len(csrc)
    BY DEF Carries
  <1>2. PICK block \in Octs : /\ pkt.body = (head \o block) \o rest
                              /\ IF pkt.x THEN Blocks(block, exts) ELSE block = <<>> /\ exts = H!NoExts
                              /\ Laid(pkt, csrc, exts, rest, block)
    <2>1. PICK block \in Octs : Laid(pkt, csrc, exts, rest, block)
      BY Layout
    <2>2. pkt.body = (head \o block) \o rest
      BY <2>1 DEF Laid
    <2>3. IF pkt.x THEN Blocks(block, exts) ELSE block = <<>> /\ exts = H!NoExts
      BY <2>1, Zenon DEF Laid, Blocks
    <2> QED BY <2>1, <2>2, <2>3, Zenon
  <1>3. /\ head \in Octs /\ Len(pkt.body) = Len(head) + Len(block) + Len(rest)
        /\ SubSeq(pkt.body, 1, Len(head) + Len(block)) = head \o block
        /\ SubSeq(pkt.body, Len(head) + Len(block) + 1, Len(pkt.body)) = rest
    BY <1>2, Zenon DEF Laid
  <1>4. h = Len(head) + Len(block)
    BY <1>2, HeaderEnds
  <1> HIDE DEF head, h
  <1>5. ~ (Len(pkt.body) < h)
    <2>1. PICK a \in Nat, b \in Nat, n \in Nat : a = Len(head) /\ b = Len(block) /\ n = Len(rest)
      BY <1>1, <1>3, LenNat, Zenon
    <2>2. ~ (a + b + n < a + b)
      OBVIOUS
    <2> QED BY <1>3, <1>4, <2>1, <2>2
  <1>6. PICK osn \in Octs : osn = Osn(pkt.seq)
    <2>1. pkt.seq \in Int
      BY <1>1 DEF Wire
    <2> QED BY <2>1, OsnIn
  <1>7. PICK body : body = ((head \o block) \o osn) \o rest
    BY Zenon
  <1>8. PICK out : out = [pkt EXCEPT !.pt = pt, !.seq = seq, !.ssrc = ssrc, !.body = body]
    OBVIOUS
  <1>9. R!BuildRtxPacket(pkt, ssrc, pt, seq) = out
    <2>1. R!BuildRtxPacket(pkt, ssrc, pt, seq)
            = [pkt EXCEPT !.pt = pt, !.seq = seq, !.ssrc = ssrc,
                          !.body = SubSeq(@, 1, h) \o R!Octets("osn", pkt.seq, 2) \o SubSeq(@, h + 1, Len(@))]
      BY <1>5, Zenon DEF R!BuildRtxPacket, h
    <2>2. R!Octets("osn", pkt.seq, 2) = osn
      BY <1>6, SameHeaders DEF Osn
    <2> QED BY <1>3, <1>4, <1>7, <1>8, <2>1, <2>2, Zenon
  <1>10. head \o block \in Octs /\ osn \o rest \in Octs
    BY <1>1, <1>3, Cat
  <1>11. ((head \o block) \o osn) \o rest = (head \o block) \o (osn \o rest)
    BY <1>1, <1>10, Assoc, Zenon
  <1>12. (head \o block) \o (osn \o rest) \in Octs
    BY <1>10, Cat
  <1>13. body = (head \o block) \o (osn \o rest) /\ body \in Octs
    BY <1>7, <1>11, <1>12
  <1>14. /\ out \in Wire /\ OnlyHeader(out, pkt) /\ out.pt = pt /\ out.seq = seq /\ out.ssrc = ssrc
         /\ out.body = body
    BY <1>1, <1>8, <1>13, Zenon DEF Wire, OnlyHeader
  <1>15. Carries(out, csrc, exts, osn \o rest)
    BY <1>1, <1>2, <1>10, <1>13, <1>14, Zenon DEF Carries, OnlyHeader, head
  <1> QED BY <1>6, <1>9, <1>14, <1>15
-----------------------------------------------------------------------------
(* The padding a packet ends with, as its last octet counts it.            *)
Padded(pkt, pad) ==
    pad \in Octs /\ IF pkt.p THEN Len(pad) > 0 /\ pad[Len(pad)].v = Len(pad) ELSE pad = <<>>

PaddedAt(pkt, csrc, exts, data, pad, block) ==
    /\ Laid(pkt, csrc, exts, data \o pad, block)
    /\ R!HeaderLen(pkt) = Len(CsrcOctets(csrc)) + Len(block)
    /\ CsrcOctets(csrc) \o block \in Octs
    /\ Len(CsrcOctets(csrc) \o block) = Len(CsrcOctets(csrc)) + Len(block)
    /\ pkt.body = ((CsrcOctets(csrc) \o block) \o data) \o pad
    /\ Len(pkt.body) = Len(CsrcOctets(csrc)) + Len(block) + Len(data) + Len(pad)
    /\ H!PaddingOf(pkt, R!HeaderLen(pkt)) = Len(pad)
    /\ H!PayloadOffset(pkt) = R!HeaderLen(pkt)

(* The last octet of the padding says how long it is, and no more is cut   *)
(* off.                                                                    *)
LEMMA PaddingFits ==
    ASSUME NEW pkt, NEW csrc, NEW exts, NEW data \in Octs, NEW pad, Padded(pkt, pad),
           Carries(pkt, csrc, exts, data \o pad)
    PROVE  \E block \in Octs : PaddedAt(pkt, csrc, exts, data, pad, block)
  <1> DEFINE head == CsrcOctets(csrc)
             h    == R!HeaderLen(pkt)
  <1>1. pad \in Octs /\ data \o pad \in Octs /\ Len(data \o pad) = Len(data) + Len(pad)
    <2>1. pad \in Octs
      BY DEF Padded
    <2> QED BY <2>1, Cat
  <1>2. PICK block \in Octs : Laid(pkt, csrc, exts, data \o pad, block)
    BY Layout
  <1>3. /\ head \in Octs /\ pkt.body = (head \o block) \o (data \o pad)
        /\ Len(pkt.body) = Len(head) + Len(block) + Len(data \o pad)
    BY <1>2 DEF Laid
  <1>4. h = Len(head) + Len(block) /\ H!PayloadOffset(pkt) = h
    BY <1>1, <1>2, HeaderEnds
  <1> HIDE DEF head, h
  <1>5. PICK hb \in Octs : hb = head \o block /\ Len(hb) = Len(head) + Len(block)
    BY <1>3, Cat, Zenon
  <1>6. hb \o (data \o pad) = (hb \o data) \o pad
    BY <1>1, Assoc, Zenon
  <1>7. PICK a \in Nat, b \in Nat, d \in Nat, n \in Nat : a = Len(head) /\ b = Len(block) /\ d = Len(data) /\ n = Len(pad)
    BY <1>1, <1>3, LenNat
  <1>8. Len(pkt.body) = a + b + d + n /\ h = a + b
    <2>1. a + b + (d + n) = a + b + d + n
      OBVIOUS
    <2> QED BY <1>1, <1>3, <1>4, <1>7, <2>1
  <1>9. H!PaddingOf(pkt, h) = n
    <2>1. CASE ~ pkt.p
      <3>1. n = 0
        BY <1>7, <2>1, CatEmpty DEF Padded
      <3> QED BY <2>1, <3>1 DEF H!PaddingOf
    <2>2. CASE pkt.p
      <3>1. n > 0 /\ pad[n].v = n
        BY <1>7, <2>2 DEF Padded
      <3>2. PICK hd \in Octs : hd = hb \o data /\ Len(hd) = Len(hb) + Len(data)
        BY Cat, Zenon
      <3>3. Len(hd) = a + b + d
        BY <1>5, <1>7, <3>2
      <3>4. \A i \in 1 .. Len(pad) : (hd \o pad)[Len(hd) + i] = pad[i]
        BY <1>1, InBack
      <3>5. n \in 1 .. n
        BY <3>1
      <3>6. pkt.body[a + b + d + n] = pad[n]
        BY <1>3, <1>5, <1>6, <1>7, <3>2, <3>3, <3>4, <3>5, Zenon
      <3>7. a + b + d + n > a + b /\ n \in 1 .. a + b + d + n - (a + b)
        BY <3>1
      <3> QED BY <1>8, <2>2, <3>1, <3>6, <3>7 DEF H!PaddingOf
    <2> QED BY <2>1, <2>2
  <1>10. pkt.body = ((head \o block) \o data) \o pad
    BY <1>3, <1>5, <1>6, Zenon
  <1>11. Len(pkt.body) = Len(head) + Len(block) + Len(data) + Len(pad)
    BY <1>7, <1>8
  <1> QED BY <1>2, <1>4, <1>5, <1>7, <1>9, <1>10, <1>11, Zenon DEF head, h, PaddedAt

-----------------------------------------------------------------------------
(* parseRtxPacket (retransmit.js:213-273) takes back what was put before   *)
(* the payload, and leaves the padding behind.                             *)
Unwrapped(out, pkt, ssrc, pt, s) ==
    /\ out.p = FALSE /\ out.m = pkt.m /\ out.ts = pkt.ts
    /\ out.pt = pt /\ out.seq = s /\ out.ssrc = ssrc

LEMMA UnwrapCarries ==
    ASSUME NEW pkt, NEW csrc, NEW exts, NEW s \in Int, NEW data \in Octs, NEW pad, Padded(pkt, pad),
           Carries(pkt, csrc, exts, (Osn(s) \o data) \o pad), NEW ssrc \in Int, NEW pt \in Int
    PROVE  /\ Carries(R!ParseRtxPacket(pkt, ssrc, pt), csrc, exts, data)
           /\ Unwrapped(R!ParseRtxPacket(pkt, ssrc, pt), pkt, ssrc, pt, s)
  <1> DEFINE head == CsrcOctets(csrc)
             h    == R!HeaderLen(pkt)
             osn  == Osn(s)
  <1>1. /\ pkt \in Wire /\ csrc \in Seq(Int) /\ exts \in ExtSets /\ pkt.cc = Len(csrc)
        /\ pad \in Octs
    BY DEF Carries, Padded
  <1>2. /\ osn \in Octs /\ Len(osn) = 2 /\ osn[1].v = s
    BY OsnIn
  <1> HIDE DEF osn
  <1>3. osn \o data \in Octs /\ Len(osn \o data) = Len(osn) + Len(data)
    BY <1>2, Cat, Zenon
  <1>4. PICK block \in Octs :
              /\ Laid(pkt, csrc, exts, (osn \o data) \o pad, block)
              /\ h = Len(head) + Len(block)
              /\ head \o block \in Octs /\ Len(head \o block) = Len(head) + Len(block)
              /\ pkt.body = ((head \o block) \o (osn \o data)) \o pad
              /\ Len(pkt.body) = Len(head) + Len(block) + Len(osn \o data) + Len(pad)
              /\ H!PaddingOf(pkt, h) = Len(pad)
    <2>1. PICK od \in Octs : od = osn \o data
      BY <1>3, Zenon
    <2>2. Carries(pkt, csrc, exts, od \o pad)
      BY <2>1 DEF osn
    <2>3. PICK block \in Octs : PaddedAt(pkt, csrc, exts, od, pad, block)
      BY <2>2, PaddingFits
    <2> QED BY <2>1, <2>3, Zenon DEF PaddedAt
  <1>5. H!PaddingOf(pkt, h) = Len(pad)
    BY <1>4
  <1>6. IF pkt.x THEN Blocks(block, exts) ELSE block = <<>> /\ exts = H!NoExts
    BY <1>4, Zenon DEF Laid, Blocks
  <1>7. PICK hb \in Octs : hb = head \o block /\ Len(hb) = h
    BY <1>4, Zenon
  <1> HIDE DEF head, h
  <1>8. PICK k \in Nat, d \in Nat, n \in Nat : k = h /\ d = Len(data) /\ n = Len(pad)
    BY <1>1, <1>7, LenNat, Zenon
  <1>9. Len(pkt.body) - H!PaddingOf(pkt, h) = k + 2 + d /\ ~ (k + 2 + d < k + 2)
    <2>1. Len(osn \o data) = 2 + d
      BY <1>2, <1>3, <1>8
    <2>2. Len(pkt.body) = k + (2 + d) + n
      BY <1>4, <1>8, <2>1
    <2>3. k + (2 + d) + n - n = k + 2 + d
      OBVIOUS
    <2> QED BY <1>5, <1>8, <2>2, <2>3
  <1>10. pkt.body = ((hb \o osn) \o data) \o pad
    <2>0. osn \in Octs
      BY <1>2
    <2>1. (hb \o osn) \o data = hb \o (osn \o data)
      BY <2>0, Assoc, Zenon
    <2> QED BY <1>4, <1>7, <2>1, Zenon
  <1>11. PICK ho \in Octs : ho = hb \o osn /\ Len(ho) = k + 2
    <2>1. hb \o osn \in Octs /\ Len(hb \o osn) = Len(hb) + Len(osn)
      BY <1>2, Cat, Zenon
    <2> QED BY <1>2, <1>7, <1>8, <2>1, Zenon
  <1>12. pkt.body[k + 1].v = s
    <2>1. PICK od \in Octs : od = osn \o data
      BY <1>3, Zenon
    <2>2. \A i \in 1 .. Len(od) : ((hb \o od) \o pad)[Len(hb) + i] = od[i]
      BY <1>1, InPart
    <2>3. \A i \in 1 .. Len(osn) : (osn \o data)[i] = osn[i]
      BY <1>2, InFront, Zenon
    <2>4. 1 \in 1 .. 2 /\ 1 \in 1 .. 2 + d
      BY <1>8
    <2>5. Len(od) = 2 + d
      BY <1>2, <1>3, <1>8, <2>1
    <2>6. pkt.body[k + 1] = od[1] /\ od[1] = osn[1]
      BY <1>2, <1>4, <1>7, <1>8, <2>1, <2>2, <2>3, <2>4, <2>5, Zenon
    <2> QED BY <1>2, <2>6, Zenon
  <1>13. SubSeq(pkt.body, k + 3, k + 2 + d) = data
    <2>1. SubSeq((ho \o data) \o pad, Len(ho) + 1, Len(ho) + Len(data)) = data
      BY <1>1, Part, Zenon
    <2>2. k + 2 + 1 = k + 3
      OBVIOUS
    <2> QED BY <1>8, <1>10, <1>11, <2>1, <2>2, Zenon
  <1>14. SubSeq(pkt.body, 1, k) = hb
    <2>1. (osn \o data) \o pad \in Octs
      BY <1>1, <1>3, Cat
    <2>2. (hb \o (osn \o data)) \o pad = hb \o ((osn \o data) \o pad)
      <3>1. PICK od \in Octs : od = osn \o data
        BY <1>3, Zenon
      <3>2. hb \in Octs /\ od \in Octs /\ pad \in Octs
        BY <1>1
      <3>3. (hb \o od) \o pad = hb \o (od \o pad)
        BY <3>2, Assoc, Zenon
      <3> QED BY <3>1, <3>3, Zenon
    <2>3. SubSeq(hb \o ((osn \o data) \o pad), 1, Len(hb)) = hb
      BY <2>1, Front
    <2> QED BY <1>4, <1>7, <1>8, <2>2, <2>3, Zenon
  <1>15. PICK body \in Octs : body = hb \o data
    BY Cat, Zenon
  <1>16. PICK out : out = [pkt EXCEPT !.p = FALSE, !.pt = pt, !.seq = s, !.ssrc = ssrc, !.body = body]
    OBVIOUS
  <1>17. R!ParseRtxPacket(pkt, ssrc, pt) = out
    <2>1. ~ (Len(pkt.body) - R!PaddingOf(pkt, h) < h + 2)
      BY <1>8, <1>9, SameHeaders
    <2>2. R!ParseRtxPacket(pkt, ssrc, pt)
            = [pkt EXCEPT !.p = FALSE, !.pt = pt, !.seq = pkt.body[h + 1].v, !.ssrc = ssrc,
                          !.body = SubSeq(@, 1, h) \o SubSeq(@, h + 3, Len(pkt.body) - R!PaddingOf(pkt, h))]
      BY <2>1, Zenon DEF R!ParseRtxPacket, h
    <2>3. Len(pkt.body) - R!PaddingOf(pkt, h) = k + 2 + d
      BY <1>9, SameHeaders
    <2> QED BY <1>8, <1>12, <1>13, <1>14, <1>15, <1>16, <2>2, <2>3, Zenon
  <1>18. /\ out \in Wire /\ out.p = FALSE /\ out.x = pkt.x /\ out.cc = pkt.cc /\ out.m = pkt.m /\ out.ts = pkt.ts
         /\ out.pt = pt /\ out.seq = s /\ out.ssrc = ssrc /\ out.body = body
    BY <1>1, <1>16, Zenon DEF Wire
  <1>19. Carries(out, csrc, exts, data)
    BY <1>1, <1>6, <1>7, <1>15, <1>18, Zenon DEF Carries, head
  <1> QED BY <1>17, <1>18, <1>19 DEF Unwrapped

(* A packet of padding alone is not taken for a retransmission.            *)
LEMMA PaddingAlone ==
    ASSUME NEW pkt, NEW csrc, NEW exts, NEW pad, Padded(pkt, pad), Carries(pkt, csrc, exts, pad),
           NEW ssrc, NEW pt
    PROVE  R!ParseRtxPacket(pkt, ssrc, pt) = H!NoPacket
  <1> DEFINE head == CsrcOctets(csrc)
             h    == R!HeaderLen(pkt)
  <1>1. pad \in Octs /\ <<>> \in Octs /\ <<>> \o pad = pad /\ Len(<<>>) = 0
    BY CatEmpty DEF Padded
  <1>2. Carries(pkt, csrc, exts, <<>> \o pad)
    BY <1>1
  <1>3. PICK block \in Octs :
              /\ h = Len(head) + Len(block)
              /\ head \o block \in Octs /\ Len(head \o block) = Len(head) + Len(block)
              /\ Len(pkt.body) = Len(head) + Len(block) + Len(<<>>) + Len(pad)
              /\ H!PaddingOf(pkt, h) = Len(pad)
    <2>1. PICK data \in Octs : data = <<>>
      BY <1>1
    <2>2. Carries(pkt, csrc, exts, data \o pad)
      BY <1>2, <2>1
    <2>3. PICK block \in Octs : PaddedAt(pkt, csrc, exts, data, pad, block)
      BY <2>2, PaddingFits
    <2> QED BY <2>1, <2>3, Zenon DEF PaddedAt
  <1>4. H!PaddingOf(pkt, h) = Len(pad)
    BY <1>3
  <1> HIDE DEF head, h
  <1>5. PICK k \in Nat, n \in Nat : k = h /\ n = Len(pad)
    BY <1>1, <1>3, LenNat
  <1>6. Len(pkt.body) = k + 0 + n
    BY <1>1, <1>3, <1>5
  <1>7. k + 0 + n - n < k + 2
    OBVIOUS
  <1>8. Len(pkt.body) - R!PaddingOf(pkt, h) < h + 2
    BY <1>4, <1>5, <1>6, <1>7, SameHeaders
  <1> QED BY <1>8, SameHeaders DEF R!ParseRtxPacket, h

(* parse (rtp.js:168-233) reads what the packet carries.                   *)
LEMMA ParseReads ==
    ASSUME NEW pkt, NEW csrc, NEW exts, NEW data \in Octs, NEW pad, Padded(pkt, pad),
           Carries(pkt, csrc, exts, data \o pad)
    PROVE  H!Parse(pkt) = [padding |-> pkt.p, marker |-> pkt.m, pt |-> pkt.pt, seq |-> pkt.seq,
                           ts |-> pkt.ts, ssrc |-> pkt.ssrc, csrc |-> csrc, exts |-> exts, payload |-> data]
  <1> DEFINE head == CsrcOctets(csrc)
             h    == R!HeaderLen(pkt)
  <1>1. /\ pkt \in Wire /\ csrc \in Seq(Int) /\ exts \in ExtSets /\ pkt.cc = Len(csrc)
        /\ pad \in Octs
    BY DEF Carries, Padded
  <1>2. PICK block \in Octs :
              /\ Laid(pkt, csrc, exts, data \o pad, block)
              /\ h = Len(head) + Len(block)
              /\ head \o block \in Octs /\ Len(head \o block) = Len(head) + Len(block)
              /\ pkt.body = ((head \o block) \o data) \o pad
              /\ Len(pkt.body) = Len(head) + Len(block) + Len(data) + Len(pad)
              /\ H!PaddingOf(pkt, h) = Len(pad) /\ H!PayloadOffset(pkt) = h
    <2>1. PICK block \in Octs : PaddedAt(pkt, csrc, exts, data, pad, block)
      BY PaddingFits
    <2> QED BY <2>1, Zenon DEF PaddedAt
  <1>3. H!PaddingOf(pkt, h) = Len(pad) /\ H!PayloadOffset(pkt) = h
    BY <1>2
  <1>4. PICK hb \in Octs : hb = head \o block /\ Len(hb) = h
    BY <1>2, Zenon
  <1>5. /\ H!HasBlock(pkt) <=> pkt.x
        /\ ~ pkt.x => exts = H!NoExts
        /\ pkt.x => /\ H!IsOneByte(pkt) /\ H!BlockEnd(pkt) = h
                    /\ \E place : Fits(H!BlockData(pkt), exts, place)
    BY <1>2, Zenon DEF Laid
  <1>6. /\ \A i \in 1 .. Len(csrc) : 4 * i \in 1 .. 4 * Len(csrc) /\ head[4 * i].v = csrc[i]
        /\ head \in Octs /\ Len(head) = 4 * Len(csrc)
    BY <1>1, CsrcFacts, Zenon
  <1> HIDE DEF head, h
  <1>7. PICK k \in Nat, d \in Nat, n \in Nat, c \in Nat : k = h /\ d = Len(data) /\ n = Len(pad) /\ c = Len(csrc)
    BY <1>1, <1>4, LenNat
  <1>8. Len(pkt.body) = k + d + n
    BY <1>2, <1>7
  <1>9. SubSeq(pkt.body, k + 1, k + d) = data
    <2>1. SubSeq((hb \o data) \o pad, Len(hb) + 1, Len(hb) + Len(data)) = data
      BY <1>1, Part
    <2> QED BY <1>2, <1>4, <1>7, <2>1, Zenon
  <1>10. SubSeq(pkt.body, h + 1, Len(pkt.body) - H!PaddingOf(pkt, h)) = data
    <2>1. k + d + n - n = k + d
      OBVIOUS
    <2>2. Len(pkt.body) - H!PaddingOf(pkt, h) = k + d + n - n
      <3>1. H!PaddingOf(pkt, h) = n
        BY <1>3, <1>7
      <3> QED BY <1>8, <3>1
    <2>3. h + 1 = k + 1
      BY <1>7
    <2> QED BY <1>9, <2>1, <2>2, <2>3, Zenon
  <1>11. [i \in 1 .. pkt.cc |-> pkt.body[4 * i].v] = csrc
    <2>1. PICK rest \in Octs : rest = block \o (data \o pad)
      <3>1. data \o pad \in Octs
        BY <1>1, Cat
      <3> QED BY <3>1, Cat, Zenon
    <2>2. pkt.body = head \o rest
      <3>1. data \o pad \in Octs
        BY <1>1, Cat
      <3>2. (hb \o data) \o pad = hb \o (data \o pad)
        BY <1>1, Assoc, Zenon
      <3>3. (head \o block) \o (data \o pad) = head \o (block \o (data \o pad))
        <4>1. PICK dp \in Octs, he \in Octs : dp = data \o pad /\ he = head
          BY <1>6, <3>1, Zenon
        <4>2. (he \o block) \o dp = he \o (block \o dp)
          BY Assoc, Zenon
        <4> QED BY <4>1, <4>2, Zenon
      <3> QED BY <1>2, <1>4, <2>1, <3>2, <3>3, Zenon
    <2>3. \A i \in 1 .. Len(head) : (head \o rest)[i] = head[i]
      BY <1>6, InFront
    <2>4. \A i \in 1 .. c : pkt.body[4 * i].v = csrc[i]
      BY <1>6, <1>7, <2>2, <2>3, Zenon
    <2>5. csrc = [i \in 1 .. Len(csrc) |-> csrc[i]]
      BY <1>1
    <2>6. [i \in 1 .. c |-> pkt.body[4 * i].v] = [i \in 1 .. c |-> csrc[i]]
      BY <2>4
    <2> QED BY <1>1, <1>7, <2>5, <2>6, Zenon
  <1>12. (IF H!HasBlock(pkt) /\ H!IsOneByte(pkt) /\ H!BlockEnd(pkt) <= Len(pkt.body)
          THEN H!ParseExtensions(H!BlockData(pkt)) ELSE H!NoExts) = exts
    <2>1. CASE pkt.x
      <3>1. k <= k + d + n
        OBVIOUS
      <3>2. H!BlockEnd(pkt) <= Len(pkt.body)
        BY <1>5, <1>7, <1>8, <2>1, <3>1
      <3>3. H!ParseExtensions(H!BlockData(pkt)) = exts
        BY <1>5, <2>1, ParseFits
      <3> QED BY <1>5, <2>1, <3>2, <3>3
    <2>2. CASE ~ pkt.x
      BY <1>5, <2>2
    <2> QED BY <2>1, <2>2
  <1>13. ~ (h < 0)
    BY <1>7
  <1> QED BY <1>3, <1>10, <1>11, <1>12, <1>13, Zenon DEF H!Parse

(* And readExtension (rtp.js:575-596) reads one of them.                   *)
LEMMA ReadReads ==
    ASSUME NEW pkt, NEW csrc, NEW exts, NEW rest, Carries(pkt, csrc, exts, rest), NEW id
    PROVE  H!ReadExtension(pkt, id) = IF id \in DOMAIN exts THEN exts[id] ELSE <<>>
  <1>1. PICK block \in Octs : Laid(pkt, csrc, exts, rest, block)
    BY Layout
  <1>2. /\ H!HasBlock(pkt) <=> pkt.x
        /\ ~ pkt.x => exts = H!NoExts
        /\ pkt.x => H!IsOneByte(pkt) /\ \E place : Fits(H!BlockData(pkt), exts, place)
    BY <1>1, Zenon DEF Laid
  <1>3. CASE ~ pkt.x
    BY <1>2, <1>3, NoExtsIn, Zenon DEF H!ReadExtension
  <1>4. CASE pkt.x
    <2>1. PICK place : Fits(H!BlockData(pkt), exts, place)
      BY <1>2, <1>4
    <2>2. PICK data, found : data = H!BlockData(pkt) /\ found = H!Elements(data, TRUE)
      BY Zenon
    <2>3. /\ id \in DOMAIN exts => Hits(found, id) # {} /\ H!ValueOf(data, FirstHit(found, id)) = exts[id]
          /\ id \notin DOMAIN exts => Hits(found, id) = {}
      <3>1. Fits(data, exts, place)
        BY <2>1, <2>2
      <3> QED BY <2>2, <3>1, FirstFits, Zenon
    <2>4. H!ReadExtension(pkt, id) = IF Hits(found, id) = {} THEN <<>> ELSE H!ValueOf(data, FirstHit(found, id))
      <3>1. H!HasBlock(pkt) /\ H!IsOneByte(pkt)
        BY <1>2, <1>4
      <3>2. H!ReadExtension(pkt, id)
              = IF Hits(H!Elements(H!BlockData(pkt), TRUE), id) = {} THEN <<>>
                ELSE H!ValueOf(H!BlockData(pkt), FirstHit(H!Elements(H!BlockData(pkt), TRUE), id))
        BY <3>1, Zenon DEF H!ReadExtension, Hits, FirstHit
      <3> QED BY <2>2, <3>2, Zenon
    <2> QED BY <2>3, <2>4
  <1> QED BY <1>3, <1>4

-----------------------------------------------------------------------------
(* What remapExtensionIds writes for octet i of a block's data.            *)
Over(found, i) == CHOOSE f \in found : i \in f.at .. f.at + f.len
Renewed(data, found, idMap, i) ==
    IF ~\E f \in found : i \in f.at .. f.at + f.len THEN data[i]
    ELSE IF Over(found, i).id \notin DOMAIN idMap THEN H!Zero
    ELSE IF i = Over(found, i).at THEN H!Element(idMap[Over(found, i).id], Over(found, i).len)
    ELSE data[i]
Entries(data) == {H!Elements(data, FALSE)[i] : i \in DOMAIN H!Elements(data, FALSE)}

(* remapExtensionIds, octet by octet.                                      *)
LEMMA RemapIs ==
    ASSUME NEW pkt, NEW idMap
    PROVE  H!RemapExtensionIds(pkt, idMap)
             = IF ~(H!HasBlock(pkt) /\ H!IsOneByte(pkt)) THEN pkt
               ELSE [pkt EXCEPT !.body =
                        SubSeq(@, 1, H!CsrcEnd(pkt) + 4)
                        \o [i \in DOMAIN H!BlockData(pkt) |-> Renewed(H!BlockData(pkt), Entries(H!BlockData(pkt)), idMap, i)]
                        \o SubSeq(@, H!PayloadOffset(pkt) + 1, Len(@))]
  BY Zenon DEF H!RemapExtensionIds, Renewed, Over, Entries

(* The extensions under their new ids: those without one are gone.         *)
IdMaps == {M \in UNION {[ids -> 1 .. 14] : ids \in SUBSET (1 .. 14)} : \A a, b \in DOMAIN M : M[a] = M[b] => a = b}
Moved(exts, idMap, out) ==
    /\ DOMAIN out = {idMap[id] : id \in DOMAIN exts \cap DOMAIN idMap}
    /\ \A id \in DOMAIN exts \cap DOMAIN idMap : out[idMap[id]] = exts[id]

(* The elements to be renamed are the extensions.                          *)
LEMMA EntriesFit ==
    ASSUME NEW data, NEW exts, NEW place, Fits(data, exts, place)
    PROVE  /\ \A f \in Entries(data) : f.id \in DOMAIN exts /\ f.at = place[f.id] /\ f.len = Len(exts[f.id])
           /\ \A id \in DOMAIN exts : \E f \in Entries(data) : f.id = id /\ f.at = place[id] /\ f.len = Len(exts[id])
  <1>1. PICK s : s = H!Elements(data, FALSE)
    BY Zenon
  <1>2. Finds(s, exts, place, 1)
    BY <1>1, ScanFinds, Zenon
  <1>3. DOMAIN s = 1 .. Len(s)
    BY <1>2 DEF Finds
  <1>4. Entries(data) = {s[i] : i \in DOMAIN s}
    BY <1>1, Zenon DEF Entries
  <1>5. \A id \in DOMAIN exts : place[id] >= 1
    BY DEF Fits
  <1>6. ASSUME NEW f \in Entries(data)
        PROVE  f.id \in DOMAIN exts /\ f.at = place[f.id] /\ f.len = Len(exts[f.id])
    BY <1>2, <1>3, <1>4 DEF Finds
  <1>7. ASSUME NEW id \in DOMAIN exts
        PROVE  \E f \in Entries(data) : f.id = id /\ f.at = place[id] /\ f.len = Len(exts[id])
    <2>1. PICK k \in 1 .. Len(s) : s[k].id = id
      BY <1>2, <1>5 DEF Finds
    <2>2. s[k] \in Entries(data)
      BY <1>3, <1>4
    <2> QED BY <1>6, <2>1, <2>2
  <1> QED BY <1>6, <1>7

(* A renamed block holds the moved extensions, where the old ones stood.   *)
LEMMA RenewedFits ==
    ASSUME NEW data, NEW exts, NEW place, Fits(data, exts, place), NEW idMap \in IdMaps
    PROVE  \E out, at : /\ Moved(exts, idMap, out)
                        /\ Fits([i \in DOMAIN data |-> Renewed(data, Entries(data), idMap, i)], out, at)
  <1> DEFINE kept == DOMAIN exts \cap DOMAIN idMap
             Old(new) == CHOOSE id \in kept : idMap[id] = new
             ids == {idMap[id] : id \in kept}
  <1>1. /\ \A id \in DOMAIN idMap : idMap[id] \in 1 .. 14
        /\ \A a, b \in DOMAIN idMap : idMap[a] = idMap[b] => a = b
    <2>1. PICK all \in SUBSET (1 .. 14) : idMap \in [all -> 1 .. 14]
      BY DEF IdMaps
    <2>2. \A id \in DOMAIN idMap : idMap[id] \in 1 .. 14
      BY <2>1
    <2> QED BY <2>2 DEF IdMaps
  <1>2. \A id \in kept : Old(idMap[id]) = id
    BY <1>1
  <1> HIDE DEF Old
  <1>3. PICK out, at : out = [new \in ids |-> exts[Old(new)]] /\ at = [new \in ids |-> place[Old(new)]]
    BY Zenon
  <1>4. DOMAIN out = ids /\ \A id \in kept : out[idMap[id]] = exts[id] /\ at[idMap[id]] = place[id]
    BY <1>2, <1>3
  <1>5. Moved(exts, idMap, out)
    BY <1>4 DEF Moved
  <1>6. \A new \in DOMAIN out : \E id \in kept : new = idMap[id] /\ out[new] = exts[id] /\ at[new] = place[id]
    BY <1>4
  <1>7. PICK n \in Nat : n = Len(data) /\ DOMAIN data = 1 .. n
    BY DEF Fits
  <1>8. /\ exts \in ExtSets
        /\ \A id \in DOMAIN exts : exts[id] \in Seq(Plain) /\ Len(exts[id]) \in 1 .. 16
    BY ExtFacts DEF Fits
  <1>9. out \in ExtSets
    <2>1. \A new \in ids : out[new] \in Seq(Plain) /\ Len(out[new]) \in 1 .. 16
      BY <1>4, <1>6, <1>8
    <2>2. ids \in SUBSET (1 .. 14)
      BY <1>1
    <2>3. out \in [ids -> Seq(Plain)]
      <3>1. out = [new \in ids |-> out[new]]
        BY <1>3
      <3> HIDE DEF ids
      <3> QED BY <2>1, <3>1
    <2> HIDE DEF ids
    <2> QED BY <1>4, <2>1, <2>2, <2>3, Zenon DEF ExtSets
  <1>10. PICK all : all = [i \in 1 .. n |-> Renewed(data, Entries(data), idMap, i)]
    BY Zenon
  <1>11. ASSUME NEW i \in 1 .. n, NEW id \in DOMAIN exts, place[id] <= i, i <= place[id] + Len(exts[id])
         PROVE  all[i] = IF id \notin DOMAIN idMap THEN H!Zero
                         ELSE IF i = place[id] THEN H!Element(idMap[id], Len(exts[id])) ELSE data[i]
    <2>1. PICK f \in Entries(data) : f.id = id /\ f.at = place[id] /\ f.len = Len(exts[id])
      BY EntriesFit
    <2>2. place[id] \in Int /\ Len(exts[id]) \in Int
      BY <1>8 DEF Fits
    <2>3. i \in f.at .. f.at + f.len
      BY <1>11, <2>1, <2>2
    <2>4. PICK e : e = Over(Entries(data), i)
      OBVIOUS
    <2>5. e \in Entries(data) /\ i \in e.at .. e.at + e.len
      BY <2>3, <2>4 DEF Over
    <2>6. e.id \in DOMAIN exts /\ e.at = place[e.id] /\ e.len = Len(exts[e.id])
      BY <2>5, EntriesFit
    <2>7. e.id = id
      <3> SUFFICES ASSUME e.id # id PROVE FALSE
        OBVIOUS
      <3>1. place[id] + Len(exts[id]) < place[e.id] \/ place[e.id] + Len(exts[e.id]) < place[id]
        BY <2>6 DEF Fits
      <3>2. place[e.id] \in Int /\ Len(exts[e.id]) \in Int
        BY <1>8, <2>6 DEF Fits
      <3>3. place[e.id] <= i /\ i <= place[e.id] + Len(exts[e.id])
        BY <2>5, <2>6, <3>2
      <3> QED BY <1>11, <2>2, <3>1, <3>2, <3>3
    <2>8. all[i] = Renewed(data, Entries(data), idMap, i)
      BY <1>10
    <2>9. \E g \in Entries(data) : i \in g.at .. g.at + g.len
      BY <2>3
    <2> QED BY <2>4, <2>6, <2>7, <2>8, <2>9, Zenon DEF Renewed
  <1>12. ASSUME NEW i \in 1 .. n, ~ \E id \in DOMAIN exts : place[id] <= i /\ i <= place[id] + Len(exts[id])
         PROVE  all[i] = H!Zero
    <2>1. \A f \in Entries(data) : ~ (i \in f.at .. f.at + f.len)
      BY <1>12, EntriesFit
    <2>2. all[i] = data[i]
      BY <1>10, <2>1 DEF Renewed
    <2>3. data[i] = H!Zero
      BY <1>7, <1>12 DEF Fits
    <2> QED BY <2>2, <2>3
  <1>13. all \in Seq(AnyOctet) /\ Len(all) = n
    <2>1. ASSUME NEW i \in 1 .. n PROVE all[i] \in AnyOctet
      <3>1. data[i] \in AnyOctet
        BY <1>7 DEF Fits
      <3>2. H!Zero \in AnyOctet
        BY PlainOctets
      <3>3. CASE \E id \in DOMAIN exts : place[id] <= i /\ i <= place[id] + Len(exts[id])
        <4>1. PICK id \in DOMAIN exts : place[id] <= i /\ i <= place[id] + Len(exts[id])
          BY <3>3
        <4>2. id \in DOMAIN idMap => H!Element(idMap[id], Len(exts[id])) \in AnyOctet
          <5> SUFFICES ASSUME id \in DOMAIN idMap PROVE H!Element(idMap[id], Len(exts[id])) \in AnyOctet
            OBVIOUS
          <5>1. PICK a \in Int, b \in Int : a = idMap[id] /\ b = Len(exts[id])
            BY <1>1, <1>8
          <5> QED BY <5>1, PlainOctets
        <4> QED BY <1>11, <3>1, <3>2, <4>1, <4>2
      <3>4. CASE ~ \E id \in DOMAIN exts : place[id] <= i /\ i <= place[id] + Len(exts[id])
        BY <1>12, <3>2, <3>4
      <3> QED BY <3>3, <3>4
    <2>2. all \in [1 .. n -> AnyOctet]
      BY <1>10, <2>1
    <2> QED BY <2>2, FcnSeq
  <1>14. ASSUME NEW id \in kept
         PROVE  /\ place[id] \in 1 .. Len(all) /\ place[id] + Len(exts[id]) <= Len(all)
                /\ all[place[id]] = H!Element(idMap[id], Len(exts[id]))
                /\ \A j \in 1 .. Len(exts[id]) : all[place[id] + j] = exts[id][j]
    <2>1. /\ place[id] \in 1 .. n /\ place[id] + Len(exts[id]) <= n
          /\ \A j \in 1 .. Len(exts[id]) : data[place[id] + j] = exts[id][j]
      BY <1>7 DEF Fits
    <2>2. PICK p \in 1 .. n, l \in 1 .. 16 : p = place[id] /\ l = Len(exts[id])
      BY <1>8, <2>1
    <2>3. p <= p /\ p <= p + l
      OBVIOUS
    <2>4. all[p] = H!Element(idMap[id], l)
      BY <1>11, <2>2, <2>3
    <2>5. ASSUME NEW j \in 1 .. l PROVE all[p + j] = exts[id][j]
      <3>1. p + l <= n
        BY <2>1, <2>2
      <3>2. PICK i \in 1 .. n : i = p + j
        BY <3>1
      <3>3. p <= i /\ i <= p + l /\ i # p
        BY <3>2
      <3>4. all[i] = data[i]
        BY <1>11, <2>2, <3>3
      <3> QED BY <2>1, <2>2, <3>2, <3>4
    <2> QED BY <1>13, <2>1, <2>2, <2>4, <2>5
  <1>15. ASSUME NEW new \in DOMAIN out
         PROVE  /\ at[new] \in 1 .. Len(all) /\ at[new] + Len(out[new]) <= Len(all)
                /\ all[at[new]] = H!Element(new, Len(out[new]))
                /\ \A j \in 1 .. Len(out[new]) : all[at[new] + j] = out[new][j]
    <2>1. PICK id \in kept : new = idMap[id] /\ out[new] = exts[id] /\ at[new] = place[id]
      BY <1>6
    <2> QED BY <1>14, <2>1
  <1>16. ASSUME NEW a \in DOMAIN out, NEW b \in DOMAIN out, a # b
         PROVE  at[a] + Len(out[a]) < at[b] \/ at[b] + Len(out[b]) < at[a]
    <2>1. PICK c \in kept : a = idMap[c] /\ out[a] = exts[c] /\ at[a] = place[c]
      BY <1>6
    <2>2. PICK d \in kept : b = idMap[d] /\ out[b] = exts[d] /\ at[b] = place[d]
      BY <1>6
    <2>3. c # d
      BY <1>16, <2>1, <2>2
    <2> QED BY <2>1, <2>2, <2>3 DEF Fits
  <1>17. ASSUME NEW i \in 1 .. Len(all)
         PROVE  all[i] = H!Zero \/ \E new \in DOMAIN out : at[new] <= i /\ i <= at[new] + Len(out[new])
    <2>0. i \in 1 .. n
      BY <1>13
    <2>1. CASE \E id \in DOMAIN exts : place[id] <= i /\ i <= place[id] + Len(exts[id])
      <3>1. PICK id \in DOMAIN exts : place[id] <= i /\ i <= place[id] + Len(exts[id])
        BY <2>1
      <3>2. CASE id \in DOMAIN idMap
        <4>1. id \in kept /\ idMap[id] \in DOMAIN out
          BY <1>4, <3>2
        <4> QED BY <1>4, <3>1, <4>1
      <3>3. CASE id \notin DOMAIN idMap
        BY <1>11, <2>0, <3>1, <3>3
      <3> QED BY <3>2, <3>3
    <2>2. CASE ~ \E id \in DOMAIN exts : place[id] <= i /\ i <= place[id] + Len(exts[id])
      BY <1>12, <2>0, <2>2
    <2> QED BY <2>1, <2>2
  <1>18. Fits(all, out, at)
    <2> HIDE DEF kept, ids
    <2> QED BY <1>9, <1>13, <1>15, <1>16, <1>17 DEF Fits
  <1> QED BY <1>5, <1>7, <1>10, <1>18, Zenon

(* remapExtensionIds (rtp.js:616-638) moves the extensions to their new    *)
(* ids, and leaves the rest of the packet alone.                           *)
THEOREM RemapCarries ==
    ASSUME NEW pkt, NEW csrc, NEW exts, NEW rest, Carries(pkt, csrc, exts, rest), NEW idMap \in IdMaps
    PROVE  \E out : /\ Moved(exts, idMap, out)
                    /\ Carries(H!RemapExtensionIds(pkt, idMap), csrc, out, rest)
                    /\ SameHeader(H!RemapExtensionIds(pkt, idMap), pkt)
  <1>1. pkt \in Wire /\ csrc \in Seq(Int) /\ exts \in ExtSets /\ rest \in Octs /\ pkt.cc = Len(csrc)
    BY DEF Carries
  <1>2. PICK block \in Octs : Laid(pkt, csrc, exts, rest, block)
    BY Layout
  <1>3. CASE ~ pkt.x
    <2>1. H!RemapExtensionIds(pkt, idMap) = pkt
      BY <1>2, <1>3, RemapIs, Zenon DEF Laid
    <2>2. exts = H!NoExts
      BY <1>2, <1>3 DEF Laid
    <2>3. Moved(exts, idMap, exts)
      BY <2>2, NoExtsIn DEF Moved
    <2> QED BY <2>1, <2>3 DEF SameHeader
  <1>4. CASE pkt.x
    <2> DEFINE head == CsrcOctets(csrc)
               data == H!BlockData(pkt)
               new  == [i \in DOMAIN data |-> Renewed(data, Entries(data), idMap, i)]
    <2>1. /\ head \in Octs /\ H!HasBlock(pkt) /\ H!IsOneByte(pkt)
          /\ SubSeq(pkt.body, Len(head) + Len(block) + 1, Len(pkt.body)) = rest
          /\ H!BlockEnd(pkt) = Len(head) + Len(block)
          /\ \E place : Fits(data, exts, place)
      BY <1>2, <1>4, Zenon DEF Laid
    <2>2. PICK w \in Nat : /\ SubSeq(pkt.body, 1, H!CsrcEnd(pkt) + 4) = head \o BlockHead(w)
                           /\ block = BlockHead(w) \o data
                           /\ Len(data) = 4 * w
      BY <1>2, <1>4, Zenon DEF Laid
    <2>3. H!PayloadOffset(pkt) = Len(head) + Len(block)
      <3>1. R!HeaderLen(pkt) = Len(head) + Len(block) /\ (H!PayloadOffset(pkt) = R!HeaderLen(pkt) \/ rest \notin Octs)
        BY <1>2, HeaderEnds
      <3> QED BY <1>1, <3>1
    <2>4. PICK place : Fits(data, exts, place)
      BY <2>1
    <2>5. PICK out, at : Moved(exts, idMap, out) /\ Fits(new, out, at)
      BY <2>4, RenewedFits
    <2>6. DOMAIN new = DOMAIN data /\ data \in Octs /\ new \in Octs
      BY <2>4, <2>5 DEF Fits, Octs
    <2>7. Len(new) = 4 * w
      <3>1. DOMAIN new = 1 .. Len(new) /\ Len(new) \in Nat /\ DOMAIN data = 1 .. Len(data) /\ Len(data) \in Nat
        <4> HIDE DEF data, new
        <4> QED BY <2>6 DEF Octs
      <3>2. PICK a \in Nat, b \in Nat : a = Len(new) /\ b = Len(data)
        BY <3>1, Zenon
      <3>3. 1 .. a = 1 .. b
        BY <2>6, <3>1, <3>2, Zenon
      <3>4. a = b
        BY <3>3
      <3> QED BY <2>2, <3>2, <3>4, Zenon
    <2>8. H!RemapExtensionIds(pkt, idMap) = [pkt EXCEPT !.body = (head \o BlockHead(w)) \o new \o rest]
      <3>1. H!RemapExtensionIds(pkt, idMap)
              = [pkt EXCEPT !.body = SubSeq(@, 1, H!CsrcEnd(pkt) + 4) \o new \o SubSeq(@, H!PayloadOffset(pkt) + 1, Len(@))]
        BY <2>1, RemapIs, Zenon
      <3> HIDE DEF new, head, data
      <3> QED BY <2>1, <2>2, <2>3, <3>1, Zenon
    <2> HIDE DEF new, head, data
    <2>9. BlockHead(w) \in Octs /\ BlockHead(w) \o new \in Octs
      BY <2>6, <2>7, BlockFacts
    <2>10. (head \o BlockHead(w)) \o new = head \o (BlockHead(w) \o new)
      <3>1. PICK bh \in Octs : bh = BlockHead(w)
        BY <2>9
      <3>2. (head \o bh) \o new = head \o (bh \o new)
        BY <2>1, <2>6, Assoc
      <3> QED BY <3>1, <3>2, Zenon
    <2>11. PICK body : body = (head \o (BlockHead(w) \o new)) \o rest
      BY Zenon
    <2>12. body \in Octs
      <3>1. PICK bl \in Octs : bl = BlockHead(w) \o new
        BY <2>9, Zenon
      <3>2. PICK hb \in Octs : hb = head \o bl
        BY <2>1, Cat, Zenon
      <3>3. hb \o rest \in Octs
        BY <1>1, Cat
      <3> QED BY <2>11, <3>1, <3>2, <3>3, Zenon
    <2>13. PICK res : res = [pkt EXCEPT !.body = body]
      BY Zenon
    <2>14. H!RemapExtensionIds(pkt, idMap) = res
      BY <2>8, <2>10, <2>11, <2>13, Zenon
    <2>15. res \in Wire /\ res.x /\ res.cc = pkt.cc /\ res.body = body /\ SameHeader(res, pkt)
      BY <1>1, <1>4, <2>12, <2>13, Zenon DEF Wire, SameHeader
    <2>16. Blocks(BlockHead(w) \o new, out)
      BY <2>5, <2>7, Zenon DEF Blocks
    <2>17. out \in ExtSets
      BY <2>5 DEF Fits
    <2>18. Carries(res, csrc, out, rest)
      BY <1>1, <2>9, <2>11, <2>15, <2>16, <2>17, Zenon DEF Carries, head
    <2> QED BY <2>5, <2>14, <2>15, <2>18
  <1> QED BY <1>3, <1>4

-----------------------------------------------------------------------------
(* Ids negotiated for names, and what a block says under a name.           *)
At(exts, ids, name) == IF name \in DOMAIN ids /\ ids[name] \in DOMAIN exts THEN exts[ids[name]] ELSE <<>>

(* The value the stamper writes under a name.                              *)
NewTwcc(s) == IF "transport-cc" \in DOMAIN s.extMap THEN (s.twcc + 1) % SeqSpace ELSE s.twcc
StampValue(s, ssrc, hints, time, name) ==
    CASE name = "audio-level" ->
            IF hints.audioLevel = S!None THEN S!Nothing ELSE S!AudioLevel(hints.audioLevel, hints.voice)
      [] name = "transport-cc"  -> S!TransportCC(NewTwcc(s))
      [] name = "abs-send-time" -> S!AbsSendTime(time)
      [] name = "mid" ->
            IF S!MidOf(s, ssrc) = S!None THEN S!Nothing ELSE S!Name(S!MidOf(s, ssrc))
      [] name = "rtp-stream-id" ->
            IF S!Lookup(s.rid, ssrc) = S!None THEN S!Nothing ELSE S!Name(s.rid[ssrc])
      [] name = "repaired-rtp-stream-id" ->
            IF S!Lookup(s.rrid, ssrc) = S!None THEN S!Nothing ELSE S!Name(s.rrid[ssrc])
      [] OTHER -> S!Nothing
Known(s, ssrc, hints, time) == {n \in DOMAIN s.extMap : StampValue(s, ssrc, hints, time, n) # S!Nothing}
Batch(s, ssrc, hints, time) ==
    [id \in {s.extMap[n] : n \in Known(s, ssrc, hints, time)} |->
        StampValue(s, ssrc, hints, time, CHOOSE n \in Known(s, ssrc, hints, time) : s.extMap[n] = id)]

Outgoing(s, pkt, hints, time) ==
    IF Known(s, pkt.ssrc, hints, time) = {} THEN pkt
    ELSE S!SetHeaderExtensions(pkt, Batch(s, pkt.ssrc, hints, time))
(* What Stamp returns: the transport-wide number counted, and the          *)
(* extensions set.                                                         *)
LEMMA StampIs ==
    \A s, pkt, hints, time :
       /\ S!Stamp(s, pkt, hints, time).st = [s EXCEPT !.twcc = NewTwcc(s)]
       /\ S!Stamp(s, pkt, hints, time).pkt = Outgoing(s, pkt, hints, time)
  <1> SUFFICES ASSUME NEW s, NEW pkt, NEW hints, NEW time
               PROVE  /\ S!Stamp(s, pkt, hints, time).st = [s EXCEPT !.twcc = NewTwcc(s)]
                      /\ S!Stamp(s, pkt, hints, time).pkt = Outgoing(s, pkt, hints, time)
    OBVIOUS
  <1>1. S!Stamp(s, pkt, hints, time)
          = [st  |-> [s EXCEPT !.twcc = NewTwcc(s)],
             pkt |-> Outgoing(s, pkt, hints, time)]
    BY Zenon DEF S!Stamp, Known, Batch, StampValue, NewTwcc, Outgoing
  <1> QED BY <1>1

(* A stamper whose names of an SSRC are identifiers.                       *)
Names(s, ssrc) ==
    /\ IsIds(s.extMap) /\ s.twcc \in Int
    /\ S!MidOf(s, ssrc) \in Int
    /\ S!Lookup(s.rid, ssrc) \in Int /\ S!Lookup(s.rrid, ssrc) \in Int

(* Octets written by the stamper are a value an extension can have.        *)
LEMMA ValuePlain ==
    \A what \in Kinds \ {"osn"}, v \in Int, n \in 1 .. 16 :
       H!Octets(what, v, n) \in Seq(Plain) /\ Len(H!Octets(what, v, n)) \in 1 .. 16
  <1> SUFFICES ASSUME NEW what \in Kinds \ {"osn"}, NEW v \in Int, NEW n \in 1 .. 16
               PROVE  H!Octets(what, v, n) \in Seq(Plain) /\ Len(H!Octets(what, v, n)) \in 1 .. 16
    BY Zenon
  <1>1. n \in Nat /\ what \in Kinds /\ what # "osn"
    OBVIOUS
  <1>2. H!Octets(what, v, n) \in Seq(AnyOctet) /\ Len(H!Octets(what, v, n)) = n
    BY <1>1, OctetsFacts
  <1>3. H!Octets(what, v, n) \in Seq(Plain)
    BY <1>1, OctetsFacts, Zenon
  <1> QED BY <1>2, <1>3

(* The send time is a number, the same for the stamper and the reader.     *)
LEMMA FixedIn == \A time \in Int : S!Fixed(time) \in Int /\ S!Fixed(time) = H!Fixed(time)
  <1> SUFFICES ASSUME NEW time \in Int PROVE S!Fixed(time) \in Int /\ S!Fixed(time) = H!Fixed(time)
    OBVIOUS
  <1>1. PICK a \in Nat \ {0}, m \in Nat \ {0} : a = AbsSpace /\ m = MsPerSec
    BY WireAssumption
  <1>2. PICK x \in Int : x = time * TickRate
    BY WireAssumption
  <1>3. PICK y \in Int : y = Epoch * TickRate
    BY WireAssumption
  <1>4. PICK z \in Int : z = (x \div m) + y
    OBVIOUS
  <1>5. z % a \in Int
    OBVIOUS
  <1>6. S!Fixed(time) = z % a
    BY <1>1, <1>2, <1>3, <1>4, Zenon DEF S!Fixed
  <1>7. H!Fixed(time) = z % a
    BY <1>1, <1>2, <1>3, <1>4, Zenon DEF H!Fixed
  <1> QED BY <1>5, <1>6, <1>7

(* So is each value it writes.                                             *)
LEMMA ValueIn ==
    ASSUME NEW s, NEW ssrc, Names(s, ssrc), NEW hints, hints.audioLevel \in Int, NEW time \in Int, NEW name
    PROVE  LET v == StampValue(s, ssrc, hints, time, name)
           IN  v = S!Nothing \/ (v \in Seq(Plain) /\ Len(v) \in 1 .. 16)
  <1> DEFINE v == StampValue(s, ssrc, hints, time, name)
             Ok(x) == x = S!Nothing \/ (x \in Seq(Plain) /\ Len(x) \in 1 .. 16)
  <1>1. /\ {"level", "twcc", "abs", "name"} \subseteq Kinds \ {"osn"}
        /\ 1 \in 1 .. 16 /\ 2 \in 1 .. 16 /\ 3 \in 1 .. 16
    BY DEF Kinds
  <1>2. \A id \in Int : Ok(S!Name(id))
    <2> SUFFICES ASSUME NEW id \in Int PROVE Ok(S!Name(id))
      OBVIOUS
    <2>1. PICK n \in 1 .. 16 : n = 2
      OBVIOUS
    <2>2. H!Octets("name", id, n) \in Seq(Plain) /\ Len(H!Octets("name", id, n)) \in 1 .. 16
      BY <1>1, ValuePlain, Zenon
    <2> QED BY <2>1, <2>2, SameStamps DEF S!Name
  <1>3. S!Lookup(s.rid, ssrc) # S!None => S!Lookup(s.rid, ssrc) = s.rid[ssrc]
    BY DEF S!Lookup
  <1>4. S!Lookup(s.rrid, ssrc) # S!None => S!Lookup(s.rrid, ssrc) = s.rrid[ssrc]
    BY DEF S!Lookup
  <1>5. Ok(S!Nothing)
    OBVIOUS
  <1>6. Ok(S!AudioLevel(hints.audioLevel, hints.voice))
    <2>1. PICK n \in 1 .. 16 : n = 1
      OBVIOUS
    <2>2. PICK x \in Int : x = (IF hints.voice THEN 128 ELSE 0) + (hints.audioLevel % 128)
      OBVIOUS
    <2>3. H!Octets("level", x, n) \in Seq(Plain) /\ Len(H!Octets("level", x, n)) \in 1 .. 16
      BY <1>1, ValuePlain, Zenon
    <2>4. S!AudioLevel(hints.audioLevel, hints.voice) = H!Octets("level", x, n)
      BY <2>1, <2>2, SameStamps DEF S!AudioLevel
    <2> QED BY <2>3, <2>4
  <1>7. Ok(S!TransportCC(NewTwcc(s)))
    <2>1. PICK n \in 1 .. 16 : n = 2
      OBVIOUS
    <2>2. PICK x \in Int : x = (NewTwcc(s) % SeqSpace)
      <3>1. s.twcc \in Int /\ SeqSpace \in Nat \ {0}
        BY WireAssumption DEF Names
      <3>2. NewTwcc(s) \in Int
        BY <3>1 DEF NewTwcc
      <3> QED BY <3>1, <3>2
    <2>3. H!Octets("twcc", x, n) \in Seq(Plain) /\ Len(H!Octets("twcc", x, n)) \in 1 .. 16
      BY <1>1, ValuePlain, Zenon
    <2>4. S!TransportCC(NewTwcc(s)) = H!Octets("twcc", x, n)
      BY <2>1, <2>2, SameStamps DEF S!TransportCC
    <2> QED BY <2>3, <2>4
  <1>8. Ok(S!AbsSendTime(time))
    <2>1. PICK n \in 1 .. 16 : n = 3
      OBVIOUS
    <2>2. PICK x \in Int : x = S!Fixed(time)
      BY FixedIn
    <2>3. H!Octets("abs", x, n) \in Seq(Plain) /\ Len(H!Octets("abs", x, n)) \in 1 .. 16
      BY <1>1, ValuePlain, Zenon
    <2>4. S!AbsSendTime(time) = H!Octets("abs", x, n)
      BY <2>1, <2>2, SameStamps DEF S!AbsSendTime
    <2> QED BY <2>3, <2>4
  <1> HIDE DEF Ok
  <1>9. CASE name = "audio-level"
    <2>1. v = IF hints.audioLevel = S!None THEN S!Nothing ELSE S!AudioLevel(hints.audioLevel, hints.voice)
      BY <1>9 DEF StampValue
    <2>2. Ok(v)
      BY <1>5, <1>6, <2>1
    <2> QED BY <2>2 DEF Ok
  <1>10. CASE name = "transport-cc"
    <2>1. v = S!TransportCC(NewTwcc(s))
      BY <1>10 DEF StampValue
    <2>2. Ok(v)
      BY <1>7, <2>1
    <2> QED BY <2>2 DEF Ok
  <1>11. CASE name = "abs-send-time"
    <2>1. v = S!AbsSendTime(time)
      BY <1>11 DEF StampValue
    <2>2. Ok(v)
      BY <1>8, <2>1
    <2> QED BY <2>2 DEF Ok
  <1>12. CASE name = "mid"
    <2>1. v = IF S!MidOf(s, ssrc) = S!None THEN S!Nothing ELSE S!Name(S!MidOf(s, ssrc))
      BY <1>12 DEF StampValue
    <2>2. Ok(v)
      BY <1>2, <1>5, <2>1 DEF Names
    <2> QED BY <2>2 DEF Ok
  <1>13. CASE name = "rtp-stream-id"
    <2>1. v = IF S!Lookup(s.rid, ssrc) = S!None THEN S!Nothing ELSE S!Name(s.rid[ssrc])
      BY <1>13 DEF StampValue
    <2>2. Ok(v)
      BY <1>2, <1>3, <1>5, <2>1 DEF Names
    <2> QED BY <2>2 DEF Ok
  <1>14. CASE name = "repaired-rtp-stream-id"
    <2>1. v = IF S!Lookup(s.rrid, ssrc) = S!None THEN S!Nothing ELSE S!Name(s.rrid[ssrc])
      BY <1>14 DEF StampValue
    <2>2. Ok(v)
      BY <1>2, <1>4, <1>5, <2>1 DEF Names
    <2> QED BY <2>2 DEF Ok
  <1>15. CASE name \notin {"audio-level", "transport-cc", "abs-send-time", "mid", "rtp-stream-id", "repaired-rtp-stream-id"}
    <2>1. v = S!Nothing
      BY <1>15 DEF StampValue
    <2> QED BY <2>1
  <1> QED BY <1>9, <1>10, <1>11, <1>12, <1>13, <1>14, <1>15

(* stamp (rtp_header_stamper.js:126-204) writes the values there are and   *)
(* leaves what the packet carries besides.                                 *)
Stamped(s, ssrc, hints, time, exts, out) ==
    \A name \in DOMAIN s.extMap :
       At(out, s.extMap, name)
         = IF StampValue(s, ssrc, hints, time, name) # S!Nothing THEN StampValue(s, ssrc, hints, time, name)
           ELSE At(exts, s.extMap, name)

(* What is stamped is a set of extensions, one for each name that has a    *)
(* value.                                                                  *)
LEMMA BatchIn ==
    ASSUME NEW s, NEW ssrc, Names(s, ssrc), NEW hints, hints.audioLevel \in Int, NEW time \in Int
    PROVE  /\ Batch(s, ssrc, hints, time) \in ExtSets
           /\ \A name \in DOMAIN s.extMap :
                 IF name \in Known(s, ssrc, hints, time)
                 THEN /\ s.extMap[name] \in DOMAIN Batch(s, ssrc, hints, time)
                      /\ Batch(s, ssrc, hints, time)[s.extMap[name]] = StampValue(s, ssrc, hints, time, name)
                 ELSE s.extMap[name] \notin DOMAIN Batch(s, ssrc, hints, time)
  <1> DEFINE known == Known(s, ssrc, hints, time)
             V(n)  == StampValue(s, ssrc, hints, time, n)
             ids   == {s.extMap[n] : n \in known}
             Of(id) == CHOOSE n \in known : s.extMap[n] = id
             batch == Batch(s, ssrc, hints, time)
  <1>1. known \subseteq DOMAIN s.extMap /\ \A n \in known : V(n) \in Seq(Plain) /\ Len(V(n)) \in 1 .. 16
    <2>1. known \subseteq DOMAIN s.extMap /\ \A n \in known : V(n) # S!Nothing
      BY DEF Known
    <2> QED BY <2>1, ValueIn
  <1>2. IsIds(s.extMap)
    BY DEF Names
  <1>3. batch = [id \in ids |-> V(Of(id))]
    BY Zenon DEF Batch
  <1> HIDE DEF known, V, batch
  <1>4. \A n \in known : Of(s.extMap[n]) = n
    BY <1>1, <1>2 DEF IsIds
  <1> HIDE DEF Of
  <1>5. DOMAIN batch = ids /\ \A n \in known : batch[s.extMap[n]] = V(n)
    BY <1>3, <1>4
  <1>6. batch \in ExtSets
    <2>1. ids \in SUBSET (1 .. 14)
      BY <1>1, <1>2 DEF IsIds
    <2>2. \A id \in ids : V(Of(id)) \in Seq(Plain) /\ Len(V(Of(id))) \in 1 .. 16
      BY <1>1, <1>4
    <2> HIDE DEF ids
    <2>3. batch \in [ids -> Seq(Plain)]
      BY <1>3, <2>2
    <2>4. \A id \in DOMAIN batch : Len(batch[id]) \in 1 .. 16
      BY <1>3, <2>2
    <2> QED BY <1>5, <2>1, <2>3, <2>4, Zenon DEF ExtSets
  <1>7. ASSUME NEW name \in DOMAIN s.extMap, name \notin known PROVE s.extMap[name] \notin ids
    BY <1>1, <1>2, <1>7 DEF IsIds
  <1> QED BY <1>5, <1>6, <1>7 DEF known, V, batch

(* So stamp changes nothing of a packet but the extensions it has a value  *)
(* for, under the ids negotiated for their names.                          *)
THEOREM StampCarries ==
    ASSUME NEW s, NEW pkt, NEW csrc, NEW exts, NEW rest, Carries(pkt, csrc, exts, rest), Names(s, pkt.ssrc),
           NEW hints, hints.audioLevel \in Int, NEW time \in Int
    PROVE  \E out : /\ Carries(S!Stamp(s, pkt, hints, time).pkt, csrc, out, rest)
                    /\ SameHeader(S!Stamp(s, pkt, hints, time).pkt, pkt)
                    /\ Stamped(s, pkt.ssrc, hints, time, exts, out)
  <1> DEFINE known == Known(s, pkt.ssrc, hints, time)
             batch == Batch(s, pkt.ssrc, hints, time)
             V(n)  == StampValue(s, pkt.ssrc, hints, time, n)
  <1>0. S!Stamp(s, pkt, hints, time).pkt = Outgoing(s, pkt, hints, time)
    BY StampIs
  <1>1. CASE known = {}
    <2>1. S!Stamp(s, pkt, hints, time).pkt = pkt
      BY <1>0, <1>1 DEF Outgoing
    <2>2. Stamped(s, pkt.ssrc, hints, time, exts, exts)
      BY <1>1 DEF Stamped, Known
    <2> QED BY <2>1, <2>2 DEF SameHeader
  <1>2. CASE known # {}
    <2>1. S!Stamp(s, pkt, hints, time).pkt = H!SetHeaderExtensions(pkt, batch)
      <3>1. S!Stamp(s, pkt, hints, time).pkt = S!SetHeaderExtensions(pkt, batch)
        BY <1>0, <1>2 DEF Outgoing
      <3> QED BY <3>1, SameStamps
    <2>2. batch \in ExtSets
      BY BatchIn
    <2>3. PICK out : out = Merged(batch, exts)
      OBVIOUS
    <2>4. /\ DOMAIN out = DOMAIN batch \cup DOMAIN exts
          /\ \A id \in DOMAIN out : out[id] = IF id \in DOMAIN batch THEN batch[id] ELSE exts[id]
      BY <2>3 DEF Merged
    <2>5. ASSUME NEW name \in DOMAIN s.extMap
          PROVE  At(out, s.extMap, name) = IF V(name) # S!Nothing THEN V(name) ELSE At(exts, s.extMap, name)
      <3>1. CASE name \in known
        <4>1. s.extMap[name] \in DOMAIN batch /\ batch[s.extMap[name]] = V(name)
          BY <3>1, BatchIn
        <4>2. V(name) # S!Nothing
          BY <3>1 DEF Known
        <4> HIDE DEF V, batch
        <4> QED BY <2>4, <4>1, <4>2 DEF At
      <3>2. CASE name \notin known
        <4>1. s.extMap[name] \notin DOMAIN batch
          BY <3>2, BatchIn
        <4>2. V(name) = S!Nothing
          BY <3>2 DEF Known
        <4> HIDE DEF V, batch
        <4> QED BY <2>4, <4>1, <4>2 DEF At
      <3> QED BY <3>1, <3>2
    <2>6. Stamped(s, pkt.ssrc, hints, time, exts, out)
      BY <2>5 DEF Stamped
    <2>7. Carries(H!SetHeaderExtensions(pkt, batch), csrc, out, rest) /\ SameHeader(H!SetHeaderExtensions(pkt, batch), pkt)
      BY <2>2, <2>3, SetCarries
    <2> QED BY <2>1, <2>6, <2>7
  <1> QED BY <1>1, <1>2

-----------------------------------------------------------------------------
(* Packets whose fields fit the header.                                    *)
Asked == [padding : BOOLEAN, exts : ExtSets, csrc : Csrcs, marker : BOOLEAN, pt : 0 .. 127,
          seq : 0 .. SeqSpace - 1, ts : 0 .. WordSpace - 1, ssrc : 0 .. WordSpace - 1, payload : Octs]

(* A number that fits loses nothing.                                       *)
LEMMA FitsWhole == \A n \in Nat \ {0}, v \in Int : v \in 0 .. n - 1 => v % n = v
  OBVIOUS

(* What is kept of a number fits.                                          *)
LEMMA RestIn == \A n \in Nat \ {0}, v \in Int : v % n \in Int /\ v % n \in 0 .. n - 1
  OBVIOUS

(* Sources that fit are written as they are.                               *)
LEMMA CsrcWhole ==
    ASSUME NEW csrc \in Csrcs
    PROVE  /\ csrc \in Seq(Int) /\ Len(csrc) % 16 = Len(csrc)
           /\ [i \in 1 .. 4 * Len(csrc) |->
                  H!Octet("csrc", csrc[(i + 3) \div 4] % WordSpace, ((i - 1) % 4) + 1)] = CsrcOctets(csrc)
  <1>1. csrc \in Seq(0 .. WordSpace - 1) /\ Len(csrc) <= 15 /\ Len(csrc) \in Nat
    BY DEF Csrcs
  <1>2. PICK w \in Nat \ {0} : w = WordSpace
    BY WireAssumption
  <1>3. \A k \in 1 .. Len(csrc) : csrc[k] \in 0 .. w - 1
    BY <1>1, <1>2, ElementOfSeq
  <1>4. csrc \in Seq(Int)
    BY <1>1, <1>3
  <1>5. ASSUME NEW i \in 1 .. 4 * Len(csrc)
        PROVE  csrc[(i + 3) \div 4] % WordSpace = csrc[(i + 3) \div 4]
    <2>1. PICK k \in 1 .. Len(csrc) : k = (i + 3) \div 4
      BY <1>1
    <2>2. PICK v \in 0 .. w - 1 : v = csrc[k]
      BY <1>3
    <2>3. v % w = v
      BY <2>2, FitsWhole
    <2> QED BY <1>2, <2>1, <2>2, <2>3, Zenon
  <1>6. Len(csrc) % 16 = Len(csrc)
    BY <1>1
  <1> QED BY <1>4, <1>5, <1>6, Zenon DEF CsrcOctets

(* serialize (rtp.js:83-121) writes what it is asked to, if it fits.       *)
LEMMA SerializeCarries ==
    ASSUME NEW r \in Asked
    PROVE  /\ Carries(H!Serialize(r), r.csrc, r.exts, r.payload)
           /\ H!Serialize(r).p = r.padding /\ H!Serialize(r).m = r.marker /\ H!Serialize(r).pt = r.pt
           /\ H!Serialize(r).seq = r.seq /\ H!Serialize(r).ts = r.ts /\ H!Serialize(r).ssrc = r.ssrc
  <1> DEFINE head  == CsrcOctets(r.csrc)
             block == IF r.exts = H!NoExts THEN <<>> ELSE H!WriteExtensions(r.exts)
             pkt   == H!Serialize(r)
  <1>1. /\ r.csrc \in Seq(Int) /\ r.exts \in ExtSets /\ r.payload \in Octs /\ r.padding \in BOOLEAN
        /\ r.marker \in BOOLEAN /\ r.pt \in Int /\ r.seq \in Int /\ r.ts \in Int /\ r.ssrc \in Int
    <2>1. r.csrc \in Csrcs
      BY DEF Asked
    <2>2. r.csrc \in Seq(Int)
      BY <2>1, CsrcWhole, Zenon
    <2>3. /\ r.exts \in ExtSets /\ r.payload \in Octs /\ r.padding \in BOOLEAN
          /\ r.marker \in BOOLEAN /\ r.pt \in 0 .. 127 /\ r.seq \in 0 .. SeqSpace - 1
          /\ r.ts \in 0 .. WordSpace - 1 /\ r.ssrc \in 0 .. WordSpace - 1
      BY DEF Asked
    <2>4. \A n \in Nat : \A v \in 0 .. n - 1 : v \in Int
      OBVIOUS
    <2>5. r.seq \in Int /\ r.ts \in Int /\ r.ssrc \in Int
      BY <2>3, <2>4, WireAssumption
    <2>6. r.pt \in Int
      BY <2>3
    <2> QED BY <2>2, <2>3, <2>5, <2>6
  <1>2. pkt = [p |-> r.padding, x |-> r.exts # H!NoExts, cc |-> Len(r.csrc), m |-> r.marker, pt |-> r.pt,
               seq |-> r.seq, ts |-> r.ts, ssrc |-> r.ssrc, body |-> (head \o block) \o r.payload]
    <2>1. H!Writable(r.exts)
      BY DEF Asked, ExtSets, H!Writable
    <2>2. r.pt % 128 = r.pt /\ r.csrc \in Csrcs
      BY DEF Asked
    <2>3. r.seq % SeqSpace = r.seq
      BY WireAssumption, FitsWhole DEF Asked
    <2>4. r.ts % WordSpace = r.ts /\ r.ssrc % WordSpace = r.ssrc
      BY WireAssumption, FitsWhole DEF Asked
    <2> DEFINE masked == [i \in 1 .. 4 * Len(r.csrc) |->
                            H!Octet("csrc", r.csrc[(i + 3) \div 4] % WordSpace, ((i - 1) % 4) + 1)]
    <2>5. masked = head /\ Len(r.csrc) % 16 = Len(r.csrc)
      BY <2>2, CsrcWhole
    <2>6. H!Serialize(r)
            = [p |-> r.padding, x |-> r.exts # H!NoExts, cc |-> Len(r.csrc) % 16, m |-> r.marker,
               pt |-> r.pt % 128, seq |-> r.seq % SeqSpace, ts |-> r.ts % WordSpace, ssrc |-> r.ssrc % WordSpace,
               body |-> (masked \o block) \o r.payload]
      BY <2>1, Zenon DEF H!Serialize
    <2> HIDE DEF head, block, masked
    <2> QED BY <2>2, <2>3, <2>4, <2>5, <2>6, Zenon
  <1>3. head \in Octs /\ block \in Octs
    <2>1. head \in Octs
      BY <1>1, CsrcFacts
    <2>2. CASE r.exts = H!NoExts
      BY <2>1, <2>2, CatEmpty
    <2>3. CASE r.exts # H!NoExts
      <3>1. PICK w \in Nat : \E data, place :
                  /\ Fits(data, r.exts, place) /\ Len(data) = 4 * w
                  /\ H!WriteExtensions(r.exts) = BlockHead(w) \o data
        BY <1>1, WriteFits, Zenon DEF BlockHead
      <3>2. PICK data, place : /\ Fits(data, r.exts, place) /\ Len(data) = 4 * w
                               /\ H!WriteExtensions(r.exts) = BlockHead(w) \o data
        BY <3>1, Zenon
      <3>3. data \in Octs
        BY <3>2 DEF Fits, Octs
      <3>4. H!WriteExtensions(r.exts) \in Octs
        BY <3>2, <3>3, BlockFacts
      <3> QED BY <2>1, <2>3, <3>4
    <2> QED BY <2>2, <2>3
  <1> HIDE DEF pkt
  <1>4. pkt \in Wire /\ pkt.cc = Len(r.csrc)
    <2>1. (head \o block) \o r.payload \in Octs
      BY <1>1, <1>3, Cat
    <2>2. Len(r.csrc) \in Nat
      BY <1>1
    <2> HIDE DEF head, block
    <2> QED BY <1>1, <1>2, <2>1, <2>2 DEF Wire
  <1>5. Carries(pkt, r.csrc, r.exts, r.payload)
    <2>1. pkt.body = (head \o block) \o r.payload
      BY <1>2, Zenon
    <2>2. CASE r.exts = H!NoExts
      <3>1. pkt.x = FALSE /\ block = <<>>
        BY <1>2, <2>2, Zenon
      <3> QED BY <1>1, <1>3, <1>4, <2>1, <2>2, <3>1, Zenon DEF Carries
    <2>3. CASE r.exts # H!NoExts
      <3>1. pkt.x /\ pkt.body = (head \o H!WriteExtensions(r.exts)) \o r.payload
        BY <1>2, <2>1, <2>3, Zenon
      <3> QED BY <1>1, <1>4, <3>1, Rebuilt, Zenon
    <2> QED BY <2>2, <2>3
  <1> QED BY <1>2, <1>5 DEF pkt

(* One extension more, or replaced (setHeaderExtension, rtp.js:815-855).   *)
LEMMA SetOneCarries ==
    ASSUME NEW pkt, NEW csrc, NEW exts, NEW rest, Carries(pkt, csrc, exts, rest),
           NEW id \in 1 .. 14, NEW value \in Seq(Plain), Len(value) \in 1 .. 16
    PROVE  LET out == H!SetHeaderExtension(pkt, id, value)
           IN  /\ Carries(out, csrc, Merged([i \in {id} |-> value], exts), rest)
               /\ SameHeader(out, pkt)
  <1> DEFINE add == [i \in {id} |-> value]
  <1>1. add \in ExtSets
    <2>1. add \in [{id} -> Seq(Plain)] /\ {id} \in SUBSET (1 .. 14) /\ DOMAIN add = {id} /\ add[id] = value
      OBVIOUS
    <2> HIDE DEF add
    <2> QED BY <2>1, Zenon DEF ExtSets
  <1>2. H!SetHeaderExtension(pkt, id, value) = H!SetHeaderExtensions(pkt, add)
    BY DEF H!SetHeaderExtension
  <1> HIDE DEF add
  <1>3. /\ Carries(H!SetHeaderExtensions(pkt, add), csrc, Merged(add, exts), rest)
        /\ SameHeader(H!SetHeaderExtensions(pkt, add), pkt)
    BY <1>1, SetCarries
  <1> QED BY <1>2, <1>3 DEF add

(* The octets of an original number are those between what is carried     *)
(* around them.                                                            *)
LEMMA BlockPlain ==
    ASSUME NEW block, NEW exts, Blocks(block, exts)
    PROVE  block \in Seq(Plain)
  <1>1. PICK w \in Nat : \E data, place :
            Fits(data, exts, place) /\ Len(data) = 4 * w /\ block = BlockHead(w) \o data
    BY Zenon DEF Blocks
  <1>2. PICK data, place : Fits(data, exts, place) /\ Len(data) = 4 * w /\ block = BlockHead(w) \o data
    BY <1>1, Zenon
  <1>3. data \in Seq(AnyOctet) /\ exts \in ExtSets
    BY <1>2 DEF Fits
  <1>4. ASSUME NEW i \in 1 .. Len(data) PROVE data[i] \in Plain
    <2>1. CASE data[i] = H!Zero
      BY <2>1, PlainOctets
    <2>2. CASE data[i] # H!Zero
      <3>1. PICK id \in DOMAIN exts : place[id] <= i /\ i <= place[id] + Len(exts[id])
        BY <1>2, <2>2 DEF Fits
      <3>2. /\ place[id] \in 1 .. Len(data)
            /\ data[place[id]] = H!Element(id, Len(exts[id]))
            /\ \A j \in 1 .. Len(exts[id]) : data[place[id] + j] = exts[id][j]
        <4>1. Fits(data, exts, place)
          BY <1>2
        <4>2. place[id] \in 1 .. Len(data)
          BY <3>1, <4>1, Zenon DEF Fits
        <4>3. data[place[id]] = H!Element(id, Len(exts[id]))
          BY <3>1, <4>1, Zenon DEF Fits
        <4>4. \A j \in 1 .. Len(exts[id]) : data[place[id] + j] = exts[id][j]
          BY <3>1, <4>1, Zenon DEF Fits
        <4> QED BY <4>2, <4>3, <4>4
      <3>3. id \in 1 .. 14 /\ exts[id] \in Seq(Plain) /\ Len(exts[id]) \in 1 .. 16
        BY <1>3, <3>1, ExtFacts
      <3>4. PICK p \in Int, len \in 1 .. 16 : p = place[id] /\ len = Len(exts[id])
        BY <3>2, <3>3, <1>3
      <3>5. CASE i = p
        <4>1. data[i] = H!Element(id, len)
          BY <3>2, <3>4, <3>5
        <4>2. id \in Int /\ len \in Int
          BY <3>3, <3>4
        <4>3. H!Element(id, len) \in Plain
          BY <4>2, PlainOctets, Zenon
        <4> QED BY <4>1, <4>3
      <3>6. CASE i # p
        <4>1. PICK j \in Int : j = i - p
          BY <3>4
        <4>2. j \in 1 .. len /\ p + j = i
          BY <3>1, <3>4, <3>6, <4>1
        <4>3. data[i] = exts[id][j]
          BY <3>2, <3>4, <4>2
        <4>4. exts[id][j] \in Plain
          BY <3>3, <3>4, <4>2, ElementOfSeq
        <4> QED BY <4>3, <4>4
      <3> QED BY <3>5, <3>6
    <2> QED BY <2>1, <2>2
  <1>5. data \in Seq(Plain)
    <2>1. Len(data) \in Nat /\ data \in [1 .. Len(data) -> AnyOctet]
      BY <1>3, LenProperties
    <2>2. data \in [1 .. Len(data) -> Plain]
      BY <1>4, <2>1
    <2> QED BY <2>1, <2>2, FcnSeq
  <1>6. BlockHead(w) \in Seq(Plain)
    <2>1. H!Octets("profile", H!OneByte, 2) \in Seq(Plain)
      <3>1. PICK n \in 1 .. 16 : n = 2
        OBVIOUS
      <3>2. "profile" \in Kinds \ {"osn"} /\ H!OneByte \in Int
        BY DEF Kinds, H!OneByte
      <3> QED BY <3>1, <3>2, ValuePlain
    <2>2. H!Octets("words", w, 2) \in Seq(Plain)
      <3>1. PICK n \in 1 .. 16 : n = 2
        OBVIOUS
      <3>2. "words" \in Kinds \ {"osn"} /\ w \in Int
        BY DEF Kinds
      <3> QED BY <3>1, <3>2, ValuePlain
    <2> QED BY <2>1, <2>2, ConcatProperties DEF BlockHead
  <1> QED BY <1>2, <1>5, <1>6, ConcatProperties

OsnValues(octets) == {octets[i].v : i \in {j \in DOMAIN octets : octets[j].what = "osn"}}

(* The original numbers in two parts are those of each,                    *)
LEMMA OsnsOfCat ==
    ASSUME NEW a \in Octs, NEW b \in Octs
    PROVE  OsnValues(a \o b) = OsnValues(a) \cup OsnValues(b)
  <1>1. PICK m \in Nat, n \in Nat, c \in Octs :
              m = Len(a) /\ n = Len(b) /\ c = a \o b /\ Len(c) = m + n
    BY Cat, LenNat, Zenon
  <1>2. \A i \in 1 .. m : c[i] = a[i]
    BY <1>1, InFront
  <1>3. \A i \in 1 .. n : c[m + i] = b[i]
    BY <1>1, InBack
  <1>4. DOMAIN a = 1 .. m /\ DOMAIN b = 1 .. n /\ DOMAIN c = 1 .. m + n
    BY <1>1, LenProperties DEF Octs
  <1>5. ASSUME NEW x \in OsnValues(c) PROVE x \in OsnValues(a) \cup OsnValues(b)
    <2>1. PICK i \in 1 .. m + n : c[i].what = "osn" /\ x = c[i].v
      BY <1>4, <1>5 DEF OsnValues
    <2>2. CASE i <= m
      <3>1. i \in 1 .. m
        BY <2>2
      <3> QED BY <1>2, <1>4, <2>1, <3>1 DEF OsnValues
    <2>3. CASE ~ (i <= m)
      <3>1. PICK j \in 1 .. n : m + j = i
        <4>1. i - m \in 1 .. n /\ m + (i - m) = i
          BY <2>3
        <4> QED BY <4>1
      <3> QED BY <1>3, <1>4, <2>1, <3>1 DEF OsnValues
    <2> QED BY <2>2, <2>3
  <1>6. OsnValues(a) \subseteq OsnValues(c)
    <2>1. \A i \in 1 .. m : i \in 1 .. m + n
      OBVIOUS
    <2> QED BY <1>2, <1>4, <2>1 DEF OsnValues
  <1>7. OsnValues(b) \subseteq OsnValues(c)
    <2>1. \A i \in 1 .. n : m + i \in 1 .. m + n
      OBVIOUS
    <2> QED BY <1>3, <1>4, <2>1 DEF OsnValues
  <1> QED BY <1>1, <1>5, <1>6, <1>7

(* none in plain octets,                                                   *)
LEMMA OsnsOfPlain ==
    ASSUME NEW a \in Seq(Plain)
    PROVE  OsnValues(a) = {}
  <1>1. \A i \in DOMAIN a : a[i] \in Plain
    BY LenProperties, ElementOfSeq
  <1> QED BY <1>1 DEF OsnValues, Plain

(* and one where it is written.                                            *)
LEMMA OsnsOfOsn ==
    ASSUME NEW s \in Int
    PROVE  OsnValues(Osn(s)) = {s}
  <1>1. DOMAIN Osn(s) = 1 .. 2
    BY OsnIn, LenProperties DEF Octs
  <1>2. \A i \in 1 .. 2 : Osn(s)[i].v = s /\ Osn(s)[i].what = "osn"
    BY OsnIn
  <1>3. 1 \in 1 .. 2
    OBVIOUS
  <1> QED BY <1>1, <1>2, <1>3 DEF OsnValues

(* A retransmission carries the original number of one packet.             *)
LEMMA OsnsOfCarried ==
    ASSUME NEW pkt, NEW csrc, NEW exts, NEW s \in Int, NEW data \in Seq(Plain), NEW pad \in Seq(Plain),
           Carries(pkt, csrc, exts, (Osn(s) \o data) \o pad)
    PROVE  OsnValues(pkt.body) = {s}
  <1>1. csrc \in Seq(Int)
    BY DEF Carries
  <1>2. PICK block \in Octs : /\ pkt.body = (CsrcOctets(csrc) \o block) \o ((Osn(s) \o data) \o pad)
                              /\ IF pkt.x THEN Blocks(block, exts) ELSE block = <<>> /\ exts = H!NoExts
    BY Zenon DEF Carries
  <1>3. block \in Seq(Plain)
    <2>1. CASE pkt.x
      BY <1>2, <2>1, BlockPlain
    <2>2. CASE ~ pkt.x
      <3>1. block = <<>>
        BY <1>2, <2>2
      <3> QED BY <3>1, EmptySeq
    <2> QED BY <2>1, <2>2
  <1>4. PICK head \in Seq(Plain) : head = CsrcOctets(csrc)
    BY <1>1, CsrcFacts
  <1>5. head \in Octs /\ data \in Octs /\ pad \in Octs /\ Osn(s) \in Octs
    BY <1>4, PlainSeq, OsnIn DEF Octs
  <1>6. OsnValues(head) = {} /\ OsnValues(block) = {} /\ OsnValues(data) = {} /\ OsnValues(pad) = {}
    BY <1>3, <1>4, OsnsOfPlain
  <1>7. head \o block \in Octs /\ OsnValues(head \o block) = {}
    <2>1. head \o block \in Octs
      BY <1>5, Cat
    <2>2. OsnValues(head \o block) = OsnValues(head) \cup OsnValues(block)
      BY <1>5, OsnsOfCat
    <2> QED BY <1>6, <2>1, <2>2
  <1>8. Osn(s) \o data \in Octs /\ OsnValues(Osn(s) \o data) = {s}
    <2>1. Osn(s) \o data \in Octs
      BY <1>5, Cat
    <2>2. OsnValues(Osn(s) \o data) = OsnValues(Osn(s)) \cup OsnValues(data)
      BY <1>5, OsnsOfCat
    <2> QED BY <1>6, <2>1, <2>2, OsnsOfOsn
  <1>9. (Osn(s) \o data) \o pad \in Octs /\ OsnValues((Osn(s) \o data) \o pad) = {s}
    BY <1>5, <1>6, <1>8, Cat, OsnsOfCat, Zenon
  <1>10. OsnValues((head \o block) \o ((Osn(s) \o data) \o pad)) = {s}
    BY <1>7, <1>9, OsnsOfCat
  <1> QED BY <1>2, <1>4, <1>10

(* What serialize (rtp.js:83-121) writes, parse (rtp.js:168-233) reads: a  *)
(* packet without padding whose fields fit the header, up to fifteen       *)
(* sources among them, comes back as it was, whatever its extensions and   *)
(* its payload.                                                            *)
THEOREM ParseSerialize ==
    ASSUME NEW r \in Asked, ~ r.padding
    PROVE  H!Parse(H!Serialize(r)) = r
  <1>1. r.payload \in Octs /\ r.payload = r.payload \o <<>>
    BY CatEmpty DEF Asked
  <1>2. Padded(H!Serialize(r), <<>>)
    BY SerializeCarries, CatEmpty DEF Padded
  <1>3. Carries(H!Serialize(r), r.csrc, r.exts, r.payload \o <<>>)
    BY <1>1, SerializeCarries
  <1>4. H!Parse(H!Serialize(r))
          = [padding |-> r.padding, marker |-> r.marker, pt |-> r.pt, seq |-> r.seq, ts |-> r.ts, ssrc |-> r.ssrc,
             csrc |-> r.csrc, exts |-> r.exts, payload |-> r.payload]
    <2> DEFINE pkt == H!Serialize(r)
    <2>1. H!Parse(pkt) = [padding |-> pkt.p, marker |-> pkt.m, pt |-> pkt.pt, seq |-> pkt.seq,
                           ts |-> pkt.ts, ssrc |-> pkt.ssrc, csrc |-> r.csrc, exts |-> r.exts, payload |-> r.payload]
      BY <1>1, <1>2, <1>3, ParseReads, Zenon
    <2>2. /\ pkt.p = r.padding /\ pkt.m = r.marker /\ pkt.pt = r.pt
          /\ pkt.seq = r.seq /\ pkt.ts = r.ts /\ pkt.ssrc = r.ssrc
      BY SerializeCarries
    <2> HIDE DEF pkt
    <2> QED BY <2>1, <2>2, Zenon DEF pkt
  <1>5. r = [padding |-> r.padding, marker |-> r.marker, pt |-> r.pt, seq |-> r.seq, ts |-> r.ts, ssrc |-> r.ssrc,
             csrc |-> r.csrc, exts |-> r.exts, payload |-> r.payload]
    BY DEF Asked
  <1> QED BY <1>4, <1>5

(* What buildRtxPacket (retransmit.js:150-189) wraps, parseRtxPacket       *)
(* (213-273) restores: the same sources, extensions and payload under the  *)
(* original number; the padding is left behind, and its flag with it.      *)
THEOREM RtxRestores ==
    ASSUME NEW pkt, NEW csrc, NEW exts, NEW data \in Octs, NEW pad, Padded(pkt, pad), Carries(pkt, csrc, exts, data \o pad),
           NEW rtxSsrc \in Int, NEW rtxPt \in Int, NEW rtxSeq \in Int, NEW ssrc \in Int, NEW pt \in Int
    PROVE  H!Parse(R!ParseRtxPacket(R!BuildRtxPacket(pkt, rtxSsrc, rtxPt, rtxSeq), ssrc, pt))
             = [padding |-> FALSE, marker |-> pkt.m, pt |-> pt, seq |-> pkt.seq, ts |-> pkt.ts, ssrc |-> ssrc,
                csrc |-> csrc, exts |-> exts, payload |-> data]
  <1>1. PICK rtx : rtx = R!BuildRtxPacket(pkt, rtxSsrc, rtxPt, rtxSeq)
    OBVIOUS
  <1>2. Carries(rtx, csrc, exts, Osn(pkt.seq) \o (data \o pad)) /\ OnlyHeader(rtx, pkt)
    BY <1>1, BuildCarries
  <1>3. pad \in Octs /\ pkt.seq \in Int
    BY DEF Padded, Carries, Wire
  <1>4. Osn(pkt.seq) \in Octs
    BY <1>3, OsnIn
  <1>5. (Osn(pkt.seq) \o data) \o pad = Osn(pkt.seq) \o (data \o pad)
    BY <1>3, <1>4, Assoc, Zenon
  <1>6. Carries(rtx, csrc, exts, (Osn(pkt.seq) \o data) \o pad)
    BY <1>2, <1>5, Zenon
  <1>7. Padded(rtx, pad)
    BY <1>2 DEF Padded, OnlyHeader
  <1>8. PICK out : out = R!ParseRtxPacket(rtx, ssrc, pt)
    OBVIOUS
  <1>9. Carries(out, csrc, exts, data) /\ Unwrapped(out, rtx, ssrc, pt, pkt.seq)
    BY <1>3, <1>6, <1>7, <1>8, UnwrapCarries, Zenon
  <1>10. Padded(out, <<>>) /\ Carries(out, csrc, exts, data \o <<>>)
    BY <1>9, CatEmpty DEF Padded, Unwrapped
  <1>11. H!Parse(out) = [padding |-> out.p, marker |-> out.m, pt |-> out.pt, seq |-> out.seq,
                         ts |-> out.ts, ssrc |-> out.ssrc, csrc |-> csrc, exts |-> exts, payload |-> data]
    BY <1>10, ParseReads, Zenon
  <1>12. /\ out.p = FALSE /\ out.m = pkt.m /\ out.pt = pt /\ out.seq = pkt.seq /\ out.ts = pkt.ts /\ out.ssrc = ssrc
    BY <1>2, <1>9 DEF Unwrapped, OnlyHeader
  <1> QED BY <1>1, <1>8, <1>11, <1>12, Zenon

-----------------------------------------------------------------------------
(* The numbers of a set, listed.                                           *)
LEMMA SetList ==
    ASSUME NEW all, IsFiniteSet(all)
    PROVE  X!SetToSeq(all) \in Seq(all) /\ Len(X!SetToSeq(all)) = Cardinality(all)
  <1>1. Cardinality(all) \in Nat /\ \E f \in [1 .. Cardinality(all) -> all] : X!IsInjective(f)
    BY FS_CardinalityType DEF X!IsInjective, ExistsBijection, Bijection, Injection, IsInjective
  <1>2. X!SetToSeq(all) = CHOOSE f \in [1 .. Cardinality(all) -> all] : X!IsInjective(f)
    BY Zenon DEF X!SetToSeq, X!Cardinality, Cardinality
  <1>3. X!SetToSeq(all) \in [1 .. Cardinality(all) -> all]
    BY <1>1, <1>2
  <1> QED BY <1>1, <1>3, FcnSeq

(* One number more among the entries of a NACK.                            *)
Adding(entries, seq) ==
    IF entries # <<>> /\ seq - C!Seqs!Last(entries).pid <= BlpBits
    THEN [entries EXCEPT ![Len(entries)].blp = @ \cup
             (IF seq > C!Seqs!Last(entries).pid THEN {seq - C!Seqs!Last(entries).pid - 1} ELSE {})]
    ELSE Append(entries, [pid |-> seq, blp |-> {}])
Adds(f, sorted, k) == f = [i \in 0 .. k |-> IF i = 0 THEN <<>> ELSE Adding(f[i - 1], sorted[i])]
NackEntriesOf(sorted, k) == (CHOOSE f : Adds(f, sorted, k))[k]

(* buildNackEntries adds one number after another.                         *)
LEMMA NackEntriesAre ==
    ASSUME NEW list
    PROVE  C!BuildNackEntries(list) = NackEntriesOf(C!SortSeq(list, <), Len(list))
  BY Zenon DEF C!BuildNackEntries, NackEntriesOf, Adds, Adding

(* A list that is not empty has entries, a sequence of them.               *)
Listed(entries, k) == (\E Es : entries \in Seq(Es)) /\ (k > 0 => Len(entries) > 0)

(* One number more makes an entry more or a bit more in the last one.      *)
LEMMA AddingListed ==
    ASSUME NEW entries, NEW k \in Nat, Listed(entries, k), NEW seq
    PROVE  Listed(Adding(entries, seq), k + 1)
  <1>1. PICK Es : entries \in Seq(Es)
    BY DEF Listed
  <1>2. CASE entries # <<>> /\ seq - C!Seqs!Last(entries).pid <= BlpBits
    <2>1. PICK e : Adding(entries, seq) = [entries EXCEPT ![Len(entries)] = e]
      <3> DEFINE e == [entries[Len(entries)] EXCEPT !.blp = @ \cup
                          (IF seq > C!Seqs!Last(entries).pid THEN {seq - C!Seqs!Last(entries).pid - 1} ELSE {})]
      <3>1. Adding(entries, seq) = [entries EXCEPT ![Len(entries)] = e]
        BY <1>2, Zenon DEF Adding
      <3> QED BY <3>1, Zenon
    <2>2. PICK n \in Nat : n = Len(entries) /\ n > 0
      BY <1>1, <1>2, EmptySeq
    <2>3. entries \in [1 .. n -> Es]
      BY <1>1, <2>2, LenProperties
    <2>4. [entries EXCEPT ![n] = e] \in [1 .. n -> Es \cup {e}]
      BY <2>3, Zenon
    <2>5. [entries EXCEPT ![n] = e] \in Seq(Es \cup {e}) /\ Len([entries EXCEPT ![n] = e]) = n
      BY <2>4, FcnSeq, Zenon
    <2> QED BY <2>1, <2>2, <2>5 DEF Listed
  <1>3. CASE ~ (entries # <<>> /\ seq - C!Seqs!Last(entries).pid <= BlpBits)
    <2>1. PICK e : Adding(entries, seq) = Append(entries, e)
      BY <1>3, Zenon DEF Adding
    <2>2. entries \in Seq(Es \cup {e})
      BY <1>1, SeqMonotonic
    <2>3. Append(entries, e) \in Seq(Es \cup {e}) /\ Len(Append(entries, e)) = Len(entries) + 1
      BY <2>2, AppendProperties
    <2>4. Len(entries) \in Nat
      BY <1>1, LenProperties
    <2> QED BY <2>1, <2>3, <2>4 DEF Listed
  <1> QED BY <1>2, <1>3

(* The fold over the numbers is well defined.                              *)
LEMMA AddsExist ==
    ASSUME NEW sorted, NEW n \in Nat
    PROVE  \E f : Adds(f, sorted, n)
  <1> DEFINE All == {k \in Nat : \E f : Adds(f, sorted, k)}
  <1>1. 0 \in All
    <2>1. PICK f : f = [i \in 0 .. 0 |-> <<>>]
      BY Zenon
    <2>2. \A i \in 0 .. 0 : i = 0
      OBVIOUS
    <2>3. Adds(f, sorted, 0)
      BY <2>1, <2>2 DEF Adds
    <2> QED BY <2>3
  <1>2. ASSUME NEW k \in Nat, k \in All PROVE k + 1 \in All
    <2>1. PICK f : Adds(f, sorted, k)
      BY <1>2
    <2>2. PICK g : g = [i \in 0 .. k + 1 |-> IF i = k + 1 THEN Adding(f[k], sorted[k + 1]) ELSE f[i]]
      BY Zenon
    <2>3. \A i \in 0 .. k : i # k + 1 /\ i \in 0 .. k + 1 /\ g[i] = f[i]
      BY <2>2
    <2>4. \A i \in 0 .. k : f[i] = IF i = 0 THEN <<>> ELSE Adding(f[i - 1], sorted[i])
      BY <2>1 DEF Adds
    <2>5. \A i \in 0 .. k + 1 : i # 0 => i - 1 \in 0 .. k /\ (i \in 0 .. k \/ (i = k + 1 /\ i - 1 = k))
      OBVIOUS
    <2>6. g[k + 1] = Adding(f[k], sorted[k + 1]) /\ k + 1 # 0
      BY <2>2
    <2>7. ASSUME NEW i \in 0 .. k + 1 PROVE g[i] = IF i = 0 THEN <<>> ELSE Adding(g[i - 1], sorted[i])
      <3>1. CASE i = 0
        <4>1. i \in 0 .. k
          BY <3>1
        <4> QED BY <2>3, <2>4, <3>1, <4>1
      <3>2. CASE i # 0 /\ i \in 0 .. k
        <4>1. i - 1 \in 0 .. k
          BY <2>5, <3>2
        <4>2. g[i] = Adding(f[i - 1], sorted[i])
          BY <2>3, <2>4, <3>2
        <4> QED BY <2>3, <3>2, <4>1, <4>2
      <3>3. CASE i # 0 /\ ~ (i \in 0 .. k)
        <4>1. i = k + 1 /\ i - 1 = k
          BY <2>5, <3>3
        <4>2. k \in 0 .. k
          OBVIOUS
        <4> QED BY <2>3, <2>6, <4>1, <4>2
      <3> QED BY <3>1, <3>2, <3>3
    <2>8. g = [i \in 0 .. k + 1 |-> g[i]]
      BY <2>2
    <2>9. Adds(g, sorted, k + 1)
      BY <2>7, <2>8, Zenon DEF Adds
    <2> QED BY <2>9
  <1> HIDE DEF All
  <1>3. n \in All
    BY <1>1, <1>2, Induct
  <1> QED BY <1>3 DEF All

(* A NACK of numbers has entries.                                          *)
LEMMA NackEntriesListed ==
    ASSUME NEW sorted, NEW n \in Nat
    PROVE  Listed(NackEntriesOf(sorted, n), n)
  <1>1. PICK f : Adds(f, sorted, n) /\ f = CHOOSE g : Adds(g, sorted, n)
    BY AddsExist
  <1>2. \A i \in 0 .. n : f[i] = IF i = 0 THEN <<>> ELSE Adding(f[i - 1], sorted[i])
    BY <1>1 DEF Adds
  <1> DEFINE All == {k \in Nat : k <= n => Listed(f[k], k)}
  <1>3. 0 \in All
    <2>1. f[0] = <<>>
      BY <1>2
    <2>2. <<>> \in Seq({})
      BY EmptySeq
    <2> QED BY <2>1, <2>2, Zenon DEF Listed
  <1>4. ASSUME NEW k \in Nat, k \in All PROVE k + 1 \in All
    <2> SUFFICES ASSUME k + 1 <= n PROVE Listed(f[k + 1], k + 1)
      OBVIOUS
    <2>1. k + 1 \in 0 .. n /\ k + 1 # 0 /\ (k + 1) - 1 = k /\ k <= n
      OBVIOUS
    <2>2. f[k + 1] = Adding(f[k], sorted[k + 1])
      <3>1. PICK j \in 0 .. n : j = k + 1
        BY <2>1
      <3>2. f[j] = Adding(f[j - 1], sorted[j])
        BY <1>2, <2>1, <3>1
      <3> QED BY <2>1, <3>1, <3>2, Zenon
    <2>3. Listed(f[k], k)
      BY <1>4, <2>1
    <2> QED BY <2>2, <2>3, AddingListed
  <1> HIDE DEF All
  <1>5. n \in All
    BY <1>3, <1>4, Induct
  <1> QED BY <1>1, <1>5 DEF All, NackEntriesOf

(* Sequences, joined, are a sequence.                                      *)
LEMMA FlattensIn ==
    ASSUME NEW Es, NEW seqs \in Seq(Seq(Es))
    PROVE  C!Seqs!FlattenSeq(seqs) \in Seq(Es)
  <1>1. C!Seqs!FlattenSeq(seqs) = H!Seqs!FlattenSeq(seqs)
    BY Zenon DEF C!Seqs!FlattenSeq, H!Seqs!FlattenSeq
  <1>2. PICK f : /\ \A i \in 0 .. Len(seqs) : f[i] \in Seq(Es)
                 /\ H!Seqs!FlattenSeq(seqs) = f[Len(seqs)]
    BY Flattens, Zenon
  <1>3. Len(seqs) \in 0 .. Len(seqs)
    BY LenProperties
  <1> QED BY <1>1, <1>2, <1>3

(* The numbers that entries name, as a sequence (rtcp.js:576-588).         *)
LEMMA NackNumbersListed ==
    ASSUME NEW Es, NEW entries \in Seq(Es)
    PROVE  Len(C!ParseNackEntries(entries)) \in Nat
  <1> DEFINE Ns == {entries[i].pid : i \in DOMAIN entries}
                     \cup {entries[i].pid + bit : i \in DOMAIN entries, bit \in 1 .. BlpBits}
             rest(i) == [bit \in 1 .. BlpBits |->
                            IF bit - 1 \in entries[i].blp THEN <<entries[i].pid + bit>> ELSE <<>>]
             all == [i \in DOMAIN entries |-> <<entries[i].pid>> \o C!Seqs!FlattenSeq(rest(i))]
  <1>1. BlpBits \in Nat
    BY WireAssumption
  <1>2. Len(entries) \in Nat /\ DOMAIN entries = 1 .. Len(entries)
    BY LenProperties
  <1>3. ASSUME NEW i \in DOMAIN entries PROVE <<entries[i].pid>> \o C!Seqs!FlattenSeq(rest(i)) \in Seq(Ns)
    <2>1. \A bit \in 1 .. BlpBits : <<entries[i].pid + bit>> \in Seq(Ns)
      <3>1. \A bit \in 1 .. BlpBits : entries[i].pid + bit \in Ns
        OBVIOUS
      <3> HIDE DEF Ns
      <3> QED BY <3>1
    <2>2. <<>> \in Seq(Ns)
      BY EmptySeq
    <2>3. <<entries[i].pid>> \in Seq(Ns)
      <3>1. entries[i].pid \in Ns
        OBVIOUS
      <3> HIDE DEF Ns
      <3> QED BY <3>1
    <2> HIDE DEF Ns
    <2>4. rest(i) \in [1 .. BlpBits -> Seq(Ns)]
      BY <2>1, <2>2
    <2> HIDE DEF rest
    <2>5. rest(i) \in Seq(Seq(Ns))
      BY <1>1, <2>4, FcnSeq
    <2>6. C!Seqs!FlattenSeq(rest(i)) \in Seq(Ns)
      BY <2>5, FlattensIn
    <2> QED BY <2>3, <2>6, ConcatProperties
  <1>4. all \in Seq(Seq(Ns))
    <2> HIDE DEF Ns, rest
    <2>1. all \in [1 .. Len(entries) -> Seq(Ns)]
      BY <1>2, <1>3
    <2> HIDE DEF all
    <2> QED BY <1>2, <2>1, FcnSeq, Zenon
  <1>5. C!ParseNackEntries(entries) = C!Seqs!FlattenSeq(all)
    BY Zenon DEF C!ParseNackEntries
  <1> HIDE DEF all, Ns
  <1>6. C!Seqs!FlattenSeq(all) \in Seq(Ns)
    BY <1>4, FlattensIn
  <1> QED BY <1>5, <1>6, LenProperties

(* One message more of a datagram.                                         *)
NextAt(words, at) == at + words[at].length + 1
More(words, read) ==
    IF read.at > Len(words) THEN read
    ELSE IF NextAt(words, read.at) > Len(words) + 1 THEN read
    ELSE [at |-> NextAt(words, read.at),
          messages |-> Append(read.messages, C!ParseRTCP(SubSeq(words, read.at, NextAt(words, read.at) - 1)))]
Reads(f, words, k) == f = [i \in 0 .. k |-> IF i = 0 THEN [at |-> 1, messages |-> <<>>] ELSE More(words, f[i - 1])]
ReadOf(words) == CHOOSE f : Reads(f, words, Len(words))

(* parseRTCPCompound, as the function of the position it is.               *)
LEMMA CompoundIs ==
    ASSUME NEW words
    PROVE  C!ParseRTCPCompound(words) = ReadOf(words)[Len(words)].messages
  BY Zenon DEF C!ParseRTCPCompound, ReadOf, Reads, More, NextAt

(* A datagram of one message is read once, whatever its words.             *)
LEMMA OneMessage ==
    ASSUME NEW Es, NEW words \in Seq(Es), Len(words) > 0, words[1].length = Len(words) - 1
    PROVE  C!ParseRTCPCompound(words)[1] = C!ParseRTCP(words)
  <1>1. PICK n \in Nat : n = Len(words) /\ n > 0
    BY LenProperties
  <1> DEFINE base == [at |-> 1, messages |-> <<>>]
             done == [at |-> n + 1, messages |-> <<C!ParseRTCP(words)>>]
  <1>2. More(words, base) = done
    <2>1. PICK len \in Int : len = words[1].length /\ len = n - 1
      BY <1>1
    <2>2. NextAt(words, 1) = n + 1
      BY <2>1 DEF NextAt
    <2>3. NextAt(words, 1) - 1 = n /\ ~ (1 > n) /\ ~ (n + 1 > n + 1)
      BY <1>1, <2>2
    <2>4. SubSeq(words, 1, n) = words
      BY <1>1, SubSeqProperties
    <2>5. base.at = 1 /\ base.messages = <<>>
      OBVIOUS
    <2>6. Append(<<>>, C!ParseRTCP(words)) = <<C!ParseRTCP(words)>>
      OBVIOUS
    <2> HIDE DEF base
    <2>7. More(words, base) = [at |-> NextAt(words, 1),
                               messages |-> Append(<<>>, C!ParseRTCP(SubSeq(words, 1, NextAt(words, 1) - 1)))]
      BY <1>1, <2>2, <2>3, <2>5 DEF More
    <2> QED BY <2>2, <2>3, <2>4, <2>6, <2>7, Zenon
  <1>3. More(words, done) = done
    <2>1. done.at = n + 1 /\ n + 1 > n
      OBVIOUS
    <2> HIDE DEF done
    <2> QED BY <1>1, <2>1 DEF More
  <1>4. PICK f : f = [i \in 0 .. n |-> IF i = 0 THEN base ELSE done]
    BY Zenon
  <1>5. \A i \in 0 .. n : f[i] = IF i = 0 THEN base ELSE More(words, f[i - 1])
    <2> HIDE DEF base, done
    <2>1. f[0] = base /\ \A i \in 1 .. n : f[i] = done
      BY <1>4
    <2> SUFFICES ASSUME NEW i \in 0 .. n PROVE f[i] = IF i = 0 THEN base ELSE More(words, f[i - 1])
      BY Zenon
    <2>2. CASE i = 0
      BY <2>1, <2>2
    <2>3. CASE i = 1
      <3>1. i - 1 = 0 /\ f[i] = done
        BY <2>1, <2>3
      <3> QED BY <1>2, <2>1, <2>3, <3>1
    <2>4. CASE i # 0 /\ i # 1
      <3>1. f[i - 1] = done /\ f[i] = done
        BY <2>1, <2>4
      <3> QED BY <1>3, <2>4, <3>1
    <2> QED BY <2>2, <2>3, <2>4
  <1>6. Reads(f, words, n)
    <2>1. f = [i \in 0 .. n |-> f[i]]
      BY <1>4
    <2> QED BY <1>5, <2>1, Zenon DEF Reads
  <1>7. ReadOf(words)[n] = done
    <2>1. PICK g : Reads(g, words, n) /\ g = ReadOf(words)
      BY <1>1, <1>6 DEF ReadOf
    <2>2. \A i \in 0 .. n : g[i] = IF i = 0 THEN base ELSE More(words, g[i - 1])
      BY <2>1 DEF Reads
    <2> DEFINE All == {k \in Nat : k + 1 <= n => g[k + 1] = done}
    <2> HIDE DEF base, done
    <2>3. 0 \in All
      <3>1. g[0] = base /\ 0 + 1 = 1
        BY <2>2
      <3>2. 1 <= n => g[1] = More(words, g[0])
        BY <2>2
      <3> QED BY <1>2, <3>1, <3>2
    <2>4. ASSUME NEW k \in Nat, k \in All PROVE k + 1 \in All
      <3> SUFFICES ASSUME (k + 1) + 1 <= n PROVE g[(k + 1) + 1] = done
        OBVIOUS
      <3>1. PICK j \in 0 .. n : j = (k + 1) + 1 /\ j # 0 /\ j - 1 = k + 1
        OBVIOUS
      <3>2. g[k + 1] = done
        BY <2>4
      <3>3. g[j] = More(words, g[j - 1])
        BY <2>2, <3>1
      <3> QED BY <1>3, <3>1, <3>2, <3>3, Zenon
    <2> HIDE DEF All
    <2>5. n - 1 \in All /\ (n - 1) + 1 = n
      BY <1>1, <2>3, <2>4, Induct
    <2> QED BY <2>1, <2>5 DEF All
  <1>8. done.messages[1] = C!ParseRTCP(words)
    OBVIOUS
  <1> HIDE DEF done
  <1> QED BY <1>1, <1>7, <1>8, CompoundIs, Zenon

(* Two words before the entries, and one before those that counts them.    *)
LEMMA NackWords ==
    ASSUME NEW Es, NEW entries \in Seq(Es), Len(entries) > 0, NEW a, NEW b, NEW c
    PROVE  LET w     == <<a, b>> \o entries
               words == <<C!HeadWord(1, 205, w)>> \o w
               all   == Es \cup {a, b, C!HeadWord(1, 205, w)}
           IN  /\ words \in Seq(all) /\ Len(words) = Len(entries) + 3
               /\ words[1] = C!HeadWord(1, 205, w) /\ Len(w) = Len(entries) + 2
  <1>1. PICK n \in Nat : n = Len(entries) /\ n > 0
    BY LenProperties
  <1>2. PICK w : w = <<a, b>> \o entries
    BY Zenon
  <1>3. PICK head : head = C!HeadWord(1, 205, w)
    OBVIOUS
  <1>4. PICK all : all = Es \cup {a, b, head}
    BY Zenon
  <1>5. /\ <<a, b>> \in Seq(all) /\ Len(<<a, b>>) = 2 /\ <<head>> \in Seq(all) /\ Len(<<head>>) = 1
        /\ <<head>>[1] = head
    BY <1>4
  <1>6. entries \in Seq(all)
    BY <1>4, SeqMonotonic
  <1>7. w \in Seq(all) /\ Len(w) = n + 2
    BY <1>1, <1>2, <1>5, <1>6, ConcatProperties
  <1>8. <<head>> \o w \in Seq(all) /\ Len(<<head>> \o w) = n + 3 /\ (<<head>> \o w)[1] = head
    BY <1>5, <1>7, ConcatProperties
  <1> QED BY <1>1, <1>2, <1>3, <1>4, <1>7, <1>8
=============================================================================
