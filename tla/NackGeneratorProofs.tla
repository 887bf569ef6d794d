-------------------------- MODULE NackGeneratorProofs --------------------------
(***************************************************************************)
(* Proofs about NackGenerator for every length of the stream, every limit  *)
(* and every reordering: the list of missing packets stays within its      *)
(* limit, no packet that arrived is ever on it, none is requested more     *)
(* often than allowed, and none is given up in silence.                    *)
(***************************************************************************)
EXTENDS NackGenerator, FiniteSetTheorems, WellFoundedInduction, TLAPS

Listed == DOMAIN missing

(* NeverNackReceived is not inductive: a gap is filled in from _received,  *)
(* which is trimmed, so what arrived ahead of highest has to be in it yet. *)
NackInv ==
    /\ highest \in Int /\ highest >= NoSeq
    /\ arrived \subseteq Int
    /\ Listed \subseteq ExtSeq /\ IsFiniteSet(Listed)
    /\ BoundedMissing
    /\ NeverNackReceived
    /\ \A a \in arrived : a > highest => a \in received

(* A step that only takes entries off the list keeps it within its limit.  *)
LEMMA FewerListed ==
    ASSUME IsFiniteSet(Listed), BoundedMissing, Listed' \subseteq Listed
    PROVE  IsFiniteSet(Listed)' /\ BoundedMissing'
  <1>1. IsFiniteSet(Listed') /\ Cardinality(Listed') <= Cardinality(Listed)
    BY FS_Subset
  <1>2. Cardinality(Listed) \in Nat /\ Cardinality(Listed') \in Nat
    BY <1>1, FS_CardinalityType
  <1> QED
    BY <1>1, <1>2, NackAssumption DEF BoundedMissing, Listed

(* What a new highest packet s puts on the list: entries that were there,  *)
(* and packets of the gap that are not in _received; never too many.       *)
LEMMA GapListed ==
    ASSUME NackInv, NEW s \in ExtSeq, s > highest
    PROVE  /\ DOMAIN ListAfter(s) \subseteq (Listed \cup NewGap(s)) \ {s}
           /\ IsFiniteSet(DOMAIN ListAfter(s))
           /\ Cardinality(DOMAIN ListAfter(s)) <= MaxNackEntries
  <1> DEFINE before == ListBefore(s)
             new    == NewGap(s)
             room   == MakeRoom(before, new)
  <1>1. /\ IsFiniteSet(Listed) /\ Cardinality(Listed) \in Nat
        /\ Cardinality(Listed) <= MaxNackEntries
        /\ highest \in Int /\ s \in Int /\ MaxNackEntries \in Nat
    BY FS_CardinalityType, NackAssumption DEF NackInv, BoundedMissing, Listed, ExtSeq
  <1>2. DOMAIN before = Listed \ {s}
    BY DEF ListBefore, Only, Listed
  <1>3. \A m : DOMAIN m \subseteq Listed \ {s}
            => IsFiniteSet(DOMAIN m) /\ Cardinality(DOMAIN m) <= MaxNackEntries
    <2> SUFFICES ASSUME NEW m, DOMAIN m \subseteq Listed \ {s}
                 PROVE  IsFiniteSet(DOMAIN m) /\ Cardinality(DOMAIN m) <= MaxNackEntries
      OBVIOUS
    <2>1. IsFiniteSet(DOMAIN m) /\ Cardinality(DOMAIN m) <= Cardinality(Listed)
      BY <1>1, FS_Subset
    <2> QED
      BY <1>1, <2>1, FS_CardinalityType
  <1>4. \A k : DOMAIN Above(before, k) \subseteq Listed \ {s}
    BY <1>2 DEF Above, Only
  <1>5. DOMAIN room \subseteq Listed \ {s}
    BY <1>2, <1>4 DEF MakeRoom
  <1>6. IsFiniteSet(new) /\ s \notin new
    <2>1. new \subseteq (highest + 1) .. (s - 1)
      BY DEF NewGap, Fresh
    <2>2. IsFiniteSet((highest + 1) .. (s - 1))
      BY <1>1, FS_Interval
    <2> QED
      BY <1>1, <2>1, <2>2, FS_Subset
  <1>7. CASE s = highest + 1 \/ s \in Keyframes
    <2>1. ListAfter(s) = before \/ ListAfter(s) = Above(before, s)
      BY <1>7 DEF ListAfter
    <2>2. DOMAIN ListAfter(s) \subseteq Listed \ {s}
      BY <1>2, <1>4, <2>1
    <2> QED
      BY <1>3, <2>2
  <1>8. CASE s # highest + 1 /\ s \notin Keyframes /\ Overflows(s)
    <2>1. ListAfter(s) = <<>>
      BY <1>8 DEF ListAfter
    <2> QED
      BY <1>1, <2>1, FS_EmptySet
  <1>9. CASE s # highest + 1 /\ s \notin Keyframes /\ ~ Overflows(s)
    <2>1. ListAfter(s) = AddMissing(room, new)
      BY <1>9 DEF ListAfter
    <2>2. DOMAIN ListAfter(s) = DOMAIN room \cup new
      BY <2>1 DEF AddMissing
    <2>3. Fits(room, new)
      BY <1>1, <1>9 DEF Overflows
    <2>4. IsFiniteSet(DOMAIN room)
      BY <1>3, <1>5
    <2>5. /\ IsFiniteSet(DOMAIN room \cup new)
          /\ Cardinality(DOMAIN room \cup new)
                = Cardinality(DOMAIN room) + Cardinality(new) - Cardinality(DOMAIN room \cap new)
      BY <1>6, <2>4, FS_Union
    <2>6. Cardinality(DOMAIN room) \in Nat /\ Cardinality(new) \in Nat
      BY <1>6, <2>4, FS_CardinalityType
    <2>7. Cardinality(DOMAIN room \cap new) \in Nat
      BY <1>6, FS_Subset, FS_CardinalityType
    <2>8. Cardinality(DOMAIN room \cup new) <= MaxNackEntries
      BY <1>1, <2>3, <2>5, <2>6, <2>7 DEF Fits
    <2> QED
      BY <1>5, <1>6, <2>2, <2>5, <2>8
  <1> QED
    BY <1>7, <1>8, <1>9

(* The empty list of a generator that has seen nothing.                    *)
LEMMA NackInitInv == NackInit => NackInv
  BY FS_EmptySet, NackAssumption
  DEF NackInit, NackInv, NoSeq, Listed, BoundedMissing, NeverNackReceived

(* Only a new highest packet puts anything on the list.                    *)
LEMMA NackStepInv == NackInv /\ [NackNext]_nackVars => NackInv'
  <1> SUFFICES ASSUME NackInv, [NackNext]_nackVars PROVE NackInv'
    OBVIOUS
  <1>a. /\ highest \in Int /\ highest >= -1 /\ arrived \subseteq Int /\ Listed \subseteq ExtSeq
        /\ IsFiniteSet(Listed) /\ BoundedMissing /\ NeverNackReceived
        /\ \A a \in arrived : a > highest => a \in received
        /\ ExtSeq \subseteq Int /\ MaxPacketAge \in Nat /\ MaxNackEntries \in Nat
    BY NackAssumption DEF NackInv, ExtSeq, NoSeq
  <1>1. ASSUME NEW s \in ExtSeq, ObserveFirst(s) PROVE NackInv'
    <2>1. /\ highest = -1 /\ highest' = s /\ missing' = missing
          /\ received' = received \cup {s} /\ arrived' = arrived \cup {s}
      BY <1>1 DEF ObserveFirst, Record, NoSeq
    <2>2. Listed = {}
      BY <1>a, <2>1 DEF NeverNackReceived, Listed, ExtSeq
    <2>3. Listed' = {}
      BY <2>1, <2>2 DEF Listed
    <2>4. IsFiniteSet(Listed)' /\ BoundedMissing'
      BY <1>a, <2>2, <2>3, FewerListed
    <2> QED
      BY <1>a, <2>1, <2>3, <2>4 DEF NackInv, NeverNackReceived, Listed, ExtSeq, NoSeq
  <1>2. ASSUME NEW s \in ExtSeq, ObserveRecovered(s) \/ ObserveLate(s) PROVE NackInv'
    <2>1. /\ highest' = highest /\ missing' = Only(missing, DOMAIN missing \ {s})
          /\ received' = received \cup {s} /\ arrived' = arrived \cup {s}
      BY <1>2 DEF ObserveRecovered, ObserveLate, LateHighest, Record
    <2>2. Listed' = Listed \ {s}
      BY <2>1 DEF Listed, Only
    <2>3. IsFiniteSet(Listed)' /\ BoundedMissing'
      BY <1>a, <2>2, FewerListed
    <2> QED
      BY <1>a, <2>1, <2>2, <2>3 DEF NackInv, NeverNackReceived, Listed, NoSeq
  <1>3. ASSUME NEW s \in ExtSeq, ObserveNew(s) PROVE NackInv'
    <2>1. /\ s > highest /\ highest' = s /\ missing' = RecentMissing(ListAfter(s), s)
          /\ received' = Recent(received \cup {s}, s) /\ arrived' = arrived \cup {s}
      BY <1>3 DEF ObserveNew, Record
    <2>2. /\ DOMAIN ListAfter(s) \subseteq (Listed \cup NewGap(s)) \ {s}
          /\ IsFiniteSet(DOMAIN ListAfter(s))
          /\ Cardinality(DOMAIN ListAfter(s)) <= MaxNackEntries
      BY <2>1, GapListed
    <2>3. Listed' \subseteq DOMAIN ListAfter(s)
      BY <2>1 DEF Listed, RecentMissing, Only
    <2>4. IsFiniteSet(Listed)' /\ BoundedMissing'
      <3>1. IsFiniteSet(Listed') /\ Cardinality(Listed') <= Cardinality(DOMAIN ListAfter(s))
        BY <2>2, <2>3, FS_Subset
      <3>2. Cardinality(Listed') \in Nat /\ Cardinality(DOMAIN ListAfter(s)) \in Nat
        BY <2>2, <3>1, FS_CardinalityType
      <3> QED
        BY <1>a, <2>2, <3>1, <3>2 DEF BoundedMissing, Listed
    <2>5. \A g \in NewGap(s) : g \in ExtSeq /\ g < s /\ g \notin arrived
      <3> SUFFICES ASSUME NEW g \in NewGap(s) PROVE g \in ExtSeq /\ g < s /\ g \notin arrived
        OBVIOUS
      <3>1. g \in Int /\ g >= highest + 1 /\ g <= s - 1 /\ g \notin received
        BY <1>a DEF NewGap, Fresh
      <3>2. g \notin arrived
        BY <1>a, <3>1
      <3>3. s <= MaxSeq
        BY DEF ExtSeq
      <3> QED
        BY <1>a, <3>1, <3>2, <3>3, NackAssumption DEF ExtSeq
    <2>6. Listed' \subseteq ExtSeq /\ \A t \in Listed' : t < s /\ t \notin arrived /\ t # s
      <3> SUFFICES ASSUME NEW t \in Listed'
                   PROVE  t \in ExtSeq /\ t < s /\ t \notin arrived /\ t # s
        OBVIOUS
      <3>1. (t \in Listed \/ t \in NewGap(s)) /\ t # s
        BY <2>2, <2>3
      <3>2. t \in Listed => t \in ExtSeq /\ t < highest /\ t \notin arrived
        BY <1>a DEF NeverNackReceived, Listed
      <3>3. t \in Listed => t \in Int /\ t < s
        BY <1>a, <2>1, <3>2
      <3> QED
        BY <2>1, <2>5, <3>1, <3>2, <3>3
    <2>7. \A a \in arrived' : a > highest' => a \in received'
      BY <1>a, <2>1 DEF Recent
    <2> QED
      BY <1>a, <2>1, <2>4, <2>6, <2>7 DEF NackInv, NeverNackReceived, Listed, ExtSeq, NoSeq
  <1>4. CASE BuildFeedback
    <2>1. Listed' \subseteq Listed
      BY <1>4 DEF BuildFeedback, Listed, RecentMissing, Only
    <2>2. highest' = highest /\ arrived' = arrived /\ received' = Recent(received, highest)
      BY <1>4 DEF BuildFeedback
    <2>3. IsFiniteSet(Listed)' /\ BoundedMissing'
      BY <1>a, <2>1, FewerListed
    <2>4. \A a \in arrived' : a > highest' => a \in received'
      BY <1>a, <2>2 DEF Recent
    <2> QED
      BY <1>a, <2>1, <2>2, <2>3, <2>4 DEF NackInv, NeverNackReceived, Listed, NoSeq
  <1>5. CASE Reset
    <2>1. highest' = -1 /\ arrived' = {} /\ Listed' = {}
      BY <1>5 DEF Reset, Listed, NoSeq
    <2>2. IsFiniteSet(Listed)' /\ BoundedMissing'
      BY <1>a, <2>1, FewerListed
    <2> QED
      BY <2>1, <2>2 DEF NackInv, NeverNackReceived, Listed, NoSeq
  <1>6. CASE Tick
    <2>1. Listed' = Listed /\ highest' = highest /\ arrived' = arrived /\ received' = received
      BY <1>6 DEF Tick, Listed, history
    <2> QED
      BY <1>a, <2>1, FewerListed DEF NackInv, NeverNackReceived, Listed, NoSeq
  <1>7. CASE \/ \E ms \in Rtts : UpdateRtt(ms)
             \/ AcknowledgeKeyframeRequested
             \/ UNCHANGED nackVars
    <2>1. missing' = missing /\ highest' = highest /\ arrived' = arrived /\ received' = received
      BY <1>7 DEF UpdateRtt, AcknowledgeKeyframeRequested, nackVars, state, history
    <2> QED
      BY <1>a, <2>1 DEF NackInv, NeverNackReceived, BoundedMissing, Listed, NoSeq
  <1> QED
    BY <1>1, <1>2, <1>3, <1>4, <1>5, <1>6, <1>7 DEF NackNext

(* The invariant holds throughout.                                         *)
LEMMA NackInvAlways == NackSpec => []NackInv
  BY NackInitInv, NackStepInv, PTL DEF NackSpec

(* However much is lost, the list of missing packets never exceeds         *)
(* maxNackEntries (_addMissingRange, 659-737).                             *)
THEOREM MissingStaysBounded == NackSpec => []BoundedMissing
  <1>1. NackInv => BoundedMissing
    BY DEF NackInv
  <1> QED
    BY <1>1, NackInvAlways, PTL

(* Whatever the order of arrivals, recoveries, polls and trimming of       *)
(* _received, a packet that arrived is never on the list to be requested   *)
(* (observePacket, 577-646; _evictOld, 781-806).                           *)
THEOREM ArrivedIsNeverListed == NackSpec => []NeverNackReceived
  <1>1. NackInv => NeverNackReceived
    BY DEF NackInv
  <1> QED
    BY <1>1, NackInvAlways, PTL

(* Entries join the list in ascending order, whatever is deleted between:  *)
(* what _evictMissingBelow relies on to stop at the first entry it keeps   *)
(* (762-774).                                                              *)
THEOREM ListIsAscending == NackSpec => InsertedAscending
  <1> DEFINE Ascends == \A s \in DOMAIN missing' \ DOMAIN missing :
                            \A t \in DOMAIN missing : t < s
  <1>1. NackInv /\ [NackNext]_nackVars => Ascends
    <2> SUFFICES ASSUME NackInv, [NackNext]_nackVars PROVE Ascends
      OBVIOUS
    <2>1. ASSUME NEW n \in ExtSeq, ObserveNew(n) PROVE Ascends
      <3>1. n > highest /\ missing' = RecentMissing(ListAfter(n), n)
        BY <2>1 DEF ObserveNew
      <3>2. Listed' \subseteq Listed \cup NewGap(n)
        BY <3>1, GapListed DEF Listed, RecentMissing, Only
      <3>3. \A s \in NewGap(n) : s \in Int /\ s > highest
        BY DEF NewGap, Fresh, NackInv, ExtSeq
      <3>4. \A t \in Listed : t \in Int /\ t < highest
        BY NackAssumption DEF NackInv, NeverNackReceived, Listed, ExtSeq
      <3> QED
        BY <3>2, <3>3, <3>4 DEF NackInv, Listed
    <2>2. ASSUME NEW n \in ExtSeq, ObserveFirst(n) \/ ObserveRecovered(n) \/ ObserveLate(n)
          PROVE  Ascends
      BY <2>2 DEF ObserveFirst, ObserveRecovered, ObserveLate, Only
    <2>3. CASE BuildFeedback
      BY <2>3 DEF BuildFeedback, RecentMissing, Only
    <2>4. CASE Reset \/ Tick
      BY <2>4 DEF Reset, Tick
    <2>5. CASE \/ \E ms \in Rtts : UpdateRtt(ms)
               \/ AcknowledgeKeyframeRequested
               \/ UNCHANGED nackVars
      BY <2>5 DEF UpdateRtt, AcknowledgeKeyframeRequested, nackVars, state
    <2> QED
      BY <2>1, <2>2, <2>3, <2>4, <2>5 DEF NackNext
  <1>2. NackInv /\ [NackNext]_nackVars => [Ascends]_nackVars
    BY <1>1
  <1> QED
    BY <1>2, NackInvAlways, PTL DEF NackSpec, InsertedAscending

-----------------------------------------------------------------------------
(* What the histogram is, for HistogramExact to last.                      *)
HistogramInv(h) ==
    /\ h.values \in Seq(Buckets)
    /\ h.index \in 0 .. MaxNumValues - 1
    /\ h.buckets \in [Buckets -> Int]
    /\ HistogramExact(h)

Holding(q, b) == {k \in DOMAIN q : q[k] = b}

LEMMA EmptyHistogramInv == HistogramInv(EmptyHistogram)
  <1>1. \A b : Cardinality(Holding(<<>>, b)) = 0
    <2>1. \A b : Holding(<<>>, b) = {}
      BY DEF Holding
    <2> QED
      BY <2>1, FS_EmptySet
  <1>2. EmptyHistogram.buckets = [b \in Buckets |-> 0]
        /\ EmptyHistogram.values = <<>> /\ EmptyHistogram.index = 0
    BY DEF EmptyHistogram
  <1>3. Len(<<>>) = 0 /\ <<>> \in Seq(Buckets)
    OBVIOUS
  <1> QED
    BY <1>1, <1>2, <1>3, HistogramAssumption DEF HistogramInv, HistogramExact, Holding

(* Writing v to slot k of the buffer, a new slot or a used one: the count  *)
(* of v rises, that of the sample it replaces falls.                       *)
LEMMA SlotWritten ==
    ASSUME NEW q \in Seq(Buckets), NEW r \in Seq(Buckets), NEW v \in Buckets,
           NEW b \in Buckets, NEW k \in 1 .. Len(r), k <= Len(q) + 1,
           Len(r) = IF k <= Len(q) THEN Len(q) ELSE Len(q) + 1,
           \A i \in 1 .. Len(r) : r[i] = IF i = k THEN v ELSE q[i]
    PROVE  /\ IsFiniteSet(Holding(q, b))
           /\ Cardinality(Holding(r, b))
                = Cardinality(Holding(q, b)) + (IF b = v THEN 1 ELSE 0)
                    - (IF k <= Len(q) /\ q[k] = b THEN 1 ELSE 0)
  <1>1. /\ DOMAIN q = 1 .. Len(q) /\ DOMAIN r = 1 .. Len(r)
        /\ Len(q) \in Nat /\ Len(r) \in Nat /\ k \in Nat /\ k >= 1
    OBVIOUS
  <1>2. IsFiniteSet(Holding(q, b)) /\ Cardinality(Holding(q, b)) \in Nat
    <2>1. Holding(q, b) \subseteq 1 .. Len(q) /\ IsFiniteSet(1 .. Len(q))
      BY <1>1, FS_Interval DEF Holding
    <2> QED
      BY <2>1, FS_Subset, FS_CardinalityType
  <1>3. k \in Holding(q, b) <=> k <= Len(q) /\ q[k] = b
    BY <1>1 DEF Holding
  <1>4. Holding(r, b) = IF b = v THEN Holding(q, b) \cup {k} ELSE Holding(q, b) \ {k}
    <2>1. ASSUME NEW i PROVE i \in Holding(r, b) <=> i \in 1 .. Len(r) /\ r[i] = b
      BY <1>1 DEF Holding
    <2>2. ASSUME NEW i PROVE i \in Holding(q, b) <=> i \in 1 .. Len(q) /\ q[i] = b
      BY <1>1 DEF Holding
    <2>3. ASSUME NEW i \in 1 .. Len(r), i # k PROVE i \in 1 .. Len(q) /\ r[i] = q[i]
      BY <1>1, <2>3
    <2>4. ASSUME NEW i \in 1 .. Len(q) PROVE i \in 1 .. Len(r)
      BY <1>1
    <2>5. r[k] = v
      OBVIOUS
    <2>6. \A i : i # k => (i \in Holding(r, b) <=> i \in Holding(q, b))
      BY <2>1, <2>2, <2>3, <2>4
    <2>7. k \in Holding(r, b) <=> b = v
      BY <2>1, <2>5
    <2> QED
      BY <2>6, <2>7
  <1>5. /\ Cardinality(Holding(q, b) \cup {k})
              = IF k \in Holding(q, b) THEN Cardinality(Holding(q, b))
                ELSE Cardinality(Holding(q, b)) + 1
        /\ Cardinality(Holding(q, b) \ {k})
              = IF k \in Holding(q, b) THEN Cardinality(Holding(q, b)) - 1
                ELSE Cardinality(Holding(q, b))
    BY <1>2, FS_AddElement, FS_RemoveElement
  <1> QED
    BY <1>2, <1>3, <1>4, <1>5

(* Where the next sample goes: the first free slot, or the oldest one.     *)
LEMMA NextSlot ==
    ASSUME NEW m \in Nat \ {0}, NEW i \in 0 .. m - 1, NEW n \in Nat, n <= m, n < m => i = n,
           NEW l, l = IF i + 1 <= n THEN n ELSE n + 1
    PROVE  /\ i + 1 <= n + 1 /\ (i < n <=> i + 1 <= n)
           /\ l <= m /\ i + 1 \in 1 .. l
           /\ (i + 1) % m \in 0 .. m - 1
           /\ l < m => (i + 1) % m = l
  <1>1. i + 1 <= n + 1 /\ (i < n <=> i + 1 <= n) /\ l <= m /\ i + 1 \in 1 .. l
    OBVIOUS
  <1>2. (i + 1) % m \in 0 .. m - 1
    OBVIOUS
  <1>3. ASSUME l < m PROVE (i + 1) % m = l
    <2>1. i + 1 = l
      BY <1>3
    <2>2. \A j \in 0 .. m - 1 : j % m = j
      OBVIOUS
    <2>3. l \in 0 .. m - 1
      BY <1>3
    <2> QED
      BY <2>1, <2>2, <2>3
  <1> QED
    BY <1>1, <1>2, <1>3

(* A sample leaves the counts exact, whether it fills a free slot of the   *)
(* buffer or takes the place of the oldest one (413-435).                  *)
LEMMA HistogramAddInv ==
    ASSUME NEW h, HistogramInv(h), NEW sample \in Nat
    PROVE  HistogramInv(HistogramAdd(h, sample))
  <1>1. PICK v \in Buckets : v = IF sample > NumBuckets - 1 THEN NumBuckets - 1 ELSE sample
    BY HistogramAssumption DEF Buckets
  <1>2. PICK q \in Seq(Buckets), idx \in 0 .. MaxNumValues - 1, bks \in [Buckets -> Int] :
            q = h.values /\ idx = h.index /\ bks = h.buckets
    BY DEF HistogramInv
  <1>3. PICK r : r = IF idx < Len(q) THEN [q EXCEPT ![idx + 1] = v] ELSE Append(q, v)
    OBVIOUS
  <1>4. PICK left : left = IF idx < Len(q) THEN [bks EXCEPT ![q[idx + 1]] = @ - 1] ELSE bks
    OBVIOUS
  <1>5. HistogramAdd(h, sample)
            = [values |-> r, index |-> (idx + 1) % MaxNumValues,
               buckets |-> [left EXCEPT ![v] = @ + 1]]
    BY <1>1, <1>2, <1>3, <1>4 DEF HistogramAdd
  <1>6. /\ Len(q) \in Nat /\ DOMAIN q = 1 .. Len(q) /\ idx \in Nat /\ idx < MaxNumValues
        /\ MaxNumValues \in Nat \ {0}
    BY HistogramAssumption
  <1>7. /\ Len(q) <= MaxNumValues /\ (Len(q) < MaxNumValues => idx = Len(q))
        /\ \A b \in Buckets : bks[b] = Cardinality(Holding(q, b))
    BY <1>2 DEF HistogramInv, HistogramExact, Holding
  <1>8. PICK l : l = IF idx + 1 <= Len(q) THEN Len(q) ELSE Len(q) + 1
    OBVIOUS
  <1>9. /\ idx + 1 <= Len(q) + 1 /\ (idx < Len(q) <=> idx + 1 <= Len(q))
        /\ l <= MaxNumValues /\ idx + 1 \in 1 .. l
        /\ (idx + 1) % MaxNumValues \in 0 .. MaxNumValues - 1
        /\ l < MaxNumValues => (idx + 1) % MaxNumValues = l
    <2>1. Len(q) <= MaxNumValues /\ (Len(q) < MaxNumValues => idx = Len(q))
      BY <1>7
    <2>2. PICK n \in Nat : n = Len(q)
      BY <1>6
    <2>3. /\ n <= MaxNumValues /\ (n < MaxNumValues => idx = n)
          /\ l = IF idx + 1 <= n THEN n ELSE n + 1
      BY <1>8, <2>1, <2>2
    <2>4. MaxNumValues \in Nat \ {0} /\ idx \in 0 .. MaxNumValues - 1
      BY <1>6
    <2>5. /\ idx + 1 <= n + 1 /\ (idx < n <=> idx + 1 <= n)
          /\ l <= MaxNumValues /\ idx + 1 \in 1 .. l
          /\ (idx + 1) % MaxNumValues \in 0 .. MaxNumValues - 1
          /\ l < MaxNumValues => (idx + 1) % MaxNumValues = l
      BY <2>3, <2>4, NextSlot
    <2> QED
      BY <2>2, <2>5
  <1>10. /\ r \in Seq(Buckets) /\ Len(r) = l
         /\ \A i \in 1 .. l : r[i] = IF i = idx + 1 THEN v ELSE q[i]
    <2>1. CASE idx < Len(q)
      <3>1. r = [q EXCEPT ![idx + 1] = v] /\ idx + 1 \in 1 .. Len(q) /\ l = Len(q)
        BY <1>3, <1>6, <1>8, <1>9, <2>1
      <3> QED
        BY <1>6, <3>1
    <2>2. CASE ~ (idx < Len(q))
      <3>1. r = Append(q, v) /\ idx = Len(q) /\ l = Len(q) + 1
        <4>1. l = Len(q) + 1 /\ r = Append(q, v)
          BY <1>3, <1>6, <1>8, <1>9, <2>2
        <4>2. idx + 1 <= Len(q) + 1 /\ ~ (idx + 1 <= Len(q))
          BY <1>9, <2>2
        <4>3. \A n \in Nat : idx + 1 <= n + 1 /\ ~ (idx + 1 <= n) => idx = n
          BY <1>6
        <4> QED
          BY <1>6, <4>1, <4>2, <4>3
      <3> QED
        BY <1>6, <3>1
    <2> QED
      BY <2>1, <2>2
  <1>11. idx < Len(q) => q[idx + 1] \in Buckets
    BY <1>6
  <1>12. PICK bks2 \in [Buckets -> Int] : bks2 = [left EXCEPT ![v] = @ + 1]
    <2>1. left \in [Buckets -> Int]
      BY <1>4, <1>11
    <2>2. left[v] + 1 \in Int
      BY <2>1
    <2>3. [left EXCEPT ![v] = @ + 1] \in [Buckets -> Int]
      BY <2>1, <2>2
    <2> QED
      BY <2>3
  <1>13. ASSUME NEW b \in Buckets PROVE bks2[b] = Cardinality(Holding(r, b))
    <2>1. left[b] = bks[b] - (IF idx < Len(q) /\ q[idx + 1] = b THEN 1 ELSE 0)
      <3>1. CASE idx < Len(q)
        <4>1. left = [bks EXCEPT ![q[idx + 1]] = @ - 1] /\ bks[b] \in Int
          BY <1>4, <3>1
        <4> QED
          BY <1>11, <3>1, <4>1
      <3>2. CASE ~ (idx < Len(q))
        <4>1. left = bks /\ bks[b] \in Int
          BY <1>4, <3>2
        <4> QED
          BY <3>2, <4>1
      <3> QED
        BY <3>1, <3>2
    <2>2. left \in [Buckets -> Int]
      BY <1>4, <1>11
    <2>3. bks2[b] = left[b] + (IF b = v THEN 1 ELSE 0)
      BY <1>12, <2>2
    <2>4. Cardinality(Holding(r, b))
              = Cardinality(Holding(q, b)) + (IF b = v THEN 1 ELSE 0)
                  - (IF idx + 1 <= Len(q) /\ q[idx + 1] = b THEN 1 ELSE 0)
      <3>1. /\ idx + 1 \in 1 .. Len(r) /\ idx + 1 <= Len(q) + 1
            /\ Len(r) = (IF idx + 1 <= Len(q) THEN Len(q) ELSE Len(q) + 1)
            /\ \A i \in 1 .. Len(r) : r[i] = IF i = idx + 1 THEN v ELSE q[i]
        BY <1>8, <1>9, <1>10
      <3>2. r \in Seq(Buckets)
        BY <1>10
      <3>3. PICK k \in 1 .. Len(r) : k = idx + 1
        BY <3>1
      <3>4. /\ k <= Len(q) + 1 /\ Len(r) = (IF k <= Len(q) THEN Len(q) ELSE Len(q) + 1)
            /\ \A i \in 1 .. Len(r) : r[i] = IF i = k THEN v ELSE q[i]
        BY <3>1, <3>3
      <3>5. Cardinality(Holding(r, b))
                = Cardinality(Holding(q, b)) + (IF b = v THEN 1 ELSE 0)
                    - (IF k <= Len(q) /\ q[k] = b THEN 1 ELSE 0)
        BY <3>2, <3>4, SlotWritten, SMTT(60)
      <3> QED
        BY <3>3, <3>5
    <2>5. bks[b] \in Int /\ bks[b] = Cardinality(Holding(q, b))
      BY <1>7
    <2> QED
      BY <1>9, <2>1, <2>3, <2>4, <2>5
  <1> QED
    <2>1. HistogramAdd(h, sample)
              = [values |-> r, index |-> (idx + 1) % MaxNumValues, buckets |-> bks2]
      BY <1>5, <1>12
    <2>2. HistogramExact(HistogramAdd(h, sample))
      <3>1. /\ Len(r) <= MaxNumValues
            /\ Len(r) < MaxNumValues => (idx + 1) % MaxNumValues = Len(r)
        BY <1>9, <1>10
      <3> QED
        BY <1>13, <2>1, <3>1 DEF HistogramExact, Holding
    <2> QED
      BY <1>9, <1>10, <2>1, <2>2 DEF HistogramInv

-----------------------------------------------------------------------------
(* A non-empty set of numbers has a least one, and a greatest one if it is *)
(* bounded.                                                                *)
LEMMA LeastNumber ==
    ASSUME NEW T, T \subseteq Nat, T # {}
    PROVE  \E x \in T : \A y \in T : x <= y
  <1> DEFINE R == {ss \in Nat \X Nat : ss[1] < ss[2]}
  <1>1. IsWellFoundedOn(R, Nat)
    BY NatLessThanWellFounded DEF OpToRel
  <1>2. PICK x \in T : \A y \in T : ~ (<<y, x>> \in R)
    <2> HIDE DEF R
    <2> QED
      BY <1>1, WFMin
  <1>3. ASSUME NEW y \in T PROVE x <= y
    <2>1. x \in Nat /\ y \in Nat /\ <<y, x>> \notin R
      BY <1>2
    <2>2. ~ (y < x)
      BY <2>1
    <2> QED
      BY <2>1, <2>2
  <1> QED
    BY <1>3

LEMMA GreatestNumber ==
    ASSUME NEW n \in Nat, NEW T, T \subseteq 0 .. n, T # {}
    PROVE  \E x \in T : \A y \in T : y <= x
  <1> DEFINE U == {n - x : x \in T}
  <1>1. U \subseteq Nat /\ U # {}
    <2>1. \A x \in T : x \in 0 .. n /\ n - x \in Nat
      OBVIOUS
    <2> QED
      BY <2>1
  <1>2. PICK u \in U : \A w \in U : u <= w
    <2> HIDE DEF U
    <2> QED
      BY <1>1, LeastNumber
  <1>3. PICK x \in T : u = n - x
    BY <1>2
  <1>4. ASSUME NEW y \in T PROVE y <= x
    <2>1. u <= n - y
      BY <1>2
    <2> QED
      BY <1>3, <2>1
  <1> QED
    BY <1>4

(* inverseCdf(0.5) is a number of buckets (437-454).                       *)
LEMMA MedianIsNumber == ASSUME NEW h PROVE Median(h) \in Nat
  <1>1. \E P \in SUBSET (0 .. NumBuckets) :
            Median(h) = IF h.values = <<>> THEN 0
                        ELSE IF P = {} THEN NumBuckets
                             ELSE CHOOSE b \in P : \A c \in P : b <= c
    <2> DEFINE below[b \in 0 .. NumBuckets] ==
                  IF b = 0 THEN 0 ELSE below[b - 1] + h.buckets[b - 1]
               reaching == {b \in 0 .. NumBuckets : 2 * below[b] >= Len(h.values)}
    <2>1. Median(h) = IF h.values = <<>> THEN 0
                      ELSE IF reaching = {} THEN NumBuckets
                           ELSE CHOOSE b \in reaching : \A c \in reaching : b <= c
      BY DEF Median
    <2>2. reaching \in SUBSET (0 .. NumBuckets)
      <3> HIDE DEF below
      <3> QED
        OBVIOUS
    <2> HIDE DEF reaching
    <2> QED
      BY <2>1, <2>2
  <1>2. PICK P \in SUBSET (0 .. NumBuckets) :
            Median(h) = IF h.values = <<>> THEN 0
                        ELSE IF P = {} THEN NumBuckets
                             ELSE CHOOSE b \in P : \A c \in P : b <= c
    BY <1>1
  <1>3. P \subseteq Nat /\ NumBuckets \in Nat
    BY HistogramAssumption
  <1>4. P # {} => (CHOOSE b \in P : \A c \in P : b <= c) \in P
    <2> SUFFICES ASSUME P # {} PROVE (CHOOSE b \in P : \A c \in P : b <= c) \in P
      OBVIOUS
    <2>1. \E b \in P : \A c \in P : b <= c
      BY <1>3, LeastNumber
    <2> QED
      BY <2>1
  <1>5. Median(h) = 0 \/ Median(h) = NumBuckets
          \/ (P # {} /\ Median(h) = CHOOSE b \in P : \A c \in P : b <= c)
    BY <1>2
  <1>6. P # {} /\ Median(h) = (CHOOSE b \in P : \A c \in P : b <= c) => Median(h) \in P
    BY <1>4, Zenon
  <1>7. PICK m : m = Median(h)
    OBVIOUS
  <1>8. m = 0 \/ m = NumBuckets \/ m \in P
    BY <1>5, <1>6, <1>7, Zenon
  <1>9. m \in Nat
    <2>1. m \in P => m \in Nat
      BY <1>3, Zenon
    <2>2. m = NumBuckets => m \in Nat
      BY <1>3, Zenon
    <2> QED
      BY <1>8, <2>1, <2>2
  <1> QED
    BY <1>7, <1>9, Zenon

(* What the histories of requests and arrivals have to do with the list    *)
(* and with _received: an entry is never listed again once it has left, so *)
(* its retries are all the requests there were.                            *)
Budget == Larger(1, MaxNackRetries)

RequestInv ==
    /\ NackInv
    /\ \A t \in Listed : missing[t] \in Info /\ requested[t] = missing[t].retries
    /\ HistogramInv(histogram)
    /\ highest \in arrived \cup {NoSeq} /\ needKeyframe \in BOOLEAN
    /\ arrived \subseteq ExtSeq /\ received \subseteq arrived
    /\ keyframes \subseteq arrived \cap Keyframes
    /\ requested \in [ExtSeq -> Nat]
    /\ \A t \in ExtSeq : t > highest => requested[t] = 0
    /\ gaveUp \in Int /\ gaveUp <= highest
    /\ NackBudget
    /\ NoSilentLoss

(* What is on the list after a new highest packet s: what was there, as it *)
(* was, and new entries that were never requested.                         *)
LEMMA ListAfterEntries ==
    ASSUME RequestInv, NEW s \in ExtSeq, s > highest, NEW t \in DOMAIN ListAfter(s)
    PROVE  \/ t \in Listed /\ ListAfter(s)[t] = missing[t]
           \/ t \in NewGap(s) /\ ListAfter(s)[t] \in Info /\ ListAfter(s)[t].retries = 0
  <1> DEFINE Kept(m) == \A x \in DOMAIN m : x \in Listed /\ m[x] = missing[x]
  <1>1. Kept(ListBefore(s))
    BY DEF ListBefore, Only, Listed
  <1>2. ASSUME NEW m, Kept(m), NEW c PROVE Kept(Above(m, c))
    BY <1>2 DEF Above, Only
  <1>3. Kept(MakeRoom(ListBefore(s), NewGap(s)))
    BY <1>1, <1>2 DEF MakeRoom
  <1>4. CASE ListAfter(s) = ListBefore(s)
    BY <1>1, <1>4
  <1>5. CASE ListAfter(s) = Above(ListBefore(s), s)
    BY <1>1, <1>2, <1>5
  <1>6. CASE ListAfter(s) = <<>>
    BY <1>6
  <1>7. CASE ListAfter(s) = AddMissing(MakeRoom(ListBefore(s), NewGap(s)), NewGap(s))
    <2> DEFINE m == MakeRoom(ListBefore(s), NewGap(s))
    <2>1. /\ t \in DOMAIN m \cup NewGap(s)
          /\ ListAfter(s)[t] = IF t \in NewGap(s)
                               THEN [age |-> 0, retries |-> 0, sendAt |-> t + Median(histogram)]
                               ELSE m[t]
      BY <1>7 DEF AddMissing
    <2>2. CASE t \in NewGap(s)
      <3>1. t \in Nat
        BY <2>2, NackAssumption DEF NewGap, Fresh, RequestInv, NackInv, ExtSeq, NoSeq
      <3>2. t + Median(histogram) \in Nat
        BY <3>1, MedianIsNumber
      <3> QED
        BY <2>1, <2>2, <3>2, NackAssumption DEF Info
    <2>3. CASE t \notin NewGap(s)
      BY <1>3, <2>1, <2>3
    <2> QED
      BY <2>2, <2>3
  <1> QED
    BY <1>4, <1>5, <1>6, <1>7 DEF ListAfter

(* A packet that was listed, or that s has just shown to be missing, is    *)
(* listed after s unless a keyframe supersedes it or an overflow drops it. *)
LEMMA ListAfterKeeps ==
    ASSUME RequestInv, NEW s \in ExtSeq, s > highest,
           NEW t \in Listed \cup NewGap(s), t # s
    PROVE  \/ t \in DOMAIN ListAfter(s)
           \/ s \in Keyframes
           \/ Overflows(s)
           \/ \E k \in keyframes : t < k
  <1>1. t \in Int /\ s \in Int /\ highest \in Int
    BY DEF NewGap, Fresh, RequestInv, NackInv, ExtSeq
  <1>2. t \in Listed => t \in DOMAIN ListBefore(s)
    BY DEF ListBefore, Only, Listed
  <1>3. CASE s = highest + 1
    <2>1. NewGap(s) = {}
      BY <1>1, <1>3 DEF NewGap, Fresh
    <2> QED
      BY <1>2, <1>3, <2>1 DEF ListAfter
  <1>4. CASE s # highest + 1 /\ s \notin Keyframes /\ ~ Overflows(s)
    <2>1. t \in NewGap(s) => t \in DOMAIN ListAfter(s)
      BY <1>4 DEF ListAfter, AddMissing
    <2>2. ASSUME t \in DOMAIN MakeRoom(ListBefore(s), NewGap(s)) PROVE t \in DOMAIN ListAfter(s)
      BY <1>4, <2>2 DEF ListAfter, AddMissing
    <2>3. CASE keyframes = {}
      BY <1>2, <2>1, <2>2, <2>3 DEF MakeRoom
    <2>4. CASE keyframes # {}
      <3>1. PICK k \in keyframes : \A j \in keyframes : j <= k
        <4>1. keyframes \subseteq 0 .. MaxSeq
          BY DEF RequestInv, ExtSeq
        <4> QED
          BY <2>4, <4>1, GreatestNumber, NackAssumption
      <3>2. (CHOOSE x \in keyframes : \A j \in keyframes : j <= x) \in keyframes
        BY <3>1
      <3>3. PICK x \in keyframes : x = CHOOSE y \in keyframes : \A j \in keyframes : j <= y
        BY <3>2
      <3>4. x \in Int
        BY DEF RequestInv, ExtSeq
      <3>5. t \in Listed /\ ~ (t < x) => t \in DOMAIN Above(ListBefore(s), x)
        BY <1>1, <1>2, <3>4 DEF Above, Only
      <3>6. t \in Listed => t < x \/ t \in DOMAIN MakeRoom(ListBefore(s), NewGap(s))
        BY <1>2, <3>3, <3>5 DEF MakeRoom
      <3> QED
        BY <2>1, <2>2, <3>6
    <2> QED
      BY <2>3, <2>4
  <1> QED
    BY <1>3, <1>4

LEMMA RequestInitInv == NackInit => RequestInv
  <1> SUFFICES ASSUME NackInit PROVE RequestInv
    OBVIOUS
  <1>1. NackInv /\ HistogramInv(histogram)
    BY NackInitInv, EmptyHistogramInv DEF NackInit
  <1>2. NackBudget /\ NoSilentLoss
    BY NackAssumption DEF NackInit, NackBudget, NoSilentLoss, Larger, NoSeq, ExtSeq
  <1>3. Listed = {} /\ requested \in [ExtSeq -> Nat] /\ \A t \in ExtSeq : requested[t] = 0
    BY DEF NackInit, Listed
  <1>4. /\ received = {} /\ keyframes = {} /\ arrived = {} /\ highest = NoSeq
        /\ needKeyframe = FALSE /\ gaveUp = NoSeq
    BY DEF NackInit
  <1>5. gaveUp \in Int /\ gaveUp <= highest
    BY <1>4 DEF NoSeq
  <1> QED
    BY <1>1, <1>2, <1>3, <1>4, <1>5, Zenon DEF RequestInv

(* A late or recovered packet only leaves the list, and is then accounted  *)
(* for by its arrival.                                                     *)
LEMMA RequestLate ==
    ASSUME RequestInv, NackInv', NEW s \in ExtSeq, ObserveRecovered(s) \/ ObserveLate(s)
    PROVE  RequestInv'
  <1>1. /\ highest # NoSeq /\ highest' = highest /\ first' = first /\ gaveUp' = gaveUp
        /\ missing' = Only(missing, DOMAIN missing \ {s})
        /\ received' = received \cup {s} /\ arrived' = arrived \cup {s}
        /\ keyframes' = WithKeyframe(s) /\ requested' = requested
        /\ needKeyframe' = needKeyframe
    BY DEF ObserveRecovered, ObserveLate, LateHighest, Record
  <1>2. Listed' = Listed \ {s} /\ \A t \in Listed' : missing'[t] = missing[t]
    BY <1>1 DEF Listed, Only
  <1>3. HistogramInv(histogram')
    <2>1. CASE histogram' = histogram
      BY <2>1 DEF RequestInv
    <2>2. CASE s < highest /\ histogram' = HistogramAdd(histogram, highest - s)
      <3>1. highest - s \in Nat
        BY <2>2 DEF RequestInv, NackInv, ExtSeq
      <3> QED
        BY <2>2, <3>1, HistogramAddInv DEF RequestInv
    <2> QED
      BY <2>1, <2>2 DEF ObserveRecovered, ObserveLate
  <1>4. keyframes' \subseteq arrived' \cap Keyframes
    BY <1>1 DEF WithKeyframe, RequestInv
  <1>5. NoSilentLoss'
    <2> SUFFICES ASSUME NEW t \in ExtSeq, first < t, t < highest, t \notin arrived, t # s
                 PROVE  \/ t \in Listed'
                        \/ requested[t] >= Budget
                        \/ t < highest - MaxPacketAge
                        \/ \E k \in arrived' \cap Keyframes : t < k
                        \/ t < gaveUp
      BY <1>1 DEF NoSilentLoss, Listed, Budget
    <2> QED
      BY <1>1, <1>2 DEF RequestInv, NoSilentLoss, Listed, Budget
  <1>6. NackBudget'
    BY <1>1 DEF RequestInv, NackBudget
  <1> QED
    BY <1>1, <1>2, <1>3, <1>4, <1>5, <1>6 DEF RequestInv

(* A new highest packet: its gap is listed, superseded, or given up.       *)
LEMMA RequestNew ==
    ASSUME RequestInv, NackInv', NEW s \in ExtSeq, ObserveNew(s)
    PROVE  RequestInv'
  <1>1. /\ highest # NoSeq /\ s > highest /\ highest' = s /\ first' = first
        /\ missing' = RecentMissing(ListAfter(s), s)
        /\ needKeyframe' = (needKeyframe \/ Overflows(s))
        /\ gaveUp' = (IF Overflows(s) THEN s ELSE gaveUp)
        /\ received' = Recent(received \cup {s}, s) /\ arrived' = arrived \cup {s}
        /\ keyframes' = Recent(WithKeyframe(s), s) /\ requested' = requested
        /\ histogram' = histogram
    BY DEF ObserveNew, Record
  <1>2. /\ highest \in arrived /\ highest \in Int /\ s \in Int /\ MaxPacketAge \in Nat
        /\ arrived \subseteq ExtSeq /\ ExtSeq \subseteq Int /\ received \subseteq arrived
        /\ gaveUp \in Int /\ gaveUp <= highest
    BY <1>1, NackAssumption DEF RequestInv, NackInv, ExtSeq
  <1>3. \A S : Recent(S, s) \subseteq S
    BY DEF Recent
  <1>4. Listed' \subseteq DOMAIN ListAfter(s) /\ \A t \in Listed' : missing'[t] = ListAfter(s)[t]
    BY <1>1 DEF Listed, RecentMissing, Only
  <1>5. ASSUME NEW t \in Listed'
        PROVE  missing'[t] \in Info /\ requested'[t] = missing'[t].retries
    <2>1. CASE t \in Listed /\ ListAfter(s)[t] = missing[t]
      BY <1>1, <1>4, <2>1 DEF RequestInv
    <2>2. CASE t \in NewGap(s) /\ ListAfter(s)[t] \in Info /\ ListAfter(s)[t].retries = 0
      <3>1. t \in ExtSeq /\ t > highest
        <4>1. t \in Int /\ t > highest /\ t < s
          BY <1>2, <2>2 DEF NewGap, Fresh
        <4>2. highest >= -1 /\ s <= MaxSeq /\ MaxSeq \in Nat
          BY NackAssumption DEF RequestInv, NackInv, ExtSeq, NoSeq
        <4> QED
          BY <1>2, <4>1, <4>2 DEF ExtSeq
      <3> QED
        BY <1>1, <1>4, <2>2, <3>1 DEF RequestInv
    <2> QED
      BY <1>1, <1>4, <2>1, <2>2, ListAfterEntries
  <1>6. received' \subseteq arrived' /\ keyframes' \subseteq arrived' \cap Keyframes
    <2>1. received \cup {s} \subseteq arrived' /\ WithKeyframe(s) \subseteq arrived' \cap Keyframes
      BY <1>1, <1>2 DEF WithKeyframe, RequestInv
    <2> QED
      BY <1>1, <1>3, <2>1
  <1>7. gaveUp' \in Int /\ gaveUp' <= highest'
    BY <1>1, <1>2
  <1>8. NoSilentLoss'
    <2> SUFFICES ASSUME NEW t \in ExtSeq, first < t, t < s, t \notin arrived, t # s
                 PROVE  \/ t \in Listed'
                        \/ requested[t] >= Budget
                        \/ t < s - MaxPacketAge
                        \/ \E k \in arrived' \cap Keyframes : t < k
                        \/ t < gaveUp'
      BY <1>1 DEF NoSilentLoss, Listed, Budget
    <2>1. ASSUME t \in Listed \cup NewGap(s)
          PROVE  \/ t \in Listed' \/ t < s - MaxPacketAge \/ t < gaveUp'
                 \/ \E k \in arrived' \cap Keyframes : t < k
      <3>1. CASE t \in DOMAIN ListAfter(s)
        BY <1>1, <1>2, <3>1 DEF Listed, RecentMissing, Only, Recent
      <3>2. CASE s \in Keyframes
        BY <1>1, <3>2
      <3>3. CASE Overflows(s)
        BY <1>1, <3>3
      <3>4. CASE \E k \in keyframes : t < k
        BY <1>1, <3>4 DEF RequestInv
      <3> QED
        BY <1>1, <2>1, <3>1, <3>2, <3>3, <3>4, ListAfterKeeps
    <2>2. CASE t > highest
      <3>1. t \notin received /\ t \in Int
        BY <1>2
      <3>2. t \in NewGap(s)
        BY <1>2, <2>2, <3>1 DEF NewGap, Fresh
      <3> QED
        BY <2>1, <3>2
    <2>3. CASE t < highest
      <3>1. CASE t \in Listed
        BY <2>1, <3>1
      <3>2. CASE t \notin Listed
        <4>1. \/ requested[t] >= Budget
              \/ t < highest - MaxPacketAge
              \/ \E k \in arrived \cap Keyframes : t < k
              \/ t < gaveUp
          BY <2>3, <3>2 DEF RequestInv, NoSilentLoss, Listed, Budget
        <4>2. t < highest - MaxPacketAge => t < s - MaxPacketAge
          BY <1>1, <1>2
        <4>3. t < gaveUp => t < gaveUp'
          BY <1>1, <1>2
        <4> QED
          BY <1>1, <4>1, <4>2, <4>3
      <3> QED
        BY <3>1, <3>2
    <2> QED
      BY <1>2, <2>2, <2>3
  <1>9. NackBudget' /\ \A t \in ExtSeq : t > highest' => requested'[t] = 0
    BY <1>1, <1>2 DEF RequestInv, NackBudget
  <1>10. arrived' \subseteq ExtSeq /\ highest' \in arrived' \cup {NoSeq} /\ needKeyframe' \in BOOLEAN
         /\ HistogramInv(histogram') /\ requested' \in [ExtSeq -> Nat]
    BY <1>1, <1>2 DEF RequestInv
  <1> QED
    BY <1>5, <1>6, <1>7, <1>8, <1>9, <1>10 DEF RequestInv

(* A poll: an entry leaves for its age or when its requests run out, and   *)
(* one that still has a request to spend spends it.                        *)
LEMMA RequestPoll ==
    ASSUME RequestInv, NackInv', BuildFeedback
    PROVE  RequestInv'
  <1> DEFINE recent == RecentMissing(missing, highest)
             kept   == {t \in DOMAIN recent : ~ Exhausted(recent[t])}
             due    == {t \in DOMAIN recent : Due(recent[t])}
  <1>1. /\ missing' = [t \in kept |-> IF t \in due
                                      THEN [recent[t] EXCEPT !.age = 0, !.retries = @ + 1]
                                      ELSE recent[t]]
        /\ requested' = [t \in ExtSeq |-> IF t \in due THEN requested[t] + 1 ELSE requested[t]]
        /\ received' = Recent(received, highest) /\ keyframes' = Recent(keyframes, highest)
        /\ UNCHANGED <<histogram, highest, needKeyframe, first, arrived, gaveUp>>
    BY DEF BuildFeedback
  <1>2. /\ DOMAIN recent = Recent(Listed, highest)
        /\ \A t \in DOMAIN recent : t \in Listed /\ recent[t] = missing[t]
    BY DEF RecentMissing, Only, Recent, Listed
  <1>3. /\ \A t \in Listed : missing[t] \in Info /\ requested[t] = missing[t].retries
        /\ requested \in [ExtSeq -> Nat] /\ Listed \subseteq ExtSeq /\ NackBudget
        /\ \A t \in Listed : t < highest
        /\ highest \in Int /\ ExtSeq \subseteq Int /\ MaxNackRetries \in Nat /\ MaxAge \in Nat
        /\ MaxPacketAge \in Nat
    BY NackAssumption DEF RequestInv, NackInv, NeverNackReceived, Listed, ExtSeq
  <1> HIDE DEF recent
  <1>4. \A t \in due : t \in Listed /\ Due(missing[t])
    BY <1>2
  <1>5. requested' \in [ExtSeq -> Nat]
        /\ \A t \in ExtSeq : requested'[t] = IF t \in due THEN requested[t] + 1 ELSE requested[t]
    <2> HIDE DEF due
    <2>1. \A t \in ExtSeq : (IF t \in due THEN requested[t] + 1 ELSE requested[t]) \in Nat
      BY <1>3
    <2> QED
      BY <1>1, <2>1
  <1>6. NackBudget'
    <2> SUFFICES ASSUME NEW t \in ExtSeq PROVE requested'[t] <= Larger(1, MaxNackRetries)
      BY DEF NackBudget
    <2>1. CASE t \notin due
      BY <1>1, <1>3, <2>1 DEF NackBudget
    <2>2. CASE t \in due
      <3>1. /\ requested'[t] = missing[t].retries + 1 /\ missing[t].retries \in Nat
            /\ Due(missing[t])
        BY <1>1, <1>3, <1>4, <2>2 DEF Info
      <3>2. missing[t].retries = 0 \/ missing[t].retries < MaxNackRetries
        BY <1>3, <3>1 DEF Due, Spent
      <3> QED
        BY <1>3, <3>1, <3>2 DEF Larger
    <2> QED
      BY <2>1, <2>2
  <1>7. \A t \in ExtSeq : t > highest => requested'[t] = 0
    <2> SUFFICES ASSUME NEW t \in ExtSeq, t > highest PROVE requested'[t] = 0
      OBVIOUS
    <2>1. t \notin due
      BY <1>3, <1>4
    <2> QED
      BY <1>1, <2>1 DEF RequestInv
  <1>8. ASSUME NEW t \in Listed'
        PROVE  missing'[t] \in Info /\ requested'[t] = missing'[t].retries
    <2>1. t \in kept /\ t \in Listed /\ recent[t] = missing[t] /\ t \in ExtSeq
      BY <1>1, <1>2, <1>3 DEF Listed
    <2>2. missing[t] \in Info /\ requested[t] = missing[t].retries
      BY <1>3, <2>1
    <2>3. CASE t \in due
      <3>1. missing'[t] = [missing[t] EXCEPT !.age = 0, !.retries = @ + 1]
            /\ requested'[t] = requested[t] + 1
        BY <1>1, <2>1, <2>3
      <3>2. PICK e \in Info : e = missing[t]
        BY <2>2
      <3>3. e.retries \in Nat /\ 0 \in 0 .. MaxAge
        BY <1>3 DEF Info
      <3>4. /\ [e EXCEPT !.age = 0, !.retries = @ + 1] \in Info
            /\ [e EXCEPT !.age = 0, !.retries = @ + 1].retries = e.retries + 1
        <4>1. PICK reset \in Info : reset = [e EXCEPT !.age = 0]
          BY <3>3 DEF Info
        <4>2. reset.retries = e.retries
          BY <4>1 DEF Info
        <4>3. /\ [reset EXCEPT !.retries = @ + 1] \in Info
              /\ [reset EXCEPT !.retries = @ + 1].retries = e.retries + 1
          BY <3>3, <4>2 DEF Info
        <4> QED
          BY <4>1, <4>3
      <3> QED
        BY <2>2, <3>1, <3>2, <3>4
    <2>4. CASE t \notin due
      <3>1. missing'[t] = missing[t] /\ requested'[t] = requested[t]
        BY <1>1, <2>1, <2>4
      <3> QED
        BY <2>2, <3>1
    <2> QED
      BY <2>3, <2>4
  <1>9. NoSilentLoss'
    <2> SUFFICES ASSUME NEW t \in ExtSeq, first < t, t < highest, t \notin arrived
                 PROVE  \/ t \in Listed'
                        \/ requested'[t] >= Budget
                        \/ t < highest - MaxPacketAge
                        \/ \E k \in arrived \cap Keyframes : t < k
                        \/ t < gaveUp
      BY <1>1 DEF NoSilentLoss, Listed, Budget
    <2>1. requested'[t] >= requested[t] /\ requested'[t] \in Nat /\ requested[t] \in Nat
          /\ Budget \in Nat
      <3>1. requested'[t] \in Nat /\ requested[t] \in Nat /\ Budget \in Nat
        BY <1>3, <1>5 DEF Budget, Larger
      <3>2. requested'[t] = requested[t] + 1 \/ requested'[t] = requested[t]
        BY <1>5
      <3> QED
        BY <3>1, <3>2
    <2>2. CASE t \in Listed /\ t \notin DOMAIN recent
      BY <1>2, <1>3, <2>2 DEF Recent
    <2>3. CASE t \in DOMAIN recent /\ Exhausted(recent[t])
      <3>1. requested[t] = missing[t].retries /\ missing[t].retries > 0
            /\ missing[t].retries >= MaxNackRetries
        BY <1>2, <1>3, <2>3 DEF Exhausted, Spent
      <3>2. requested[t] >= Budget
        BY <1>3, <2>1, <3>1 DEF Budget, Larger
      <3> QED
        BY <2>1, <3>2
    <2>4. CASE t \in DOMAIN recent /\ ~ Exhausted(recent[t])
      <3>1. t \in kept
        BY <2>4
      <3> QED
        BY <1>1, <3>1 DEF Listed
    <2>5. CASE t \notin Listed
      <3>1. \/ requested[t] >= Budget
            \/ t < highest - MaxPacketAge
            \/ \E k \in arrived \cap Keyframes : t < k
            \/ t < gaveUp
        BY <2>5 DEF RequestInv, NoSilentLoss, Listed, Budget
      <3> QED
        BY <2>1, <3>1
    <2> QED
      BY <2>2, <2>3, <2>4, <2>5
  <1>10. received' \subseteq arrived' /\ keyframes' \subseteq arrived' \cap Keyframes
    BY <1>1 DEF RequestInv, Recent
  <1> QED
    BY <1>1, <1>5, <1>6, <1>7, <1>8, <1>9, <1>10 DEF RequestInv

LEMMA RequestStepInv == RequestInv /\ [NackNext]_nackVars => RequestInv'
  <1> SUFFICES ASSUME RequestInv, [NackNext]_nackVars PROVE RequestInv'
    OBVIOUS
  <1>1. NackInv'
    BY NackStepInv DEF RequestInv
  <1>2. ASSUME NEW s \in ExtSeq, ObserveFirst(s) PROVE RequestInv'
    <2>1. /\ highest = NoSeq /\ highest' = s /\ first' = s
          /\ received' = received \cup {s} /\ arrived' = arrived \cup {s}
          /\ keyframes' = WithKeyframe(s)
          /\ UNCHANGED <<missing, histogram, needKeyframe, gaveUp, requested>>
      BY <1>2 DEF ObserveFirst, Record
    <2>2. s \in Int /\ s > highest /\ ExtSeq \subseteq Int
      BY <2>1, NackAssumption DEF ExtSeq, NoSeq
    <2>3. NoSilentLoss' /\ NackBudget'
      BY <2>1, <2>2 DEF NoSilentLoss, NackBudget, RequestInv
    <2>4. keyframes' \subseteq arrived' \cap Keyframes
      BY <2>1 DEF WithKeyframe, RequestInv
    <2>5. gaveUp' \in Int /\ gaveUp' <= highest' /\ \A t \in ExtSeq : t > highest' => requested'[t] = 0
      BY <2>1, <2>2 DEF RequestInv, NackInv, NoSeq
    <2> QED
      BY <1>1, <2>1, <2>3, <2>4, <2>5 DEF RequestInv, Listed
  <1>3. ASSUME NEW s \in ExtSeq, ObserveRecovered(s) \/ ObserveLate(s) PROVE RequestInv'
    BY <1>1, <1>3, RequestLate
  <1>4. ASSUME NEW s \in ExtSeq, ObserveNew(s) PROVE RequestInv'
    BY <1>1, <1>4, RequestNew
  <1>5. CASE BuildFeedback
    BY <1>1, <1>5, RequestPoll
  <1>6. CASE Reset
    <2>1. /\ Listed' = {} /\ received' = {} /\ keyframes' = {} /\ arrived' = {}
          /\ histogram' = EmptyHistogram /\ highest' = NoSeq /\ needKeyframe' = FALSE
          /\ first' = NoSeq /\ requested' = [t \in ExtSeq |-> 0] /\ gaveUp' = NoSeq
      BY <1>6 DEF Reset, Listed
    <2>2. NackBudget' /\ NoSilentLoss'
      BY <2>1, NackAssumption DEF NackBudget, NoSilentLoss, Larger, NoSeq, ExtSeq
    <2>3. requested' \in [ExtSeq -> Nat] /\ \A t \in ExtSeq : requested'[t] = 0
      BY <2>1
    <2>4. HistogramInv(histogram')
      BY <2>1, EmptyHistogramInv
    <2>5. /\ Listed' = {} /\ received' = {} /\ keyframes' = {} /\ arrived' = {}
          /\ highest' = NoSeq /\ needKeyframe' = FALSE /\ gaveUp' = NoSeq
      BY <2>1
    <2>6. (gaveUp \in Int /\ gaveUp <= highest)'
      BY <2>5 DEF NoSeq
    <2> QED
      BY <1>1, <2>2, <2>3, <2>4, <2>5, <2>6, Zenon DEF RequestInv
  <1>7. CASE Tick
    <2>1. /\ missing' = [t \in DOMAIN missing |->
                            [missing[t] EXCEPT !.age = IF @ < MaxAge THEN @ + 1 ELSE @]]
          /\ UNCHANGED <<received, keyframes, histogram, highest, needKeyframe, history>>
      BY <1>7 DEF Tick
    <2>2. Listed' = Listed
      BY <2>1 DEF Listed
    <2>3. ASSUME NEW t \in Listed'
          PROVE  missing'[t] \in Info /\ requested'[t] = missing'[t].retries
      <3>1. missing[t] \in Info /\ requested[t] = missing[t].retries /\ t \in DOMAIN missing
        BY <2>2 DEF RequestInv, Listed
      <3>2. missing'[t] = [missing[t] EXCEPT !.age = IF @ < MaxAge THEN @ + 1 ELSE @]
        BY <2>1, <3>1
      <3> QED
        BY <2>1, <3>1, <3>2, NackAssumption DEF Info, history
    <2>4. NackBudget' /\ NoSilentLoss'
      BY <2>1, <2>2 DEF RequestInv, NackBudget, NoSilentLoss, Listed, history
    <2> QED
      BY <1>1, <2>1, <2>2, <2>3, <2>4 DEF RequestInv, history
  <1>8. CASE \/ \E ms \in Rtts : UpdateRtt(ms)
             \/ AcknowledgeKeyframeRequested
             \/ UNCHANGED nackVars
    <2>1. /\ UNCHANGED <<received, missing, keyframes, histogram, highest, history>>
          /\ needKeyframe' \in {needKeyframe, FALSE}
      BY <1>8 DEF UpdateRtt, AcknowledgeKeyframeRequested, nackVars, state
    <2>2. NackBudget' /\ NoSilentLoss'
      BY <2>1 DEF RequestInv, NackBudget, NoSilentLoss, history
    <2> QED
      BY <1>1, <2>1, <2>2 DEF RequestInv, Listed, history
  <1> QED
    BY <1>2, <1>3, <1>4, <1>5, <1>6, <1>7, <1>8 DEF NackNext

LEMMA RequestInvAlways == NackSpec => []RequestInv
  BY RequestInitInv, RequestStepInv, PTL DEF NackSpec

(* Every state of the generator has the type of its fields, and the counts *)
(* of the reordering histogram are those of the samples it holds (413-435).*)
THEOREM NackTypes == NackSpec => []NackTypeOK
  <1>1. RequestInv => NackTypeOK
    BY DEF RequestInv, NackInv, NackTypeOK, HistogramInv, Listed
  <1> QED
    BY <1>1, RequestInvAlways, PTL

(* No packet is requested more than maxNackRetries times (once, if that is *)
(* 0), whatever is observed, polled and trimmed between (843-897).         *)
THEOREM RequestsAreBudgeted == NackSpec => []NackBudget
  <1>1. RequestInv => NackBudget
    BY DEF RequestInv
  <1> QED
    BY <1>1, RequestInvAlways, PTL

(* Whatever is lost, late, recovered or superseded, a packet that did not  *)
(* arrive is listed, or was requested as often as allowed, or is too old,  *)
(* or precedes a keyframe, or was given up together with a request for a   *)
(* keyframe (611-737).                                                     *)
THEOREM LossIsNeverSilent == NackSpec => []NoSilentLoss
  <1>1. RequestInv => NoSilentLoss
    BY DEF RequestInv
  <1> QED
    BY <1>1, RequestInvAlways, PTL
=============================================================================
