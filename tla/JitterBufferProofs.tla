--------------------------- MODULE JitterBufferProofs ---------------------------
(***************************************************************************)
(* Proofs about JitterBuffer for every capacity, sequence space and        *)
(* stream.  With the application free to call back in from its callback:   *)
(* memory stays bounded and the state has its type.  With an application   *)
(* that only closes from its callback, and packets that arrive within half *)
(* the number space of each other: packets leave in order, none is         *)
(* stranded, and every position passed is accounted for.                   *)
(***************************************************************************)
EXTENDS JitterBuffer, FiniteSetTheorems, WellFoundedInduction, TLAPS

(* A non-empty set of numbers has a least one.                             *)
LEMMA LeastElement ==
    ASSUME NEW T, T \subseteq Nat, T # {}
    PROVE  \E x \in T : \A y \in T : x <= y
  <1> DEFINE R == {ss \in Nat \X Nat : ss[1] < ss[2]}
  <1>1. IsWellFoundedOn(R, Nat)
    BY NatLessThanWellFounded DEF OpToRel
  <1>2. PICK x \in T : \A y \in T : ~ (<<y, x>> \in R)
    <2> HIDE DEF R
    <2> QED
      BY <1>1, WFMin
  <1>3. ASSUME NEW y \in T PROVE x <= y
    <2>1. x \in Nat /\ y \in Nat /\ <<y, x>> \notin R
      BY <1>2
    <2>2. ~ (y < x)
      BY <2>1
    <2> QED
      BY <2>1, <2>2
  <1> QED
    BY <1>3

(* _findEarliest finds an entry of the buffer (273-281).                   *)
LEMMA EarliestBuffered ==
    ASSUME NEW buf, DOMAIN buf \subseteq Int, DOMAIN buf # {}, NEW n \in Int
    PROVE  Earliest(buf, n) \in DOMAIN buf
  <1> DEFINE dist(s) == (s - n) % SeqMod
             T == {dist(s) : s \in DOMAIN buf}
  <1>1. \A s \in DOMAIN buf : dist(s) \in Nat
    BY JitterAssumption
  <1>2. PICK d \in T : \A e \in T : d <= e
    <2>1. T \subseteq Nat /\ T # {}
      BY <1>1
    <2> HIDE DEF T
    <2> QED
      BY <2>1, LeastElement
  <1>3. PICK s \in DOMAIN buf : d = dist(s)
    BY <1>2
  <1>4. \A t \in DOMAIN buf : dist(s) <= dist(t)
    BY <1>2, <1>3
  <1> QED
    BY <1>4 DEF Earliest

(* Over capacity only within the flush that a push began, and only until   *)
(* that flush emits the packet it skipped to: it cannot end before.        *)
JitterInv ==
    /\ nextSeq \in Int /\ emitted \in Int
    /\ DOMAIN buffer \subseteq Int /\ IsFiniteSet(DOMAIN buffer)
    /\ count = Cardinality(DOMAIN buffer)
    /\ phase \in {"idle", "flush", "output"}
    /\ count <= MaxSize
       \/ /\ phase = "flush" /\ emitted < MaxEmit
          /\ nextSeq \in DOMAIN buffer /\ count = MaxSize + 1

(* Storing a packet, the forced flush of a full buffer included.           *)
LEMMA StoreInv ==
    ASSUME JitterInv, phase # "flush", NEW n \in Int, NEW seq \in Int, NEW id,
           Store(n, seq, id)
    PROVE  JitterInv'
  <1> DEFINE stored == [s \in DOMAIN buffer \cup {seq} |->
                           IF s = seq THEN [id |-> id, age |-> 0] ELSE buffer[s]]
             held   == IF seq \in DOMAIN buffer THEN count ELSE count + 1
  <1>1. /\ DOMAIN buffer \subseteq Int /\ IsFiniteSet(DOMAIN buffer)
        /\ count = Cardinality(DOMAIN buffer) /\ count \in Nat /\ count <= MaxSize
        /\ phase \in {"idle", "output"} /\ MaxSize \in Nat /\ emitted \in Int
    BY FS_CardinalityType, JitterAssumption DEF JitterInv
  <1>2. buffer' = stored /\ count' = held
    BY DEF Store
  <1>3. DOMAIN stored = DOMAIN buffer \cup {seq} /\ DOMAIN stored \subseteq Int
    BY <1>1
  <1>4. IsFiniteSet(DOMAIN stored) /\ held = Cardinality(DOMAIN stored)
    BY <1>1, <1>3, FS_AddElement
  <1>5. CASE ~ OverCapacity(held)
    <2>1. nextSeq' = n /\ phase' = phase /\ emitted' = emitted
      BY <1>5 DEF Store
    <2>2. held <= MaxSize
      BY <1>1, <1>5 DEF OverCapacity
    <2> HIDE DEF stored, held
    <2> QED
      BY <1>1, <1>2, <1>3, <1>4, <2>1, <2>2 DEF JitterInv
  <1>6. CASE OverCapacity(held)
    <2>1. nextSeq' = Earliest(stored, n) /\ phase' = "flush" /\ emitted' = 0
      BY <1>6 DEF Store, DeclareGap
    <2>2. Earliest(stored, n) \in DOMAIN stored
      <3>1. DOMAIN stored # {}
        BY <1>3
      <3> HIDE DEF stored
      <3> QED
        BY <1>3, <3>1, EarliestBuffered
    <2>3. held = MaxSize + 1
      BY <1>1, <1>6 DEF OverCapacity
    <2>4. 0 < MaxEmit
      BY JitterAssumption DEF MaxEmit, Max2
    <2>5. MaxEmit' = MaxEmit
      BY DEF MaxEmit
    <2> HIDE DEF stored, held
    <2> QED
      BY <1>2, <1>3, <1>4, <2>1, <2>2, <2>3, <2>4, <2>5 DEF JitterInv
  <1> QED
    BY <1>5, <1>6

(* Every step keeps the invariant (105-307).                               *)
LEMMA JitterStepInv == JitterInv /\ [JitterNext]_vars => JitterInv'
  <1> SUFFICES ASSUME JitterInv, [JitterNext]_vars PROVE JitterInv'
    OBVIOUS
  <1>a. /\ nextSeq \in Int /\ emitted \in Int
        /\ DOMAIN buffer \subseteq Int /\ IsFiniteSet(DOMAIN buffer)
        /\ count = Cardinality(DOMAIN buffer) /\ count \in Nat
        /\ MaxSize \in Nat \ {0} /\ SeqMod \in Nat \ {0}
        /\ phase \in {"idle", "flush", "output"}
        /\ phase # "flush" => count <= MaxSize
    BY FS_CardinalityType, JitterAssumption DEF JitterInv
  <1>1. ASSUME NEW id \in Packets, Push(id) PROVE JitterInv'
    <2>1. Stream[id] \in Int /\ phase # "flush" /\ Playout(Stream[id]) \in Int
      BY <1>1, <1>a, JitterAssumption DEF Push, Arriving, Packets, Playout
    <2>2. CASE PushTooOld(id) \/ PushLate(id)
      BY <2>2, <2>1, <1>a DEF PushTooOld, PushLate, JitterInv
    <2>3. CASE PushResync(id)
      <3>1. /\ DOMAIN buffer' = {Stream[id]} /\ count' = 1 /\ nextSeq' = Stream[id]
            /\ phase' = phase /\ emitted' = emitted
        BY <2>3 DEF PushResync
      <3>2. IsFiniteSet(DOMAIN buffer') /\ Cardinality(DOMAIN buffer') = 1
        BY <3>1, FS_Singleton
      <3> QED
        BY <1>a, <2>1, <3>1, <3>2 DEF JitterInv
    <2>4. CASE PushRewind(id)
      BY <2>1, <2>4, StoreInv DEF PushRewind
    <2>5. CASE PushAhead(id)
      BY <2>1, <2>5, StoreInv DEF PushAhead
    <2> QED
      BY <1>1, <2>2, <2>3, <2>4, <2>5 DEF Push
  <1>2. CASE EmitBegin
    <2>1. /\ DOMAIN buffer' = DOMAIN buffer \ {nextSeq} /\ nextSeq \in DOMAIN buffer
          /\ count' = count - 1 /\ phase' = "output" /\ nextSeq' = nextSeq
          /\ emitted' = emitted
      BY <1>2 DEF EmitBegin
    <2>2. IsFiniteSet(DOMAIN buffer') /\ Cardinality(DOMAIN buffer') = count - 1
      BY <1>a, <2>1, FS_RemoveElement
    <2>3. count <= MaxSize + 1
      BY <1>a DEF JitterInv
    <2> QED
      BY <1>a, <2>1, <2>2, <2>3 DEF JitterInv
  <1>3. CASE EmitEnd
    <2>1. /\ phase = "output" /\ phase' = "flush" /\ buffer' = buffer /\ count' = count
          /\ nextSeq' = (nextSeq + 1) % SeqMod /\ emitted' = emitted + 1
      BY <1>3 DEF EmitEnd
    <2>2. nextSeq' \in Int
      BY <1>a, <2>1
    <2> QED
      BY <1>a, <2>1, <2>2 DEF JitterInv
  <1>4. CASE SkipGap
    <2>1. /\ nextSeq \notin DOMAIN buffer /\ phase' = phase /\ buffer' = buffer
          /\ count' = count /\ count > 0 /\ nextSeq' = NextAvailable
          /\ emitted' = emitted
      BY <1>4 DEF SkipGap, WaitedEnough, DeclareGap
    <2>2. DOMAIN buffer # {}
      BY <1>a, <2>1, FS_EmptySet
    <2>3. NextAvailable \in Int
      <3>1. Earliest(buffer, nextSeq) \in Int
        BY <1>a, <2>2, EarliestBuffered
      <3>2. \A i \in Int : (nextSeq + i) % SeqMod \in Int
        BY <1>a
      <3> DEFINE near == {i \in 1 .. Min2(ScanLimit, MaxSize + 1) :
                             (nextSeq + i) % SeqMod \in DOMAIN buffer}
      <3>3. CASE near = {}
        BY <3>1, <3>3 DEF NextAvailable
      <3>4. CASE near # {}
        <4>1. PICK least \in near : \A j \in near : least <= j
          <5>1. near \subseteq Nat
            OBVIOUS
          <5> HIDE DEF near
          <5> QED
            BY <3>4, <5>1, LeastElement
        <4>2. (CHOOSE i \in near : \A j \in near : i <= j) \in near
          BY <4>1
        <4>3. NextAvailable = (nextSeq + (CHOOSE i \in near : \A j \in near : i <= j)) % SeqMod
          BY <3>4 DEF NextAvailable
        <4> QED
          BY <3>2, <4>2, <4>3
      <3> QED
        BY <3>3, <3>4
    <2> QED
      BY <1>a, <2>1, <2>3 DEF JitterInv
  <1>5. CASE FlushTimer
    BY <1>5, <1>a DEF FlushTimer, core, JitterInv
  <1>6. CASE FlushEnd
    <2>1. emitted < MaxEmit => ~ (emitted >= MaxEmit)
      BY <1>a, JitterAssumption DEF MaxEmit, Max2
    <2> QED
      BY <1>6, <1>a, <2>1 DEF FlushEnd, core, JitterInv
  <1>7. CASE Reset \/ Close
    <2>1. /\ DOMAIN buffer' = {} /\ count' = 0 /\ phase' = phase
          /\ nextSeq' \in {NoSeq, nextSeq} /\ emitted' = emitted
      BY <1>7 DEF Reset, Close
    <2>2. IsFiniteSet(DOMAIN buffer') /\ Cardinality(DOMAIN buffer') = 0
      BY <2>1, FS_EmptySet
    <2> QED
      BY <1>a, <2>1, <2>2 DEF JitterInv, NoSeq
  <1>8. CASE Tick
    BY <1>8, <1>a DEF Tick, JitterInv
  <1>9. CASE \/ \E id \in Packets : Lose(id)
             \/ \E ms \in Latencies : SetLatency(ms)
             \/ \E ms \in Rtts : SetRtt(ms)
             \/ UNCHANGED vars
    <2>1. /\ buffer' = buffer /\ count' = count /\ nextSeq' = nextSeq
          /\ phase' = phase /\ emitted' = emitted
      BY <1>9 DEF Lose, SetLatency, SetRtt, vars, core
    <2> QED
      BY <2>1 DEF JitterInv, MaxEmit
  <1> QED
    BY <1>1, <1>2, <1>3, <1>4, <1>5, <1>6, <1>7, <1>8, <1>9 DEF JitterNext

(* "Memory stays bounded no matter what the network does" (154-156), nor   *)
(* what the application calls from its callback.                           *)
THEOREM MemoryStaysBounded == JitterSpec => []Capacity
  <1>1. JitterInit => JitterInv
    BY FS_EmptySet, JitterAssumption DEF JitterInit, JitterInv, NoSeq
  <1>2. JitterInv => Capacity
    BY DEF JitterInv, Capacity
  <1> QED
    BY <1>1, <1>2, JitterStepInv, PTL DEF JitterSpec

-----------------------------------------------------------------------------
(* The state has its type; in the callback there is emit budget left.      *)
TypeInv ==
    /\ JitterInv
    /\ JitterTypeOK
    /\ phase = "output" => emitted < MaxEmit

Entry == [id : Packets, age : 0 .. MaxAge]

LEMMA Numbers ==
    /\ SeqMod \in Nat \ {0} /\ Half \in Nat \ {0} /\ SeqMod = 2 * Half
    /\ MaxEmit \in Nat \ {0} /\ MaxAge \in Nat
    /\ LateWindow \in Nat /\ LateWindow < Half
    /\ \A x \in Int : x % SeqMod \in Positions
    /\ \A id \in Packets : Stream[id] \in Positions
  <1>1. SeqMod \in Nat \ {0} /\ Half \in Nat \ {0} /\ SeqMod = 2 * Half
    BY JitterAssumption DEF Half
  <1>2. MaxEmit \in Nat \ {0} /\ MaxAge \in Nat /\ LateWindow \in Nat /\ LateWindow < Half
    BY JitterAssumption DEF MaxEmit, Max2, Half
  <1>3. \A x \in Int : x % SeqMod \in Positions
    BY <1>1 DEF Positions
  <1>4. \A id \in Packets : Stream[id] \in Positions
    BY JitterAssumption DEF Packets, Positions
  <1> QED
    BY <1>1, <1>2, <1>3, <1>4

LEMMA HalfBelow == Half \in Int /\ SeqMod \in Int /\ 0 < Half /\ Half < SeqMod /\ 0 < SeqMod
  BY Numbers

LEMMA RunInPositions == ASSUME NEW n \in Int, NEW k PROVE Run(n, k) \subseteq Positions
  <1> SUFFICES ASSUME NEW i \in 0 .. k - 1 PROVE (n + i) % SeqMod \in Positions
    BY DEF Run
  <1>1. n + i \in Int
    OBVIOUS
  <1> QED
    BY <1>1, Numbers

(* Declaring a gap reports positions of the sequence space only.           *)
LEMMA GapTypes ==
    ASSUME TypeInv, NEW n \in Int, NEW end \in Positions, DeclareGap(n, end)
    PROVE  nextSeq' \in Positions /\ lost' \cup skipped' \subseteq Positions
  <1>1. \A k : Run(n, k) \subseteq Positions
    BY RunInPositions
  <1>2. lost \cup skipped \subseteq Positions
    BY DEF TypeInv, JitterTypeOK
  <1> QED
    BY <1>1, <1>2 DEF DeclareGap

LEMMA StoreTypes ==
    ASSUME TypeInv, phase # "flush", NEW n \in Positions, NEW id \in Packets,
           Store(n, Stream[id], id)
    PROVE  /\ DOMAIN buffer' \subseteq Positions
           /\ \A s \in DOMAIN buffer' : buffer'[s] \in Entry
           /\ nextSeq' \in Positions
           /\ phase' \in {"idle", "flush", "output"}
           /\ phase' = "output" => phase = "output"
           /\ emitted' \in {emitted, 0}
           /\ lost' \cup skipped' \subseteq Positions
  <1> DEFINE stored == [s \in DOMAIN buffer \cup {Stream[id]} |->
                           IF s = Stream[id] THEN [id |-> id, age |-> 0] ELSE buffer[s]]
             held   == IF Stream[id] \in DOMAIN buffer THEN count ELSE count + 1
  <1>1. /\ Stream[id] \in Positions /\ Positions \subseteq Int /\ MaxAge \in Nat
        /\ DOMAIN buffer \subseteq Positions /\ \A s \in DOMAIN buffer : buffer[s] \in Entry
        /\ lost \cup skipped \subseteq Positions
        /\ phase \in {"idle", "flush", "output"}
    <2>1. Stream[id] \in Positions /\ Positions \subseteq Int /\ MaxAge \in Nat
      BY Numbers DEF Positions
    <2> QED
      BY <2>1 DEF TypeInv, JitterTypeOK, Entry
  <1>2. buffer' = stored
    BY DEF Store
  <1>3. DOMAIN stored = DOMAIN buffer \cup {Stream[id]}
    OBVIOUS
  <1>4. \A s \in DOMAIN stored : stored[s] \in Entry
    <2>1. [id |-> id, age |-> 0] \in Entry
      BY <1>1 DEF Entry
    <2> QED
      BY <1>1, <2>1
  <1>5. Earliest(stored, n) \in Positions
    <2>1. DOMAIN stored # {} /\ DOMAIN stored \subseteq Int /\ n \in Int
      BY <1>1, <1>3
    <2> HIDE DEF stored
    <2>2. Earliest(stored, n) \in DOMAIN stored
      BY <2>1, EarliestBuffered
    <2> QED
      BY <1>1, <1>3, <2>2
  <1> HIDE DEF stored, held
  <1>6. \/ nextSeq' = n /\ UNCHANGED <<phase, emitted, lost, skipped>>
        \/ DeclareGap(n, Earliest(stored, n)) /\ phase' = "flush" /\ emitted' = 0
    BY DEF Store, stored, held
  <1>7. nextSeq' \in Positions /\ lost' \cup skipped' \subseteq Positions
    BY <1>1, <1>5, <1>6, GapTypes
  <1> QED
    BY <1>1, <1>2, <1>3, <1>4, <1>6, <1>7

LEMMA TypeStep == TypeInv /\ [JitterNext]_vars => TypeInv'
  <1> SUFFICES ASSUME TypeInv, [JitterNext]_vars PROVE TypeInv'
    OBVIOUS
  <1>0. JitterInv' /\ Positions \subseteq Int /\ NoSeq \in Int /\ MaxEmit \in Nat \ {0}
    BY JitterStepInv, Numbers DEF TypeInv, Positions, NoSeq
  <1>a. /\ DOMAIN buffer \subseteq Positions /\ \A s \in DOMAIN buffer : buffer[s] \in Entry
        /\ nextSeq \in Positions \cup {NoSeq} /\ oldStreak \in 0 .. ResyncThreshold - 1
        /\ emittedAny \in BOOLEAN /\ timer \in BOOLEAN
        /\ phase \in {"idle", "flush", "output"} /\ emitted \in 0 .. MaxEmit
        /\ out \in Seq(Packets) /\ lost \cup skipped \subseteq Positions
        /\ phase = "output" => emitted < MaxEmit
    BY DEF TypeInv, JitterTypeOK, Entry
  <1>b. 0 \in 0 .. ResyncThreshold - 1 /\ <<>> \in Seq(Packets) /\ 0 \in 0 .. MaxEmit
        /\ emitted \in Int
    BY <1>0, <1>a, JitterAssumption
  <1> USE DEF Entry
  <1>1. ASSUME NEW id \in Packets, Push(id) PROVE TypeInv'
    <2>1. /\ Stream[id] \in Positions /\ phase # "flush" /\ Playout(Stream[id]) \in Positions
          /\ timer' = timer
      BY <1>1, <1>a, Numbers DEF Push, Arriving, Playout, settings
    <2>2. CASE PushTooOld(id)
      <3>1. oldStreak' = oldStreak + 1 /\ ~ (oldStreak + 1 >= ResyncThreshold)
        BY <2>2 DEF PushTooOld, StreakOver
      <3>2. oldStreak' \in 0 .. ResyncThreshold - 1
        BY <1>a, <3>1, JitterAssumption
      <3> QED
        BY <1>0, <1>a, <2>1, <2>2, <3>2 DEF PushTooOld, history, TypeInv, JitterTypeOK, MaxEmit
    <2>3. CASE PushLate(id)
      BY <1>0, <1>a, <1>b, <2>1, <2>3 DEF PushLate, history, TypeInv, JitterTypeOK, MaxEmit
    <2>4. CASE PushResync(id)
      <3>1. /\ buffer' = [s \in {Stream[id]} |-> [id |-> id, age |-> 0]]
            /\ nextSeq' = Stream[id] /\ oldStreak' = 0 /\ emittedAny' = FALSE
            /\ out' = <<>> /\ lost' = {} /\ skipped' = {} /\ UNCHANGED <<phase, emitted>>
        BY <2>4 DEF PushResync
      <3>2. [id |-> id, age |-> 0] \in Entry
        BY Numbers
      <3> QED
        BY <1>0, <1>a, <1>b, <2>1, <3>1, <3>2 DEF TypeInv, JitterTypeOK, MaxEmit
    <2>5. CASE PushRewind(id) \/ PushAhead(id)
      <3>1. /\ Store(Stream[id], Stream[id], id) \/ Store(Playout(Stream[id]), Stream[id], id)
            /\ oldStreak' = 0 /\ UNCHANGED <<emittedAny, out>>
        BY <2>5 DEF PushRewind, PushAhead
      <3>2. /\ DOMAIN buffer' \subseteq Positions
            /\ \A s \in DOMAIN buffer' : buffer'[s] \in Entry
            /\ nextSeq' \in Positions
            /\ phase' \in {"idle", "flush", "output"} /\ (phase' = "output" => phase = "output")
            /\ emitted' \in {emitted, 0}
            /\ lost' \cup skipped' \subseteq Positions
        BY <2>1, <3>1, StoreTypes
      <3>3. emitted' \in 0 .. MaxEmit /\ (phase' = "output" => emitted' < MaxEmit)
        BY <1>0, <1>a, <1>b, <3>2
      <3> QED
        BY <1>0, <1>a, <1>b, <2>1, <3>1, <3>2, <3>3 DEF TypeInv, JitterTypeOK, MaxEmit
    <2> QED
      BY <1>1, <2>2, <2>3, <2>4, <2>5 DEF Push
  <1>2. CASE EmitBegin
    <2>1. /\ nextSeq \in DOMAIN buffer /\ emitted < MaxEmit
          /\ out' = Append(out, buffer[nextSeq].id)
          /\ buffer' = [s \in DOMAIN buffer \ {nextSeq} |-> buffer[s]]
          /\ emittedAny' = TRUE /\ phase' = "output"
          /\ UNCHANGED <<nextSeq, oldStreak, settings, emitted, lost, skipped>>
      BY <1>2 DEF EmitBegin
    <2>2. buffer[nextSeq].id \in Packets
      BY <1>a, <2>1
    <2>3. out' \in Seq(Packets)
      BY <1>a, <2>1, <2>2
    <2> QED
      BY <1>0, <1>a, <2>1, <2>3 DEF settings, TypeInv, JitterTypeOK, MaxEmit
  <1>3. CASE EmitEnd
    <2>1. /\ phase = "output" /\ nextSeq' = (nextSeq + 1) % SeqMod /\ emitted' = emitted + 1
          /\ phase' = "flush"
          /\ UNCHANGED <<buffer, oldStreak, emittedAny, settings, history>>
      BY <1>3 DEF EmitEnd
    <2>2. nextSeq' \in Positions
      <3>1. nextSeq \in Int /\ nextSeq + 1 \in Int
        <4>1. nextSeq \in Int
          BY <1>0, <1>a, Zenon
        <4> QED
          BY <4>1
      <3> QED
        BY <2>1, <3>1, Numbers
    <2>3. emitted' \in 0 .. MaxEmit
      BY <1>0, <1>a, <2>1
    <2> QED
      BY <1>0, <1>a, <2>1, <2>2, <2>3 DEF settings, history, TypeInv, JitterTypeOK, MaxEmit
  <1>4. CASE SkipGap
    <2>1. /\ phase = "flush" /\ DeclareGap(nextSeq, NextAvailable)
          /\ UNCHANGED <<buffer, oldStreak, emittedAny, settings, phase, emitted, out>>
      BY <1>4 DEF SkipGap
    <2>2. NextAvailable \in Positions
      <3>1. nextSeq' = NextAvailable
        BY <2>1 DEF DeclareGap
      <3> DEFINE near == {i \in 1 .. Min2(ScanLimit, MaxSize + 1) :
                             (nextSeq + i) % SeqMod \in DOMAIN buffer}
      <3>2. CASE near = {}
        <4>1. NextAvailable = Earliest(buffer, nextSeq)
          BY <3>2 DEF NextAvailable
        <4>2. DOMAIN buffer # {}
          BY <1>4, FS_EmptySet DEF SkipGap, WaitedEnough, TypeInv, JitterInv
        <4>3. Earliest(buffer, nextSeq) \in DOMAIN buffer
          BY <1>0, <1>a, <4>2, EarliestBuffered
        <4> QED
          BY <1>a, <4>1, <4>3
      <3>3. CASE near # {}
        <4>1. \E least \in near : \A j \in near : least <= j
          <5>1. near \subseteq Nat
            OBVIOUS
          <5> HIDE DEF near
          <5> QED
            BY <3>3, <5>1, LeastElement
        <4>2. PICK i \in near : i = CHOOSE least \in near : \A j \in near : least <= j
          BY <4>1
        <4>3. NextAvailable = (nextSeq + i) % SeqMod
          BY <3>3, <4>2 DEF NextAvailable
        <4> QED
          BY <1>a, <4>2, <4>3
      <3> QED
        BY <3>2, <3>3
    <2>3. nextSeq' \in Positions /\ lost' \cup skipped' \subseteq Positions
      <3>1. nextSeq \in Int
        BY <1>0, <1>a
      <3> QED
        BY <2>1, <2>2, <3>1, GapTypes
    <2> QED
      BY <1>0, <1>a, <2>1, <2>3 DEF settings, TypeInv, JitterTypeOK, MaxEmit
  <1>5. CASE Reset
    <2>1. DOMAIN buffer' = {} /\ nextSeq' = NoSeq /\ oldStreak' = 0 /\ emittedAny' = FALSE
      BY <1>5 DEF Reset
    <2>2. out' = <<>> /\ lost' = {} /\ skipped' = {} /\ UNCHANGED <<settings, phase, emitted>>
      BY <1>5 DEF Reset
    <2> QED
      BY <1>0, <1>a, <1>b, <2>1, <2>2 DEF settings, TypeInv, JitterTypeOK, MaxEmit
  <1>9. CASE Close
    <2>1. DOMAIN buffer' = {} /\ timer' = FALSE
      BY <1>9 DEF Close
    <2>2. UNCHANGED <<nextSeq, oldStreak, emittedAny, phase, emitted, history>>
      BY <1>9 DEF Close
    <2> QED
      BY <1>0, <1>a, <2>1, <2>2 DEF history, TypeInv, JitterTypeOK, MaxEmit
  <1>6. CASE Tick
    <2>1. /\ buffer' = [s \in DOMAIN buffer |->
                           [buffer[s] EXCEPT !.age = Min2(@ + 1, MaxAge)]]
          /\ UNCHANGED <<nextSeq, oldStreak, emittedAny, settings, phase, emitted, history>>
      BY <1>6 DEF Tick
    <2>2. \A e \in Entry : [e EXCEPT !.age = Min2(@ + 1, MaxAge)] \in Entry
      BY Numbers DEF Min2
    <2>3. DOMAIN buffer' = DOMAIN buffer /\ \A s \in DOMAIN buffer' : buffer'[s] \in Entry
      BY <1>a, <2>1, <2>2
    <2> QED
      BY <1>0, <1>a, <2>1, <2>3 DEF settings, history, TypeInv, JitterTypeOK, MaxEmit
  <1>7. CASE FlushTimer \/ FlushEnd
    BY <1>7, <1>0, <1>a, <1>b
    DEF FlushTimer, FlushEnd, core, settings, history, TypeInv, JitterTypeOK, MaxEmit
  <1>8. CASE \/ \E id \in Packets : Lose(id)
             \/ \E ms \in Latencies : SetLatency(ms)
             \/ \E ms \in Rtts : SetRtt(ms)
             \/ UNCHANGED vars
    <2>1. UNCHANGED <<core, timer, phase, emitted, history>>
      BY <1>8 DEF Lose, SetLatency, SetRtt, vars, settings
    <2> QED
      BY <1>0, <1>a, <2>1 DEF core, history, TypeInv, JitterTypeOK, MaxEmit
  <1> QED
    BY <1>1, <1>2, <1>3, <1>4, <1>5, <1>6, <1>7, <1>8, <1>9 DEF JitterNext

LEMMA TypeAlways == JitterSpec => []TypeInv
  <1>1. JitterInit => TypeInv
    <2> SUFFICES ASSUME JitterInit PROVE TypeInv
      OBVIOUS
    <2>1. JitterInv
      BY FS_EmptySet, JitterAssumption DEF JitterInit, JitterInv, NoSeq
    <2>2. DOMAIN buffer = {} /\ <<>> \in Seq(Packets)
      BY DEF JitterInit
    <2>3. 0 \in 0 .. ResyncThreshold - 1 /\ 0 \in 0 .. MaxEmit
      BY Numbers, JitterAssumption
    <2>4. JitterTypeOK
      BY <2>2, <2>3 DEF JitterInit, JitterTypeOK
    <2> QED
      BY <2>1, <2>4 DEF JitterInit, TypeInv
  <1> QED
    BY <1>1, TypeStep, PTL DEF JitterSpec

(* Whatever the application calls from its callback, the playout position, *)
(* the buffer and the reports name positions of the sequence space, and a  *)
(* flush never exceeds its emit budget (105-245).                          *)
THEOREM JitterTypes == JitterSpec => []JitterTypeOK
  <1>1. TypeInv => JitterTypeOK
    BY DEF TypeInv
  <1> QED
    BY <1>1, TypeAlways, PTL

-----------------------------------------------------------------------------
(* Sequence numbers are positions of an unbounded stream, taken modulo     *)
(* SeqMod; what the code computes from them is exact for positions less    *)
(* than half the number space apart.                                       *)
LEMMA Quotient ==
    ASSUME NEW m \in Nat \ {0}, NEW x \in Int
    PROVE  \E q \in Int : x = m * q + (x % m)
  <1>1. x = m * (x \div m) + (x % m) /\ x \div m \in Int
    OBVIOUS
  <1> QED
    BY <1>1

LEMMA Remainder ==
    ASSUME NEW m \in Nat \ {0}, NEW q \in Int, NEW r \in 0 .. m - 1, NEW a \in Int, a = m * q + r
    PROVE  a % m = r
  OBVIOUS

LEMMA ModDistance ==
    ASSUME NEW x \in Int, NEW y \in Int, NEW k \in Int, NEW d \in 0 .. SeqMod - 1,
           x - y = SeqMod * k + d
    PROVE  ((x % SeqMod) - (y % SeqMod)) % SeqMod = d
  <1>1. SeqMod \in Nat \ {0} /\ x % SeqMod \in Int /\ y % SeqMod \in Int
    BY Numbers
  <1>2. PICK q \in Int : x = SeqMod * q + (x % SeqMod)
    BY <1>1, Quotient
  <1>3. PICK r \in Int : y = SeqMod * r + (y % SeqMod)
    BY <1>1, Quotient
  <1>4. (x % SeqMod) - (y % SeqMod) = SeqMod * (k - q + r) + d
    BY <1>1, <1>2, <1>3
  <1> QED
    BY <1>1, <1>4, Remainder

LEMMA ModSum ==
    ASSUME NEW x \in Int, NEW i \in Int
    PROVE  ((x % SeqMod) + i) % SeqMod = (x + i) % SeqMod
  <1>1. PICK y \in Int : y = x + i
    OBVIOUS
  <1>2. SeqMod \in Nat \ {0} /\ x % SeqMod \in Int /\ y % SeqMod \in 0 .. SeqMod - 1
    BY Numbers
  <1>3. PICK q \in Int : x = SeqMod * q + (x % SeqMod)
    BY <1>2, Quotient
  <1>4. PICK r \in Int : y = SeqMod * r + (y % SeqMod)
    BY <1>2, Quotient
  <1>5. PICK u \in Int, v \in 0 .. SeqMod - 1 : u = x % SeqMod /\ v = y % SeqMod
    BY <1>2
  <1>6. u + i = SeqMod * (r - q) + v /\ u + i \in Int /\ r - q \in Int
    <2>1. SeqMod * (r - q) = SeqMod * r - SeqMod * q
      BY <1>2
    <2>2. x = SeqMod * q + u /\ y = SeqMod * r + v
      BY <1>3, <1>4, <1>5
    <2> QED
      BY <1>1, <1>2, <2>1, <2>2
  <1>7. (u + i) % SeqMod = v
    <2>1. PICK a \in Int, k \in Int : a = u + i /\ k = r - q
      OBVIOUS
    <2>2. a = SeqMod * k + v
      BY <1>6, <2>1
    <2>3. a % SeqMod = v
      BY <1>2, <2>2, Remainder
    <2> QED
      BY <2>1, <2>3
  <1> QED
    BY <1>1, <1>5, <1>7

(* Two positions less than SeqMod apart do not share a sequence number.    *)
LEMMA SamePosition ==
    ASSUME NEW x \in Int, NEW y \in Int, x - y < SeqMod, y - x < SeqMod,
           x % SeqMod = y % SeqMod
    PROVE  x = y
  <1>1. SeqMod \in Nat \ {0}
    BY Numbers
  <1>2. PICK q \in Int : x = SeqMod * q + (x % SeqMod)
    BY <1>1, Quotient
  <1>3. PICK r \in Int : y = SeqMod * r + (x % SeqMod)
    BY <1>1, Quotient
  <1>4. x % SeqMod \in Int
    BY <1>1
  <1>5. x - y = SeqMod * (q - r)
    BY <1>1, <1>2, <1>3, <1>4
  <1>6. q - r >= 1 => x - y >= SeqMod
    BY <1>1, <1>5
  <1>7. q - r <= -1 => y - x >= SeqMod
    BY <1>1, <1>5
  <1>8. q = r
    BY <1>1, <1>6, <1>7
  <1> QED
    BY <1>2, <1>3, <1>8

(* _seqDiff is the distance between the positions.                         *)
LEMMA SeqDiffExact ==
    ASSUME NEW x \in Int, NEW y \in Int, x - y <= Half, y - x < Half
    PROVE  SeqDiff(x % SeqMod, y % SeqMod) = x - y
  <1>1. SeqMod \in Nat \ {0} /\ Half \in Nat \ {0} /\ SeqMod = 2 * Half
    BY Numbers
  <1>2. CASE x >= y
    <2>1. x - y \in 0 .. SeqMod - 1 /\ x - y = SeqMod * 0 + (x - y)
      BY <1>1, <1>2
    <2>2. ((x % SeqMod) - (y % SeqMod)) % SeqMod = x - y
      BY <2>1, ModDistance
    <2> QED
      BY <1>1, <2>2 DEF SeqDiff
  <1>3. CASE x < y
    <2>1. x - y + SeqMod \in 0 .. SeqMod - 1 /\ x - y = SeqMod * (-1) + (x - y + SeqMod)
      BY <1>1, <1>3
    <2>2. ((x % SeqMod) - (y % SeqMod)) % SeqMod = x - y + SeqMod
      BY <2>1, ModDistance
    <2>3. x - y + SeqMod > Half
      BY <1>1
    <2> QED
      BY <1>1, <2>2, <2>3 DEF SeqDiff
  <1> QED
    BY <1>2, <1>3

(* How far ahead of position y a position x is.                            *)
LEMMA AheadExact ==
    ASSUME NEW x \in Int, NEW y \in Int, x >= y, x - y < SeqMod
    PROVE  ((x % SeqMod) - (y % SeqMod)) % SeqMod = x - y
  <1>1. SeqMod \in Nat \ {0}
    BY Numbers
  <1>2. x - y \in 0 .. SeqMod - 1 /\ x - y = SeqMod * 0 + (x - y)
    BY <1>1
  <1> QED
    BY <1>2, ModDistance

(* The sequence numbers of the positions from x up to y.                   *)
Numbered(x, y) == {p % SeqMod : p \in x .. y - 1}

LEMMA RunExact ==
    ASSUME NEW x \in Int, NEW k \in Int
    PROVE  Run(x % SeqMod, k) = Numbered(x, x + k)
  <1>1. \A i \in Int : ((x % SeqMod) + i) % SeqMod = (x + i) % SeqMod
    BY ModSum
  <1>2. ASSUME NEW q \in Run(x % SeqMod, k) PROVE q \in Numbered(x, x + k)
    <2>1. PICK i \in 0 .. k - 1 : q = ((x % SeqMod) + i) % SeqMod
      BY DEF Run
    <2>2. q = (x + i) % SeqMod /\ x + i \in x .. (x + k) - 1
      BY <1>1, <2>1
    <2> QED
      BY <2>2 DEF Numbered
  <1>3. ASSUME NEW q \in Numbered(x, x + k) PROVE q \in Run(x % SeqMod, k)
    <2>1. PICK p \in x .. (x + k) - 1 : q = p % SeqMod
      BY DEF Numbered
    <2>2. PICK i \in 0 .. k - 1 : p = x + i
      <3>1. p - x \in 0 .. k - 1 /\ p = x + (p - x)
        OBVIOUS
      <3> QED
        BY <3>1
    <2>3. q = ((x % SeqMod) + i) % SeqMod
      BY <1>1, <2>1, <2>2
    <2> QED
      BY <2>3 DEF Run
  <1> QED
    BY <1>2, <1>3

(* _findEarliest finds the entry of the least position, for entries that   *)
(* lie ahead of the playout position c (273-281).                          *)
LEMMA EarliestExact ==
    ASSUME NEW buf, DOMAIN buf \subseteq Int, DOMAIN buf # {}, NEW c \in Int,
           NEW Q, \A s \in DOMAIN buf :
                     Q[s] \in Int /\ Q[s] % SeqMod = s /\ c <= Q[s] /\ Q[s] - c < SeqMod
    PROVE  /\ Earliest(buf, c % SeqMod) \in DOMAIN buf
           /\ \A t \in DOMAIN buf : Q[Earliest(buf, c % SeqMod)] <= Q[t]
  <1> DEFINE n == c % SeqMod
  <1>1. \A s \in DOMAIN buf : (s - n) % SeqMod = Q[s] - c
    <2> SUFFICES ASSUME NEW s \in DOMAIN buf PROVE (s - n) % SeqMod = Q[s] - c
      OBVIOUS
    <2>1. PICK x \in Int : x = Q[s]
      OBVIOUS
    <2>2. x >= c /\ x - c < SeqMod /\ x % SeqMod = s
      BY <2>1
    <2>3. ((x % SeqMod) - (c % SeqMod)) % SeqMod = x - c
      BY <2>2, AheadExact
    <2> QED
      BY <2>1, <2>2, <2>3
  <1>2. PICK d \in {Q[s] - c : s \in DOMAIN buf} :
            \A e \in {Q[s] - c : s \in DOMAIN buf} : d <= e
    <2> DEFINE T == {Q[s] - c : s \in DOMAIN buf}
    <2>1. T \subseteq Nat /\ T # {}
      OBVIOUS
    <2> HIDE DEF T
    <2>2. \E d \in T : \A e \in T : d <= e
      BY <2>1, LeastElement
    <2> QED
      BY <2>2 DEF T
  <1>3. PICK s \in DOMAIN buf : d = Q[s] - c
    BY <1>2
  <1>4. \A t \in DOMAIN buf : Q[s] - c <= Q[t] - c
    BY <1>2, <1>3
  <1> HIDE DEF n
  <1>5. \E u \in DOMAIN buf : \A t \in DOMAIN buf : (u - n) % SeqMod <= (t - n) % SeqMod
    BY <1>1, <1>4
  <1>6. /\ Earliest(buf, n) \in DOMAIN buf
        /\ \A t \in DOMAIN buf : (Earliest(buf, n) - n) % SeqMod <= (t - n) % SeqMod
    BY <1>5 DEF Earliest
  <1>7. \A t \in DOMAIN buf : Q[Earliest(buf, n)] - c <= Q[t] - c
    BY <1>1, <1>6
  <1>8. \A t \in DOMAIN buf : Q[Earliest(buf, n)] <= Q[t]
    <2>1. Q[Earliest(buf, n)] \in Int /\ \A t \in DOMAIN buf : Q[t] \in Int
      BY <1>6
    <2> QED
      BY <1>7, <2>1
  <1> QED
    BY <1>6, <1>8 DEF n

(* So does _findNextAvailable, by either of its scans (250-270).           *)
LEMMA NextAvailableExact ==
    ASSUME DOMAIN buffer \subseteq Int, DOMAIN buffer # {}, NEW c \in Int,
           nextSeq = c % SeqMod, nextSeq \notin DOMAIN buffer,
           NEW Q, \A s \in DOMAIN buffer :
                     Q[s] \in Int /\ Q[s] % SeqMod = s /\ c <= Q[s] /\ Q[s] - c < SeqMod
    PROVE  /\ NextAvailable \in DOMAIN buffer
           /\ \A t \in DOMAIN buffer : Q[NextAvailable] <= Q[t]
  <1> DEFINE near == {i \in 1 .. Min2(ScanLimit, MaxSize + 1) :
                         (nextSeq + i) % SeqMod \in DOMAIN buffer}
  <1>1. CASE near = {}
    <2>1. NextAvailable = Earliest(buffer, c % SeqMod)
      BY <1>1 DEF NextAvailable
    <2> QED
      BY <2>1, EarliestExact
  <1>2. CASE near # {}
    <2>1. \E i \in near : \A j \in near : i <= j
      <3>1. near \subseteq Nat
        OBVIOUS
      <3> HIDE DEF near
      <3> QED
        BY <1>2, <3>1, LeastElement
    <2>2. PICK i \in near : /\ \A j \in near : i <= j
                            /\ i = CHOOSE k \in near : \A j \in near : k <= j
      BY <2>1
    <2>3. NextAvailable = (nextSeq + i) % SeqMod
      BY <1>2, <2>2 DEF NextAvailable
    <2>4. /\ i \in Nat /\ i >= 1 /\ i <= Min2(ScanLimit, MaxSize + 1)
          /\ Min2(ScanLimit, MaxSize + 1) \in Nat
          /\ NextAvailable \in DOMAIN buffer
      BY <2>2, <2>3, JitterAssumption DEF Min2
    <2>5. PICK u \in DOMAIN buffer : u = NextAvailable
      BY <2>4
    <2>6. SeqMod \in Nat \ {0}
      BY Numbers
    <2>7. ASSUME NEW t \in DOMAIN buffer PROVE Q[u] <= Q[t]
      <3>1. PICK x \in Int, y \in Int, o \in Int : x = Q[u] /\ y = c + i /\ o = Q[t] - c
        BY <2>4
      <3>2. /\ x % SeqMod = u /\ c <= x /\ x - c < SeqMod
            /\ (c + o) % SeqMod = t /\ 0 <= o /\ o < SeqMod
        <4>1. Q[t] % SeqMod = t /\ c <= Q[t] /\ Q[t] - c < SeqMod /\ Q[t] \in Int
          OBVIOUS
        <4>2. Q[u] % SeqMod = u /\ c <= Q[u] /\ Q[u] - c < SeqMod
          OBVIOUS
        <4>3. Q[t] = c + o
          BY <3>1, <4>1
        <4> QED
          BY <3>1, <4>1, <4>2, <4>3
      <3>3. (nextSeq + o) % SeqMod = t /\ y % SeqMod = u
        <4>1. /\ ((c % SeqMod) + o) % SeqMod = (c + o) % SeqMod
              /\ ((c % SeqMod) + i) % SeqMod = (c + i) % SeqMod
          BY <2>4, ModSum
        <4> QED
          BY <2>3, <2>5, <3>1, <3>2, <4>1
      <3>4. o # 0
        <4>1. o = 0 => c + o = c
          OBVIOUS
        <4> QED
          BY <3>2, <4>1
      <3>5. ~ (o < i)
        <4> SUFFICES ASSUME o < i PROVE FALSE
          OBVIOUS
        <4>1. o \in 1 .. Min2(ScanLimit, MaxSize + 1)
          BY <2>4, <3>2, <3>4
        <4>2. o \in near
          BY <3>3, <4>1
        <4> QED
          BY <2>2, <2>4, <4>2
      <3>6. x = y
        <4>1. x - y < SeqMod /\ y - x < SeqMod
          <5>1. i \in Int /\ i >= 1 /\ SeqMod \in Int /\ i <= o /\ y = c + i
            BY <2>4, <2>6, <3>1, <3>5
          <5>2. c <= x /\ x - c < SeqMod /\ o < SeqMod
            BY <3>2
          <5> QED
            BY <5>1, <5>2
        <4> QED
          BY <3>2, <3>3, <4>1, SamePosition
      <3> QED
        BY <2>4, <3>1, <3>5, <3>6
    <2> QED
      BY <2>4, <2>5, <2>7
  <1> QED
    BY <1>1, <1>2

(* _declareGapAndSkip reports every position from c up to e, as losses or  *)
(* in one gap event (214-232).                                             *)
LEMMA GapExact ==
    ASSUME NEW c \in Int, NEW e \in Int, c <= e, e - c <= Half,
           DeclareGap(c % SeqMod, e % SeqMod)
    PROVE  /\ nextSeq' = e % SeqMod
           /\ lost' \cup skipped' = lost \cup skipped \cup Numbered(c, e)
  <1> DEFINE g == e - c
             n == c % SeqMod
  <1>1. SeqDiff(e % SeqMod, n) = g
    <2>1. c - e < Half
      BY Numbers
    <2> QED
      BY <2>1, SeqDiffExact
  <1>2. /\ lost' = lost \cup Run(n, Reported(g))
        /\ skipped' = skipped \cup (IF g > MaxLossEvents THEN Run(n, g) ELSE {})
        /\ nextSeq' = e % SeqMod
    BY <1>1 DEF DeclareGap
  <1>3. Run(n, g) = Numbered(c, e)
    BY RunExact
  <1>4. Run(n, Reported(g)) \subseteq Run(n, g)
    <2>1. Reported(g) <= g /\ Reported(g) \in Int
      BY JitterAssumption DEF Reported, Min2
    <2>2. 0 .. Reported(g) - 1 \subseteq 0 .. g - 1
      BY <2>1
    <2> HIDE DEF g, n
    <2> QED
      BY <2>2 DEF Run
  <1>5. ~ (g > MaxLossEvents) => Reported(g) = g
    BY JitterAssumption DEF Reported, Min2
  <1> QED
    BY <1>2, <1>3, <1>4, <1>5

-----------------------------------------------------------------------------
(* P unwraps the stream: it places every packet on a line, in the order in *)
(* which one run of the sender numbered them, and the sequence number is   *)
(* the place modulo SeqMod.                                                *)
Unwraps(P) ==
    /\ P \in [Packets -> Int]
    /\ \A i \in Packets : Stream[i] = P[i] % SeqMod
    /\ \A i, j \in Packets : i < j /\ (i < Restart <=> j < Restart) => P[i] < P[j]

(* The hypothesis on the network and on the application: a packet that is  *)
(* pushed lies within half the number space of those in the buffer and of  *)
(* the one emitted last, and none is pushed after close.                   *)
Last == out[Len(out)]
Recent == {buffer[s].id : s \in DOMAIN buffer} \cup (IF out = <<>> THEN {} ELSE {Last})
Near(P, i, j) == P[i] - P[j] < Half /\ P[j] - P[i] < Half
Timely(P) == \A id \in Packets : Push(id) => timer /\ \A j \in Recent : Near(P, id, j)

(* For the account of an epoch: no two of its positions share a number.    *)
Short(P) == \A i, j \in Packets : P[i] - P[j] < SeqMod - 1

(* With the playout position at place c, the first place not played yet.   *)
Edge(c) == IF phase = "output" THEN c + 1 ELSE c

(* What was emitted lies behind c, in order, and what is buffered ahead of *)
(* it; and c is where the last packet or the first entry puts it.          *)
Sorted(P, c) ==
    /\ c % SeqMod = nextSeq
    /\ \A s \in DOMAIN buffer : Stream[buffer[s].id] = s /\ Edge(c) <= P[buffer[s].id]
    /\ \A k \in DOMAIN out : P[out[k]] < Edge(c)
    /\ \A j, k \in DOMAIN out : j < k => P[out[j]] < P[out[k]]
    /\ \A i, j \in Recent : Near(P, i, j)
    /\ \/ out # <<>> /\ Edge(c) = P[Last] + 1
       \/ phase # "output" /\ nextSeq \in DOMAIN buffer /\ c = P[buffer[nextSeq].id]
       \/ phase # "output" /\ DOMAIN buffer = {} /\ ~ timer /\ \E i \in Packets : c = P[i]

(* Of the places from b up to x, those not played are reported.            *)
Ledger(P, played, reported, b, x) ==
    /\ \A p \in b .. x - 1 :
          p % SeqMod \in reported <=> ~ \E k \in DOMAIN played : P[played[k]] = p
    /\ reported \subseteq Numbered(b, x)
    /\ \A k \in DOMAIN played : b <= P[played[k]]

(* The epoch began at place b.  A flush that declared a gap before any     *)
(* packet of the epoch was emitted is about to emit one.                   *)
Accounts(P, c, b) ==
    /\ b <= c /\ b % SeqMod = base /\ \E i \in Packets : b = P[i]
    /\ Ledger(P, out, lost \cup skipped, b, Edge(c))
    /\ out = <<>> => \/ b = c /\ lost \cup skipped = {}
                     \/ phase = "flush" /\ nextSeq \in DOMAIN buffer

PlayoutInv(P) ==
    /\ TypeInv
    /\ emittedAny <=> out # <<>>
    /\ phase # "idle" /\ out = <<>> => emitted = 0
    /\ phase = "output" => out # <<>>
    /\ nextSeq = NoSeq =>
          DOMAIN buffer = {} /\ out = <<>> /\ phase = "idle" /\ base = NoSeq /\ lost \cup skipped = {}
    /\ nextSeq # NoSeq =>
          base # NoSeq /\ \E c, b \in Int : Sorted(P, c) /\ (Short(P) => Accounts(P, c, b))

LEMMA LedgerGap ==
    ASSUME NEW P, NEW q, NEW R, NEW b \in Int, NEW c \in Int, NEW e \in Int,
           Ledger(P, q, R, b, c), b <= c, c <= e, e - b < SeqMod,
           \A k \in DOMAIN q : P[q[k]] \in Int /\ P[q[k]] < c
    PROVE  Ledger(P, q, R \cup Numbered(c, e), b, e)
  <1>1. ASSUME NEW x \in b .. e - 1, NEW y \in b .. e - 1, x % SeqMod = y % SeqMod
        PROVE  x = y
    <2>1. x - y < SeqMod /\ y - x < SeqMod
      BY Numbers
    <2> QED
      BY <1>1, <2>1, SamePosition
  <1>2. ASSUME NEW p \in b .. e - 1
        PROVE  p % SeqMod \in R \cup Numbered(c, e) <=> ~ \E k \in DOMAIN q : P[q[k]] = p
    <2>1. CASE p < c
      <3>1. p \in b .. c - 1
        BY <2>1
      <3>2. p % SeqMod \notin Numbered(c, e)
        <4> SUFFICES ASSUME p % SeqMod \in Numbered(c, e) PROVE FALSE
          OBVIOUS
        <4>1. PICK x \in c .. e - 1 : p % SeqMod = x % SeqMod
          BY DEF Numbered
        <4>2. x \in b .. e - 1
          BY <4>1
        <4>3. p = x
          BY <1>1, <4>1, <4>2
        <4> QED
          BY <2>1, <4>1, <4>3
      <3> QED
        BY <3>1, <3>2 DEF Ledger
    <2>2. CASE ~ (p < c)
      <3>1. p \in c .. e - 1
        BY <2>2
      <3>2. p % SeqMod \in Numbered(c, e)
        BY <3>1 DEF Numbered
      <3> QED
        BY <2>2, <3>2
    <2> QED
      BY <2>1, <2>2
  <1>3. R \cup Numbered(c, e) \subseteq Numbered(b, e)
    <2>1. b .. c - 1 \subseteq b .. e - 1 /\ c .. e - 1 \subseteq b .. e - 1
      OBVIOUS
    <2> QED
      BY <2>1 DEF Ledger, Numbered
  <1> QED
    BY <1>2, <1>3 DEF Ledger

LEMMA LedgerPlay ==
    ASSUME NEW P, NEW q \in Seq(Packets), NEW R, NEW b \in Int, NEW c \in Int, NEW id \in Packets,
           Ledger(P, q, R, b, c), b <= c, c - b < SeqMod, P[id] = c,
           \A k \in DOMAIN q : P[q[k]] < c
    PROVE  Ledger(P, Append(q, id), R, b, c + 1)
  <1>1. /\ DOMAIN Append(q, id) = 1 .. Len(q) + 1 /\ DOMAIN q = 1 .. Len(q) /\ Len(q) \in Nat
        /\ \A k \in 1 .. Len(q) + 1 :
              Append(q, id)[k] = IF k = Len(q) + 1 THEN id ELSE q[k]
    OBVIOUS
  <1>2. ASSUME NEW p PROVE (\E k \in DOMAIN Append(q, id) : P[Append(q, id)[k]] = p)
                              <=> p = c \/ \E k \in DOMAIN q : P[q[k]] = p
    <2>1. \A k \in DOMAIN q : k \in DOMAIN Append(q, id) /\ Append(q, id)[k] = q[k]
      <3>1. \A k \in 1 .. Len(q) : k \in 1 .. Len(q) + 1 /\ k # Len(q) + 1
        BY <1>1
      <3> QED
        BY <1>1, <3>1
    <2>2. P[Append(q, id)[Len(q) + 1]] = c /\ Len(q) + 1 \in DOMAIN Append(q, id)
      BY <1>1
    <2>3. ASSUME NEW k \in DOMAIN Append(q, id)
          PROVE  P[Append(q, id)[k]] = c \/ (k \in DOMAIN q /\ Append(q, id)[k] = q[k])
      <3>1. k \in 1 .. Len(q) + 1
        BY <1>1
      <3>2. k = Len(q) + 1 \/ k \in 1 .. Len(q)
        BY <1>1, <3>1
      <3> QED
        BY <1>1, <3>1, <3>2
    <2> QED
      BY <2>1, <2>2, <2>3
  <1>3. c % SeqMod \notin R
    <2> SUFFICES ASSUME c % SeqMod \in R PROVE FALSE
      OBVIOUS
    <2>1. PICK x \in b .. c - 1 : c % SeqMod = x % SeqMod
      BY DEF Ledger, Numbered
    <2>2. c - x < SeqMod /\ x - c < SeqMod
      BY <2>1, Numbers
    <2>3. c = x
      BY <2>1, <2>2, SamePosition
    <2> QED
      BY <2>1, <2>3
  <1>4. ASSUME NEW p \in b .. (c + 1) - 1
        PROVE  p % SeqMod \in R <=> ~ \E k \in DOMAIN Append(q, id) : P[Append(q, id)[k]] = p
    <2>1. CASE p = c
      BY <1>2, <1>3, <2>1
    <2>2. CASE p # c
      <3>1. p \in b .. c - 1
        BY <2>2
      <3> QED
        BY <1>2, <2>2, <3>1 DEF Ledger
    <2> QED
      BY <2>1, <2>2
  <1>5. R \subseteq Numbered(b, c + 1)
    <2>1. b .. c - 1 \subseteq b .. (c + 1) - 1
      OBVIOUS
    <2> QED
      BY <2>1 DEF Ledger, Numbered
  <1>6. ASSUME NEW k \in DOMAIN Append(q, id) PROVE b <= P[Append(q, id)[k]]
    <2>1. \E j \in DOMAIN Append(q, id) : P[Append(q, id)[j]] = P[Append(q, id)[k]]
      OBVIOUS
    <2> QED
      BY <1>2, <2>1 DEF Ledger
  <1> QED
    BY <1>4, <1>5, <1>6 DEF Ledger

(* Every entry lies ahead of the playout position, by less than half the   *)
(* number space.                                                           *)
LEMMA HeldAhead ==
    ASSUME NEW P, Unwraps(P), TypeInv, NEW c \in Int, Sorted(P, c), NEW s \in DOMAIN buffer
    PROVE  /\ s \in Int /\ buffer[s].id \in Packets
           /\ P[buffer[s].id] \in Int /\ P[buffer[s].id] % SeqMod = s
           /\ Edge(c) <= P[buffer[s].id] /\ c <= P[buffer[s].id]
           /\ P[buffer[s].id] - c < Half
  <1>1. s \in Int /\ buffer[s].id \in Packets
    BY DEF TypeInv, JitterTypeOK, Positions
  <1>2. PICK x \in Int : x = P[buffer[s].id]
    BY <1>1 DEF Unwraps
  <1>3. x % SeqMod = s /\ Edge(c) <= x
    BY <1>1, <1>2 DEF Sorted, Unwraps
  <1>4. c <= x
    BY <1>3 DEF Edge
  <1>5. x - c < Half
    <2>1. buffer[s].id \in Recent
      BY DEF Recent
    <2>2. CASE out # <<>> /\ Edge(c) = P[Last] + 1
      <3>1. Last \in Recent /\ Last \in Packets
        <4>1. out \in Seq(Packets)
          BY DEF TypeInv, JitterTypeOK
        <4> QED
          BY <2>2, <4>1 DEF Recent, Last
      <3>2. P[Last] \in Int
        BY <3>1 DEF Unwraps
      <3>3. x - P[Last] < Half
        BY <1>2, <2>1, <3>1 DEF Sorted, Near
      <3>4. PICK l \in Int : l = P[Last]
        BY <3>2
      <3>5. Half \in Int
        BY Numbers
      <3>6. c = l \/ c = l + 1
        BY <2>2, <3>4 DEF Edge
      <3> QED
        BY <3>3, <3>4, <3>5, <3>6
    <2>3. CASE nextSeq \in DOMAIN buffer /\ c = P[buffer[nextSeq].id]
      <3>1. buffer[nextSeq].id \in Recent
        BY <2>3 DEF Recent
      <3> QED
        BY <1>2, <2>1, <2>3, <3>1 DEF Sorted, Near
    <2> QED
      BY <2>2, <2>3 DEF Sorted
  <1> QED
    BY <1>1, <1>2, <1>3, <1>4, <1>5

(* Jumping over a gap, from place c to the entry of the least place.       *)
LEMMA Jump ==
    ASSUME NEW P, Unwraps(P), NEW c \in Int, NEW b \in Int, NEW E, E \in DOMAIN buffer',
           \A s \in DOMAIN buffer' :
              /\ buffer'[s].id \in Packets /\ P[buffer'[s].id] \in Int
              /\ P[buffer'[s].id] % SeqMod = s
              /\ c <= P[buffer'[s].id] /\ P[buffer'[s].id] - c < Half
              /\ P[buffer'[E].id] <= P[buffer'[s].id],
           \A k \in DOMAIN out : P[out[k]] \in Int /\ P[out[k]] < c,
           \A j, k \in DOMAIN out : j < k => P[out[j]] < P[out[k]],
           (\A i, j \in Recent : Near(P, i, j))',
           DeclareGap(c % SeqMod, E), out' = out, phase' = "flush",
           Short(P) => /\ base' = b % SeqMod /\ b <= c /\ \E i \in Packets : b = P[i]
                       /\ Ledger(P, out, lost \cup skipped, b, c)
    PROVE  \E e \in Int : Sorted(P, e)' /\ (Short(P) => Accounts(P, e, b)')
  <1>1. PICK e \in Int : e = P[buffer'[E].id]
    OBVIOUS
  <1>2. e % SeqMod = E /\ c <= e /\ e - c < Half
    BY <1>1
  <1>3. e - c <= Half /\ Half < SeqMod /\ SeqMod \in Int /\ Half \in Int
    <2>1. Half \in Nat \ {0} /\ SeqMod = 2 * Half
      BY Numbers
    <2>2. Half < SeqMod /\ SeqMod \in Int /\ Half \in Int
      BY <2>1
    <2> QED
      BY <1>2, <2>2
  <1>4. nextSeq' = E /\ lost' \cup skipped' = lost \cup skipped \cup Numbered(c, e)
    BY <1>2, <1>3, GapExact
  <1>5. Edge(e)' = e /\ phase' # "output"
    BY DEF Edge
  <1>6. Sorted(P, e)'
    <2>1. \A s \in DOMAIN buffer' : Stream[buffer'[s].id] = s /\ e <= P[buffer'[s].id]
      BY <1>1 DEF Unwraps
    <2>2. \A k \in DOMAIN out' : P[out'[k]] < e
      BY <1>2
    <2>3. \A j, k \in DOMAIN out' : j < k => P[out'[j]] < P[out'[k]]
      OBVIOUS
    <2>4. e % SeqMod = nextSeq' /\ nextSeq' \in DOMAIN buffer' /\ e = P[buffer'[nextSeq'].id]
      BY <1>1, <1>2, <1>4
    <2> QED
      BY <1>5, <2>1, <2>2, <2>3, <2>4 DEF Sorted
  <1>7. ASSUME Short(P) PROVE Accounts(P, e, b)'
    <2>1. PICK i \in Packets : b = P[i]
      BY <1>7
    <2>2. e - b < SeqMod /\ b <= e /\ b <= c
      <3>1. P[buffer'[E].id] - P[i] < SeqMod - 1
        BY <1>7 DEF Short
      <3> QED
        BY <1>1, <1>2, <1>3, <1>7, <2>1, <3>1
    <2>3. Ledger(P, out, lost \cup skipped \cup Numbered(c, e), b, e)
      BY <1>2, <1>7, <2>2, LedgerGap
    <2>4. Ledger(P, out', lost' \cup skipped', b, e)
      BY <1>4, <2>3
    <2> QED
      BY <1>4, <1>5, <1>7, <2>1, <2>2, <2>4 DEF Accounts
  <1> QED
    BY <1>6, <1>7

(* Storing packet id when the playout is at place c: nothing buffered or   *)
(* pushed lies behind it.                                                  *)
LEMMA StorePlayout ==
    ASSUME NEW P, Unwraps(P), TypeInv, phase = "idle", NEW id \in Packets,
           NEW c \in Int, NEW b \in Int,
           \A s \in DOMAIN buffer :
              /\ Stream[buffer[s].id] = s /\ buffer[s].id \in Packets
              /\ c <= P[buffer[s].id] /\ P[buffer[s].id] - c < Half,
           c <= P[id], P[id] - c < Half,
           \A k \in DOMAIN out : P[out[k]] < c,
           \A j, k \in DOMAIN out : j < k => P[out[j]] < P[out[k]],
           \A i, j \in Recent \cup {id} : Near(P, i, j),
           \/ out # <<>> /\ c = P[Last] + 1
           \/ c % SeqMod \in DOMAIN buffer \cup {Stream[id]},
           Store(c % SeqMod, Stream[id], id), out' = out,
           Short(P) => /\ base' = b % SeqMod /\ b <= c /\ \E i \in Packets : b = P[i]
                       /\ Ledger(P, out, lost \cup skipped, b, c)
                       /\ out = <<>> => b = c /\ lost \cup skipped = {}
    PROVE  \E e \in Int : Sorted(P, e)' /\ (Short(P) => Accounts(P, e, b)')
  <1> DEFINE stored == [s \in DOMAIN buffer \cup {Stream[id]} |->
                           IF s = Stream[id] THEN [id |-> id, age |-> 0] ELSE buffer[s]]
             held   == IF Stream[id] \in DOMAIN buffer THEN count ELSE count + 1
  <1>1. buffer' = stored
    BY DEF Store
  <1>2. DOMAIN buffer' = DOMAIN buffer \cup {Stream[id]}
    BY <1>1
  <1>3. \A s \in DOMAIN buffer' : \/ s = Stream[id] /\ buffer'[s].id = id
                                  \/ s \in DOMAIN buffer /\ buffer'[s].id = buffer[s].id
    BY <1>1
  <1> HIDE DEF stored
  <1>4. \A i \in Packets : P[i] \in Int /\ P[i] % SeqMod = Stream[i]
    BY DEF Unwraps
  <1>5. \A s \in DOMAIN buffer' :
           /\ buffer'[s].id \in Packets /\ P[buffer'[s].id] \in Int
           /\ P[buffer'[s].id] % SeqMod = s
           /\ c <= P[buffer'[s].id] /\ P[buffer'[s].id] - c < Half
    BY <1>3, <1>4
  <1>6. \A k \in DOMAIN out : out[k] \in Packets /\ P[out[k]] \in Int
    <2>1. out \in Seq(Packets)
      BY DEF TypeInv, JitterTypeOK
    <2> QED
      BY <1>4, <2>1
  <1>7. (\A i, j \in Recent : Near(P, i, j))'
    <2>1. Recent' \subseteq Recent \cup {id}
      BY <1>3 DEF Recent, Last
    <2> QED
      BY <2>1 DEF Near
  <1>8. CASE /\ nextSeq' = c % SeqMod
             /\ UNCHANGED <<phase, emitted, lost, skipped>>
    <2>1. Edge(c)' = c /\ phase' # "output"
      BY <1>8 DEF Edge
    <2>2. \/ out' # <<>> /\ c = P[Last'] + 1
          \/ nextSeq' \in DOMAIN buffer' /\ c = P[buffer'[nextSeq'].id]
      <3>1. ASSUME c % SeqMod \in DOMAIN buffer' PROVE c = P[buffer'[c % SeqMod].id]
        <4>1. PICK x \in Int : x = P[buffer'[c % SeqMod].id]
          BY <1>5, <3>1
        <4>2. x % SeqMod = c % SeqMod /\ c <= x /\ x - c < Half
          BY <1>5, <3>1, <4>1
        <4>3. Half \in Int /\ SeqMod \in Int /\ Half < SeqMod /\ 0 < SeqMod
          BY HalfBelow
        <4>4. x - c < SeqMod /\ c - x < SeqMod
          BY <4>2, <4>3
        <4> QED
          BY <4>1, <4>2, <4>4, SamePosition
      <3> QED
        BY <1>2, <1>8, <3>1 DEF Last
    <2>3. Sorted(P, c)'
      <3>1. \A s \in DOMAIN buffer' : Stream[buffer'[s].id] = s /\ c <= P[buffer'[s].id]
        BY <1>4, <1>5
      <3> QED
        BY <1>7, <1>8, <2>1, <2>2, <3>1 DEF Sorted
    <2>4. Short(P) => Accounts(P, c, b)'
      BY <1>8, <2>1 DEF Accounts
    <2> QED
      BY <2>3, <2>4
  <1>9. CASE /\ DeclareGap(c % SeqMod, Earliest(stored, c % SeqMod))
             /\ phase' = "flush"
    <2> DEFINE Q == [s \in DOMAIN buffer' |-> P[buffer'[s].id]]
               E == Earliest(buffer', c % SeqMod)
    <2>1. DOMAIN buffer' \subseteq Int /\ DOMAIN buffer' # {}
      <3>1. DOMAIN buffer \subseteq Int
        BY DEF TypeInv, JitterInv
      <3>2. Stream[id] \in Positions
        BY Numbers
      <3> QED
        BY <1>2, <3>1, <3>2 DEF Positions
    <2>2. \A s \in DOMAIN buffer' :
              Q[s] \in Int /\ Q[s] % SeqMod = s /\ c <= Q[s] /\ Q[s] - c < SeqMod
      <3>1. Half < SeqMod /\ Half \in Int /\ SeqMod \in Int
        BY Numbers
      <3> QED
        BY <1>5, <3>1
    <2>3. E \in DOMAIN buffer' /\ \A t \in DOMAIN buffer' : Q[E] <= Q[t]
      <3> HIDE DEF Q
      <3> QED
        BY <2>1, <2>2, EarliestExact
    <2>4. \A t \in DOMAIN buffer' : P[buffer'[E].id] <= P[buffer'[t].id]
      BY <2>3
    <2>5. DeclareGap(c % SeqMod, E)
      BY <1>1, <1>9
    <2> HIDE DEF E, Q
    <2>6. \A s \in DOMAIN buffer' :
             /\ buffer'[s].id \in Packets /\ P[buffer'[s].id] \in Int
             /\ P[buffer'[s].id] % SeqMod = s
             /\ c <= P[buffer'[s].id] /\ P[buffer'[s].id] - c < Half
             /\ P[buffer'[E].id] <= P[buffer'[s].id]
      BY <1>5, <2>4
    <2>7. \A k \in DOMAIN out : P[out[k]] \in Int /\ P[out[k]] < c
      BY <1>6
    <2>8. E \in DOMAIN buffer' /\ phase' = "flush"
      BY <1>9, <2>3
    <2> QED
      BY <1>7, <2>5, <2>6, <2>7, <2>8, Jump
  <1> QED
    BY <1>8, <1>9 DEF Store, stored

(* A step that moves no packet and no position, at most the phase between  *)
(* idle and flush.                                                         *)
LEMMA FramePlayout ==
    ASSUME NEW P, PlayoutInv(P), TypeInv',
           UNCHANGED <<nextSeq, emittedAny, timer, base, out, lost, skipped>>,
           DOMAIN buffer' = DOMAIN buffer, \A s \in DOMAIN buffer : buffer'[s].id = buffer[s].id,
           phase' = phase \/ {phase, phase'} = {"idle", "flush"},
           emitted' = emitted \/ emitted' = 0,
           phase = "idle" /\ phase' # "idle" => emitted' = 0,
           nextSeq = NoSeq => phase' = "idle",
           out = <<>> /\ phase = "flush" /\ nextSeq \in DOMAIN buffer => phase' = "flush"
    PROVE  PlayoutInv(P)'
  <1>1. Recent' = Recent
    BY DEF Recent, Last
  <1>2. phase' = "output" <=> phase = "output"
    OBVIOUS
  <1>3. \A c : Edge(c)' = Edge(c)
    BY <1>2 DEF Edge
  <1>4. ASSUME NEW c, Sorted(P, c) PROVE Sorted(P, c)'
    <2>1. Last' = Last
      BY DEF Last
    <2>2. \A i, j \in Recent' : Near(P, i, j)'
      BY <1>1, <1>4 DEF Sorted, Near
    <2>3. nextSeq \in DOMAIN buffer => buffer'[nextSeq'].id = buffer[nextSeq].id
      OBVIOUS
    <2> QED
      BY <1>2, <1>3, <1>4, <2>1, <2>2, <2>3 DEF Sorted
  <1>5. ASSUME NEW c, NEW b, Accounts(P, c, b) PROVE Accounts(P, c, b)'
    <2>1. Edge(c)' = Edge(c)
      BY <1>3
    <2> QED
      BY <1>5, <2>1 DEF Accounts
  <1>6. emittedAny' <=> out' # <<>>
    BY DEF PlayoutInv
  <1>7. phase' # "idle" /\ out' = <<>> => emitted' = 0
    BY DEF PlayoutInv
  <1>8. phase' = "output" => out' # <<>>
    BY <1>2 DEF PlayoutInv
  <1>9. nextSeq' = NoSeq => /\ DOMAIN buffer' = {} /\ out' = <<>> /\ phase' = "idle"
                            /\ base' = NoSeq /\ lost' \cup skipped' = {}
    BY DEF PlayoutInv
  <1>10. nextSeq' # NoSeq => /\ base' # NoSeq
                             /\ \E c, b \in Int : Sorted(P, c)' /\ (Short(P) => Accounts(P, c, b)')
    BY <1>4, <1>5 DEF PlayoutInv
  <1> QED
    BY <1>6, <1>7, <1>8, <1>9, <1>10 DEF PlayoutInv

(* push sees how far a timely packet is ahead of the playout or behind it. *)
LEMMA BehindExact ==
    ASSUME NEW P, Unwraps(P), TypeInv, NEW c \in Int, Sorted(P, c), phase = "idle", timer,
           NEW id \in Packets, \A j \in Recent : Near(P, id, j)
    PROVE  /\ nextSeq # NoSeq /\ nextSeq \in Positions
           /\ P[id] \in Int /\ Stream[id] = P[id] % SeqMod
           /\ P[id] - c < Half /\ Behind(Stream[id]) = c - P[id]
  <1>1. nextSeq # NoSeq /\ nextSeq \in Positions /\ nextSeq = c % SeqMod
    <2>1. c % SeqMod \in Positions
      BY Numbers
    <2> QED
      BY <2>1 DEF Sorted, Positions, NoSeq
  <1>2. PICK x \in Int : x = P[id]
    BY DEF Unwraps
  <1>3. Stream[id] = x % SeqMod
    BY <1>2 DEF Unwraps
  <1>4. Half \in Int
    BY Numbers
  <1>5. x - c < Half /\ c - x <= Half
    <2>1. CASE out # <<>> /\ Edge(c) = P[Last] + 1
      <3>1. Last \in Recent /\ Last \in Packets
        <4>1. out \in Seq(Packets)
          BY DEF TypeInv, JitterTypeOK
        <4> QED
          BY <2>1, <4>1 DEF Recent, Last
      <3>2. PICK l \in Int : l = P[Last]
        BY <3>1 DEF Unwraps
      <3>3. x - l < Half /\ l - x < Half
        BY <1>2, <3>1, <3>2 DEF Near
      <3>4. c = l + 1
        BY <2>1, <3>2 DEF Edge
      <3> QED
        BY <1>4, <3>3, <3>4
    <2>2. CASE nextSeq \in DOMAIN buffer /\ c = P[buffer[nextSeq].id]
      <3>1. buffer[nextSeq].id \in Recent
        BY <2>2 DEF Recent
      <3>2. x - c < Half /\ c - x < Half
        BY <1>2, <2>2, <3>1 DEF Near
      <3> QED
        BY <1>4, <3>2
    <2> QED
      BY <2>1, <2>2 DEF Sorted
  <1>6. Behind(Stream[id]) = SeqDiff(c % SeqMod, x % SeqMod)
    BY <1>1, <1>3 DEF Behind, Playout
  <1>7. SeqDiff(c % SeqMod, x % SeqMod) = c - x
    BY <1>5, SeqDiffExact
  <1> QED
    BY <1>1, <1>2, <1>3, <1>5, <1>6, <1>7

(* The first packet sets the position.                                     *)
LEMMA FirstAhead == ASSUME TypeInv, nextSeq = NoSeq, NEW id \in Packets
                    PROVE  Playout(Stream[id]) = Stream[id] /\ Behind(Stream[id]) = 0
  <1>1. SeqMod \in Nat \ {0} /\ Half \in Nat
    BY Numbers
  <1>2. Stream[id] \in Positions
    BY Numbers
  <1>3. Stream[id] - Stream[id] = 0 /\ 0 % SeqMod = 0
    BY <1>1, <1>2 DEF Positions
  <1> QED
    BY <1>1, <1>3 DEF Playout, Behind, SeqDiff

(* push keeps the playout sorted and the account balanced (105-147).       *)
LEMMA PushPlayout ==
    ASSUME NEW P, Unwraps(P), PlayoutInv(P), TypeInv', phase = "idle", timer,
           NEW id \in Packets, Push(id), \A j \in Recent : Near(P, id, j)
    PROVE  PlayoutInv(P)'
  <1>1. TypeInv /\ JitterTypeOK /\ out \in Seq(Packets) /\ LateWindow \in Nat /\ NoSeq \notin Positions
    <2>1. LateWindow \in Nat /\ NoSeq \notin Positions
      BY Numbers DEF Positions, NoSeq
    <2> QED
      BY <2>1 DEF PlayoutInv, TypeInv, JitterTypeOK
  <1>2. Stream[id] = P[id] % SeqMod /\ P[id] \in Int /\ Stream[id] \in Positions
    BY Numbers DEF Unwraps
  <1>3. timer' = timer
    BY DEF Push, Arriving, settings
  <1>4. \A j \in Packets : P[j] \in Int
    BY DEF Unwraps
  <1>5. \A s \in DOMAIN buffer : buffer[s].id \in Packets /\ buffer[s].id \in Recent
    BY <1>1 DEF JitterTypeOK, Recent
  <1>6. Near(P, id, id) /\ \A i, j \in Packets : Near(P, i, j) <=> Near(P, j, i)
    BY <1>4, HalfBelow DEF Near
  <1>7. CASE PushTooOld(id) \/ PushLate(id)
    <2>1. Behind(Stream[id]) # 0
      BY <1>1, <1>7 DEF PushTooOld, PushLate
    <2>2. nextSeq # NoSeq
      BY <1>1, <2>1, FirstAhead
    <2>3. UNCHANGED <<buffer, nextSeq, emittedAny, timer, base, out, lost, skipped, phase, emitted>>
      BY <1>3, <1>7 DEF PushTooOld, PushLate, history
    <2> QED
      BY <2>2, <2>3, FramePlayout
  <1>8. CASE PushResync(id)
    <2>1. /\ DOMAIN buffer' = {Stream[id]} /\ buffer'[Stream[id]].id = id /\ nextSeq' = Stream[id]
          /\ ~ emittedAny' /\ base' = Stream[id] /\ out' = <<>> /\ lost' \cup skipped' = {}
          /\ phase' = "idle"
      BY <1>8 DEF PushResync
    <2>2. PICK c \in Int : c = P[id]
      BY <1>2
    <2>3. Edge(c)' = c
      BY <2>1 DEF Edge
    <2>4. DOMAIN (<<>>) = {}
      OBVIOUS
    <2>5. Sorted(P, c)'
      <3>1. \A s \in DOMAIN buffer' : Stream[buffer'[s].id] = s /\ c <= P[buffer'[s].id]
        BY <2>1, <2>2
      <3>2. Recent' = {id}
        BY <2>1 DEF Recent
      <3>3. \A i, j \in Recent' : Near(P, i, j)'
        BY <1>6, <3>2 DEF Near
      <3> QED
        BY <1>2, <2>1, <2>2, <2>3, <2>4, <3>1, <3>3 DEF Sorted
    <2>6. Accounts(P, c, c)'
      <3>1. Ledger(P, out', lost' \cup skipped', c, c)
        BY <2>1, <2>4 DEF Ledger
      <3> QED
        BY <1>2, <2>1, <2>2, <2>3, <3>1 DEF Accounts
    <2> QED
      BY <1>1, <1>2, <2>1, <2>5, <2>6 DEF PlayoutInv
  <1>9. ASSUME UNCHANGED <<emittedAny, out>>, base' # NoSeq,
               phase' = "idle" \/ (phase' = "flush" /\ emitted' = 0),
               NEW b \in Int, \E e \in Int : Sorted(P, e)' /\ (Short(P) => Accounts(P, e, b)')
        PROVE  PlayoutInv(P)'
    <2>1. PICK e \in Int : Sorted(P, e)' /\ (Short(P) => Accounts(P, e, b)')
      BY <1>9
    <2>2. nextSeq' # NoSeq
      <3>1. e % SeqMod = nextSeq' /\ e % SeqMod \in Positions
        BY <2>1, Numbers DEF Sorted
      <3> QED
        BY <1>1, <3>1
    <2>3. emittedAny' <=> out' # <<>>
      BY <1>9 DEF PlayoutInv
    <2> QED
      BY <1>9, <2>1, <2>2, <2>3 DEF PlayoutInv
  <1>10. ASSUME NEW n, Store(n, Stream[id], id)
         PROVE  phase' = "idle" \/ (phase' = "flush" /\ emitted' = 0)
    BY <1>10 DEF Store
  <1>11. nextSeq = NoSeq => DOMAIN buffer = {} /\ out = <<>> /\ base = NoSeq /\ lost \cup skipped = {}
    BY DEF PlayoutInv
  <1>12. ASSUME nextSeq # NoSeq
         PROVE  \E c, b \in Int : Sorted(P, c) /\ (Short(P) => Accounts(P, c, b))
    BY <1>12 DEF PlayoutInv
  <1>13. CASE PushRewind(id)
    <2>1. /\ Behind(Stream[id]) \in 1 .. LateWindow /\ ~ emittedAny /\ out' = out
          /\ base' = Stream[id] /\ Store(Stream[id], Stream[id], id) /\ emittedAny' = emittedAny
      BY <1>13 DEF PushRewind, MayRewind
    <2>2. nextSeq # NoSeq /\ out = <<>>
      <3>1. Behind(Stream[id]) # 0
        BY <1>1, <2>1
      <3> QED
        BY <1>1, <2>1, <3>1, FirstAhead DEF PlayoutInv
    <2>3. PICK c, b \in Int : Sorted(P, c) /\ (Short(P) => Accounts(P, c, b))
      BY <1>12, <2>2
    <2>4. Behind(Stream[id]) = c - P[id]
      BY <1>1, <2>3, BehindExact
    <2>5. PICK x \in Int : x = P[id]
      BY <1>2
    <2>6. x <= c
      BY <1>1, <2>1, <2>4, <2>5
    <2>7. \A s \in DOMAIN buffer :
             /\ Stream[buffer[s].id] = s /\ buffer[s].id \in Packets
             /\ x <= P[buffer[s].id] /\ P[buffer[s].id] - x < Half
      <3> SUFFICES ASSUME NEW s \in DOMAIN buffer
                   PROVE  /\ Stream[buffer[s].id] = s /\ buffer[s].id \in Packets
                          /\ x <= P[buffer[s].id] /\ P[buffer[s].id] - x < Half
        OBVIOUS
      <3>1. buffer[s].id \in Packets /\ c <= P[buffer[s].id]
        BY <1>1, <2>3, HeldAhead
      <3>2. Stream[buffer[s].id] = s
        BY <2>3 DEF Sorted
      <3>3. PICK y \in Int : y = P[buffer[s].id]
        BY <1>4, <3>1
      <3>4. y - x < Half
        BY <1>5, <2>5, <3>3 DEF Near
      <3> QED
        BY <2>6, <3>1, <3>2, <3>3, <3>4
    <2>8. \A i, j \in Recent \cup {id} : Near(P, i, j)
      <3>1. Recent \subseteq Packets
        BY <1>5, <2>2 DEF Recent
      <3> QED
        BY <1>6, <2>3, <3>1 DEF Sorted
    <2>9. Short(P) => /\ base' = x % SeqMod /\ \E i \in Packets : x = P[i]
                      /\ Ledger(P, out, lost \cup skipped, x, x) /\ lost \cup skipped = {}
      <3>1. Short(P) => lost \cup skipped = {}
        BY <2>2, <2>3 DEF Accounts
      <3>2. lost \cup skipped = {} => Ledger(P, out, lost \cup skipped, x, x)
        BY <2>2 DEF Ledger
      <3> QED
        BY <1>2, <2>1, <2>5, <3>1, <3>2
    <2>10. /\ \A k \in DOMAIN out : P[out[k]] < x
           /\ \A j, k \in DOMAIN out : j < k => P[out[j]] < P[out[k]]
      BY <2>2
    <2>11. /\ x <= P[id] /\ P[id] - x < Half /\ Store(x % SeqMod, Stream[id], id)
           /\ x % SeqMod \in DOMAIN buffer \cup {Stream[id]} /\ x <= x
      BY <1>2, <2>1, <2>5, HalfBelow
    <2>12. \E e \in Int : Sorted(P, e)' /\ (Short(P) => Accounts(P, e, x)')
      BY <1>1, <2>1, <2>7, <2>8, <2>9, <2>10, <2>11, StorePlayout
    <2>13. base' # NoSeq
      BY <1>1, <1>2, <2>1
    <2> QED
      BY <1>9, <1>10, <2>1, <2>12, <2>13
  <1>14. CASE PushAhead(id)
    <2>1. /\ Behind(Stream[id]) <= 0 /\ base' = NewBase(Stream[id])
          /\ Store(Playout(Stream[id]), Stream[id], id) /\ out' = out /\ emittedAny' = emittedAny
      BY <1>14 DEF PushAhead
    <2>2. base' # NoSeq
      BY <1>1, <1>2, <2>1 DEF NewBase
    <2>3. CASE nextSeq = NoSeq
      <3>1. PICK x \in Int : x = P[id]
        BY <1>2
      <3>2. \A i, j \in Recent \cup {id} : Near(P, i, j)
        BY <1>6, <1>11, <2>3 DEF Recent
      <3>3. Store(x % SeqMod, Stream[id], id) /\ base' = x % SeqMod
        <4>1. Playout(Stream[id]) = Stream[id]
          BY <1>1, <2>3, FirstAhead
        <4> QED
          BY <1>2, <1>11, <2>1, <2>3, <3>1, <4>1 DEF NewBase
      <3>4. DOMAIN buffer = {} /\ out = <<>> /\ DOMAIN out = {} /\ lost \cup skipped = {}
        BY <1>11, <2>3
      <3>5. Ledger(P, out, lost \cup skipped, x, x) /\ \E i \in Packets : x = P[i]
        BY <3>1, <3>4 DEF Ledger
      <3>6. x <= P[id] /\ P[id] - x < Half /\ x % SeqMod \in DOMAIN buffer \cup {Stream[id]} /\ x <= x
        BY <1>2, <3>1, HalfBelow
      <3>7. /\ \A s \in DOMAIN buffer :
                 /\ Stream[buffer[s].id] = s /\ buffer[s].id \in Packets
                 /\ x <= P[buffer[s].id] /\ P[buffer[s].id] - x < Half
            /\ \A k \in DOMAIN out : P[out[k]] < x
            /\ \A j, k \in DOMAIN out : j < k => P[out[j]] < P[out[k]]
        BY <3>4
      <3>8. \E e \in Int : Sorted(P, e)' /\ (Short(P) => Accounts(P, e, x)')
        BY <1>1, <2>1, <3>2, <3>3, <3>4, <3>5, <3>6, <3>7, StorePlayout
      <3> QED
        BY <1>9, <1>10, <2>1, <2>2, <3>8
    <2>4. CASE nextSeq # NoSeq
      <3>1. PICK c, b \in Int : Sorted(P, c) /\ (Short(P) => Accounts(P, c, b))
        BY <1>12, <2>4
      <3>2. Behind(Stream[id]) = c - P[id] /\ P[id] - c < Half
        BY <1>1, <3>1, BehindExact
      <3>3. c <= P[id]
        BY <1>2, <2>1, <3>2
      <3>4. Edge(c) = c
        BY DEF Edge
      <3>5. \A s \in DOMAIN buffer :
               /\ Stream[buffer[s].id] = s /\ buffer[s].id \in Packets
               /\ c <= P[buffer[s].id] /\ P[buffer[s].id] - c < Half
        <4> SUFFICES ASSUME NEW s \in DOMAIN buffer
                     PROVE  /\ Stream[buffer[s].id] = s /\ buffer[s].id \in Packets
                            /\ c <= P[buffer[s].id] /\ P[buffer[s].id] - c < Half
          OBVIOUS
        <4>1. Stream[buffer[s].id] = s
          BY <3>1 DEF Sorted
        <4> QED
          BY <1>1, <3>1, <4>1, HeldAhead
      <3>6. \A i, j \in Recent \cup {id} : Near(P, i, j)
        <4>1. Recent \subseteq Packets
          BY <1>1, <1>5 DEF Recent, Last
        <4> QED
          BY <1>6, <3>1, <4>1 DEF Sorted
      <3>7. /\ \A k \in DOMAIN out : P[out[k]] < c
            /\ \A j, k \in DOMAIN out : j < k => P[out[j]] < P[out[k]]
            /\ \/ out # <<>> /\ c = P[Last] + 1
               \/ c % SeqMod \in DOMAIN buffer \cup {Stream[id]}
        BY <3>1, <3>4 DEF Sorted
      <3>8. Store(c % SeqMod, Stream[id], id)
        BY <2>1, <2>4, <3>1 DEF Sorted, Playout
      <3>9. Short(P) => /\ base' = b % SeqMod /\ b <= c /\ \E i \in Packets : b = P[i]
                        /\ Ledger(P, out, lost \cup skipped, b, c)
                        /\ out = <<>> => b = c /\ lost \cup skipped = {}
        <4>1. base # NoSeq
          BY <2>4 DEF PlayoutInv
        <4> QED
          BY <2>1, <3>1, <3>4, <4>1 DEF Accounts, NewBase
      <3>10. \E e \in Int : Sorted(P, e)' /\ (Short(P) => Accounts(P, e, b)')
        BY <1>1, <2>1, <3>2, <3>3, <3>5, <3>6, <3>7, <3>8, <3>9, StorePlayout
      <3> QED
        BY <1>9, <1>10, <2>1, <2>2, <3>10
    <2> QED
      BY <2>3, <2>4
  <1> QED
    BY <1>7, <1>8, <1>13, <1>14 DEF Push

(* The packet at the playout position leaves the buffer (181-193).         *)
LEMMA EmitPlayout ==
    ASSUME NEW P, Unwraps(P), PlayoutInv(P), TypeInv', EmitBegin
    PROVE  PlayoutInv(P)'
  <1>1. TypeInv /\ out \in Seq(Packets) /\ NoSeq \notin Positions /\ DOMAIN buffer \subseteq Positions
    <2>1. NoSeq \notin Positions
      BY DEF Positions, NoSeq
    <2> QED
      BY <2>1 DEF PlayoutInv, TypeInv, JitterTypeOK
  <1>2. nextSeq \in DOMAIN buffer /\ nextSeq # NoSeq /\ phase = "flush"
    BY <1>1 DEF EmitBegin
  <1>3. PICK c, b \in Int : Sorted(P, c) /\ (Short(P) => Accounts(P, c, b))
    BY <1>2 DEF PlayoutInv
  <1> DEFINE id == buffer[nextSeq].id
  <1>4. /\ id \in Packets /\ P[id] \in Int /\ P[id] % SeqMod = nextSeq
        /\ c <= P[id] /\ P[id] - c < Half /\ c % SeqMod = nextSeq
    BY <1>1, <1>2, <1>3, HeldAhead DEF Sorted
  <1>5. P[id] = c
    <2>1. PICK x \in Int : x = P[id]
      BY <1>4
    <2>2. x - c < SeqMod /\ c - x < SeqMod
      BY <1>4, <2>1, HalfBelow
    <2> QED
      BY <1>4, <2>1, <2>2, SamePosition
  <1>6. /\ out' = Append(out, id) /\ DOMAIN buffer' = DOMAIN buffer \ {nextSeq}
        /\ \A s \in DOMAIN buffer' : buffer'[s] = buffer[s]
        /\ emittedAny' /\ phase' = "output"
        /\ UNCHANGED <<nextSeq, emitted, base, lost, skipped>>
    BY DEF EmitBegin
  <1>7. /\ \A s \in DOMAIN buffer : buffer[s].id \in Packets /\ buffer[s].id \in Recent
        /\ id \in Recent
    <2>1. \A s \in DOMAIN buffer : buffer[s].id \in Packets
      BY <1>1 DEF TypeInv, JitterTypeOK
    <2> QED
      BY <1>2, <2>1 DEF Recent
  <1> HIDE DEF id
  <1>8. Edge(c) = c /\ Edge(c)' = c + 1
    BY <1>2, <1>6 DEF Edge
  <1>9. /\ DOMAIN out = 1 .. Len(out) /\ Len(out) \in Nat
        /\ DOMAIN out' = 1 .. Len(out) + 1 /\ Len(out') = Len(out) + 1
        /\ \A k \in 1 .. Len(out) : out'[k] = out[k]
        /\ out'[Len(out) + 1] = id /\ out' # <<>>
    BY <1>1, <1>4, <1>6
  <1>10. Last' = id
    BY <1>9 DEF Last
  <1>11. Recent' \subseteq Recent
    BY <1>6, <1>7, <1>10 DEF Recent
  <1>12. \A k \in DOMAIN out : P[out[k]] \in Int /\ P[out[k]] < c
    <2>1. \A k \in DOMAIN out : out[k] \in Packets
      BY <1>1
    <2> QED
      BY <1>3, <1>8, <2>1 DEF Unwraps, Sorted
  <1>13. Sorted(P, c)'
    <2>1. \A s \in DOMAIN buffer' : Stream[buffer'[s].id] = s /\ c + 1 <= P[buffer'[s].id]
      <3> SUFFICES ASSUME NEW s \in DOMAIN buffer'
                   PROVE  Stream[buffer'[s].id] = s /\ c + 1 <= P[buffer'[s].id]
        OBVIOUS
      <3>1. s \in DOMAIN buffer /\ s # nextSeq /\ buffer'[s].id = buffer[s].id
        BY <1>6
      <3>2. /\ P[buffer[s].id] \in Int /\ P[buffer[s].id] % SeqMod = s /\ c <= P[buffer[s].id]
        BY <1>1, <1>3, <3>1, HeldAhead
      <3>3. P[buffer[s].id] # c
        BY <1>4, <3>1, <3>2
      <3>4. Stream[buffer[s].id] = s
        BY <1>3, <3>1 DEF Sorted
      <3> QED
        BY <3>1, <3>2, <3>3, <3>4
    <2>2. \A k \in DOMAIN out' : P[out'[k]] < c + 1
      <3> SUFFICES ASSUME NEW k \in 1 .. Len(out) + 1 PROVE P[out'[k]] < c + 1
        BY <1>9
      <3>1. CASE k \in 1 .. Len(out)
        BY <1>9, <1>12, <3>1
      <3>2. CASE k = Len(out) + 1
        BY <1>5, <1>9, <3>2
      <3> QED
        BY <1>9, <3>1, <3>2
    <2>3. \A j, k \in DOMAIN out' : j < k => P[out'[j]] < P[out'[k]]
      <3> SUFFICES ASSUME NEW j \in 1 .. Len(out) + 1, NEW k \in 1 .. Len(out) + 1, j < k
                   PROVE  P[out'[j]] < P[out'[k]]
        BY <1>9
      <3>1. j \in 1 .. Len(out) /\ out'[j] = out[j]
        BY <1>9
      <3>2. CASE k \in 1 .. Len(out)
        BY <1>3, <1>9, <3>1, <3>2 DEF Sorted
      <3>3. CASE k = Len(out) + 1
        BY <1>5, <1>9, <1>12, <3>1, <3>3
      <3> QED
        BY <1>9, <3>2, <3>3
    <2>4. \A i, j \in Recent' : Near(P, i, j)'
      BY <1>3, <1>11 DEF Sorted, Near
    <2>5. c % SeqMod = nextSeq' /\ out' # <<>> /\ c + 1 = P[Last'] + 1
      BY <1>4, <1>5, <1>6, <1>9, <1>10
    <2> QED
      BY <1>8, <2>1, <2>2, <2>3, <2>4, <2>5 DEF Sorted
  <1>14. ASSUME Short(P) PROVE Accounts(P, c, b)'
    <2>1. /\ b <= c /\ b % SeqMod = base /\ Ledger(P, out, lost \cup skipped, b, c)
      BY <1>3, <1>8, <1>14 DEF Accounts
    <2>2. PICK i \in Packets : b = P[i]
      BY <1>3, <1>14 DEF Accounts
    <2>3. c - b < SeqMod
      <3>1. c - b < SeqMod - 1
        BY <1>4, <1>5, <1>14, <2>2 DEF Short
      <3> QED
        BY <3>1, HalfBelow
    <2>4. Ledger(P, Append(out, id), lost \cup skipped, b, c + 1)
      BY <1>1, <1>4, <1>5, <1>12, <2>1, <2>3, LedgerPlay
    <2> QED
      BY <1>6, <1>8, <1>9, <2>1, <2>2, <2>4 DEF Accounts
  <1>15. base' # NoSeq
    BY <1>2, <1>6 DEF PlayoutInv
  <1> QED
    BY <1>2, <1>6, <1>9, <1>13, <1>14, <1>15 DEF PlayoutInv

(* The callback returns and the position moves on (194-196).               *)
LEMMA ReturnPlayout ==
    ASSUME NEW P, Unwraps(P), PlayoutInv(P), TypeInv', EmitEnd
    PROVE  PlayoutInv(P)'
  <1>1. /\ phase = "output" /\ phase' = "flush" /\ nextSeq' = (nextSeq + 1) % SeqMod
        /\ UNCHANGED <<buffer, emittedAny, base, out, lost, skipped>>
    BY DEF EmitEnd, history
  <1>2. nextSeq # NoSeq /\ out # <<>>
    BY <1>1 DEF PlayoutInv
  <1>3. PICK c, b \in Int : Sorted(P, c) /\ (Short(P) => Accounts(P, c, b))
    BY <1>2 DEF PlayoutInv
  <1>4. PICK e \in Int : e = c + 1
    OBVIOUS
  <1>5. Edge(c) = e /\ Edge(e)' = e
    BY <1>1, <1>4 DEF Edge
  <1>6. nextSeq' = e % SeqMod
    BY <1>1, <1>3, <1>4, ModSum DEF Sorted
  <1>7. nextSeq' # NoSeq
    <2>1. e % SeqMod \in Positions
      BY Numbers
    <2> QED
      BY <1>6, <2>1 DEF Positions, NoSeq
  <1>8. Last' = Last /\ Recent' = Recent
    BY <1>1 DEF Last, Recent
  <1>9. Sorted(P, e)'
    <2>1. \A i, j \in Recent' : Near(P, i, j)'
      BY <1>3, <1>8 DEF Sorted, Near
    <2>2. e = P[Last] + 1
      BY <1>1, <1>3, <1>5 DEF Sorted
    <2> QED
      BY <1>1, <1>2, <1>3, <1>5, <1>6, <1>8, <2>1, <2>2 DEF Sorted
  <1>10. ASSUME Short(P) PROVE Accounts(P, e, b)'
    <2>1. b <= e
      BY <1>3, <1>4, <1>10 DEF Accounts
    <2> QED
      BY <1>1, <1>2, <1>3, <1>5, <1>10, <2>1 DEF Accounts
  <1> QED
    BY <1>1, <1>2, <1>7, <1>9, <1>10 DEF PlayoutInv

(* A gap is declared and the playout jumps to the next entry (199-232).    *)
LEMMA SkipPlayout ==
    ASSUME NEW P, Unwraps(P), PlayoutInv(P), TypeInv', SkipGap
    PROVE  PlayoutInv(P)'
  <1>1. /\ phase = "flush" /\ nextSeq \notin DOMAIN buffer /\ count > 0
        /\ DeclareGap(nextSeq, NextAvailable)
        /\ UNCHANGED <<buffer, emittedAny, phase, emitted, base, out>>
    BY DEF SkipGap, WaitedEnough
  <1>2. nextSeq # NoSeq /\ TypeInv /\ base # NoSeq
    BY <1>1 DEF PlayoutInv
  <1>3. PICK c, b \in Int : Sorted(P, c) /\ (Short(P) => Accounts(P, c, b))
    BY <1>2 DEF PlayoutInv
  <1>4. Edge(c) = c /\ c % SeqMod = nextSeq
    BY <1>1, <1>3 DEF Edge, Sorted
  <1>5. DOMAIN buffer \subseteq Int /\ DOMAIN buffer # {}
    <2>1. Cardinality({}) = 0
      BY FS_EmptySet
    <2> QED
      BY <1>1, <1>2, <2>1 DEF TypeInv, JitterInv
  <1> DEFINE Q == [s \in DOMAIN buffer |-> P[buffer[s].id]]
             E == NextAvailable
  <1>6. \A s \in DOMAIN buffer :
           /\ buffer[s].id \in Packets /\ P[buffer[s].id] \in Int
           /\ P[buffer[s].id] % SeqMod = s
           /\ c <= P[buffer[s].id] /\ P[buffer[s].id] - c < Half
    BY <1>2, <1>3, HeldAhead
  <1>7. \A s \in DOMAIN buffer :
           Q[s] \in Int /\ Q[s] % SeqMod = s /\ c <= Q[s] /\ Q[s] - c < SeqMod
    BY <1>6, HalfBelow
  <1>8. E \in DOMAIN buffer /\ \A t \in DOMAIN buffer : Q[E] <= Q[t]
    <2> HIDE DEF Q
    <2> QED
      BY <1>1, <1>4, <1>5, <1>7, NextAvailableExact
  <1>9. \A t \in DOMAIN buffer : P[buffer[E].id] <= P[buffer[t].id]
    BY <1>8
  <1> HIDE DEF E, Q
  <1>10. \A s \in DOMAIN buffer' :
            /\ buffer'[s].id \in Packets /\ P[buffer'[s].id] \in Int
            /\ P[buffer'[s].id] % SeqMod = s
            /\ c <= P[buffer'[s].id] /\ P[buffer'[s].id] - c < Half
            /\ P[buffer'[E].id] <= P[buffer'[s].id]
    BY <1>1, <1>6, <1>9
  <1>11. \A k \in DOMAIN out : P[out[k]] \in Int /\ P[out[k]] < c
    <2>1. \A k \in DOMAIN out : out[k] \in Packets
      BY <1>2 DEF TypeInv, JitterTypeOK
    <2> QED
      BY <1>3, <1>4, <2>1 DEF Unwraps, Sorted
  <1>12. \A j, k \in DOMAIN out : j < k => P[out[j]] < P[out[k]]
    BY <1>3 DEF Sorted
  <1>13. (\A i, j \in Recent : Near(P, i, j))'
    <2>1. Recent' = Recent
      BY <1>1 DEF Recent, Last
    <2> QED
      BY <1>3, <2>1 DEF Sorted, Near
  <1>14. Short(P) => /\ base' = b % SeqMod /\ b <= c /\ \E i \in Packets : b = P[i]
                     /\ Ledger(P, out, lost \cup skipped, b, c)
    BY <1>1, <1>3, <1>4 DEF Accounts
  <1>15. DeclareGap(c % SeqMod, E) /\ E \in DOMAIN buffer' /\ phase' = "flush" /\ out' = out
    BY <1>1, <1>4, <1>8 DEF E
  <1>16. PICK e \in Int : Sorted(P, e)' /\ (Short(P) => Accounts(P, e, b)')
    BY <1>10, <1>11, <1>12, <1>13, <1>14, <1>15, Jump
  <1>17. nextSeq' # NoSeq
    <2>1. e % SeqMod = nextSeq' /\ e % SeqMod \in Positions
      BY <1>16, Numbers DEF Sorted
    <2> QED
      BY <2>1 DEF Positions, NoSeq
  <1> QED
    BY <1>1, <1>2, <1>16, <1>17 DEF PlayoutInv

(* close empties the buffer; the playout stays where it was (301-307).     *)
LEMMA ClosePlayout ==
    ASSUME NEW P, Unwraps(P), PlayoutInv(P), TypeInv', Close, Reentrant \subseteq {"close"}
    PROVE  PlayoutInv(P)'
  <1>1. /\ phase = "idle" \/ phase = "output"
        /\ ~ timer' /\ DOMAIN buffer' = {}
        /\ UNCHANGED <<nextSeq, emittedAny, phase, emitted, base, out, lost, skipped>>
    BY DEF Close, MayCall, history
  <1>2. CASE nextSeq = NoSeq
    BY <1>1, <1>2 DEF PlayoutInv
  <1>3. CASE nextSeq # NoSeq
    <2>1. PICK c, b \in Int : Sorted(P, c) /\ (Short(P) => Accounts(P, c, b))
      BY <1>3 DEF PlayoutInv
    <2>2. Edge(c)' = Edge(c) /\ Last' = Last
      BY <1>1 DEF Edge, Last
    <2>3. Recent' \subseteq Recent
      BY <1>1, <2>2 DEF Recent
    <2>4. nextSeq \in DOMAIN buffer => buffer[nextSeq].id \in Packets
      BY DEF PlayoutInv, TypeInv, JitterTypeOK
    <2>5. Sorted(P, c)'
      <3>1. \A i, j \in Recent' : Near(P, i, j)'
        BY <2>1, <2>3 DEF Sorted, Near
      <3> QED
        BY <1>1, <2>1, <2>2, <2>4, <3>1 DEF Sorted
    <2>6. ASSUME Short(P) PROVE Accounts(P, c, b)'
      BY <1>1, <2>1, <2>2, <2>6 DEF Accounts
    <2> QED
      BY <1>1, <1>3, <2>5, <2>6 DEF PlayoutInv
  <1> QED
    BY <1>2, <1>3

(* Every step, when the application makes no call but close from its       *)
(* callback: push and reset there leave nextSeq where the flush then moves *)
(* it on.                                                                  *)
LEMMA PlayoutStep ==
    ASSUME NEW P, Unwraps(P), Reentrant \subseteq {"close"},
           PlayoutInv(P), [JitterNext]_vars, [Timely(P)]_vars
    PROVE  PlayoutInv(P)'
  <1>1. TypeInv' /\ TypeInv
    BY TypeStep DEF PlayoutInv
  <1>2. CASE UNCHANGED vars
    <2>1. UNCHANGED <<buffer, nextSeq, emittedAny, timer, base, out, lost, skipped, phase, emitted>>
      BY <1>2 DEF vars, core, settings, history
    <2>2. nextSeq = NoSeq => phase' = "idle"
      BY <2>1 DEF PlayoutInv
    <2> QED
      BY <1>1, <2>1, <2>2, FramePlayout
  <1>3. ASSUME NEW id \in Packets, Push(id) PROVE PlayoutInv(P)'
    <2>1. phase = "idle"
      BY <1>3 DEF Push, Arriving
    <2>2. CASE UNCHANGED vars
      BY <1>2, <2>2
    <2>3. CASE Timely(P)
      <3>1. timer /\ \A j \in Recent : Near(P, id, j)
        BY <1>3, <2>3 DEF Timely
      <3> QED
        BY <1>1, <1>3, <2>1, <3>1, PushPlayout
    <2> QED
      BY <2>2, <2>3
  <1>4. ASSUME NEW id \in Packets, Lose(id) PROVE PlayoutInv(P)'
    <2>1. UNCHANGED <<buffer, nextSeq, emittedAny, timer, base, out, lost, skipped, phase, emitted>>
      BY <1>4 DEF Lose, core, settings, history
    <2>2. nextSeq = NoSeq => phase' = "idle"
      BY <2>1 DEF PlayoutInv
    <2> QED
      BY <1>1, <2>1, <2>2, FramePlayout
  <1>5. CASE FlushTimer
    <2>1. /\ UNCHANGED <<buffer, nextSeq, emittedAny, timer, base, out, lost, skipped>>
          /\ phase = "idle" /\ phase' = "flush" /\ emitted' = 0
          /\ nextSeq \in DOMAIN buffer \/ count > 0
      BY <1>5 DEF FlushTimer, WaitedEnough, core, settings, history
    <2>2. nextSeq # NoSeq
      <3>1. Cardinality({}) = 0
        BY FS_EmptySet
      <3> QED
        BY <1>1, <2>1, <3>1 DEF PlayoutInv, TypeInv, JitterInv
    <2> QED
      BY <1>1, <2>1, <2>2, FramePlayout
  <1>6. CASE EmitBegin
    BY <1>1, <1>6, EmitPlayout
  <1>7. CASE EmitEnd
    BY <1>1, <1>7, ReturnPlayout
  <1>8. CASE SkipGap
    BY <1>1, <1>8, SkipPlayout
  <1>9. CASE FlushEnd
    <2>1. /\ UNCHANGED <<buffer, nextSeq, emittedAny, timer, base, out, lost, skipped>>
          /\ phase = "flush" /\ phase' = "idle" /\ emitted' = 0
          /\ emitted >= MaxEmit \/ nextSeq \notin DOMAIN buffer
      BY <1>9 DEF FlushEnd, core, settings, history
    <2>2. ~ (out = <<>> /\ nextSeq \in DOMAIN buffer)
      <3>1. MaxEmit \in Nat /\ 0 < MaxEmit
        BY Numbers
      <3> QED
        BY <2>1, <3>1 DEF PlayoutInv
    <2> QED
      BY <1>1, <2>1, <2>2, FramePlayout
  <1>10. CASE Reset
    <2>1. /\ DOMAIN buffer' = {} /\ nextSeq' = NoSeq /\ ~ emittedAny' /\ base' = NoSeq
          /\ out' = <<>> /\ lost' \cup skipped' = {} /\ phase' = "idle"
      BY <1>10 DEF Reset, MayCall
    <2> QED
      BY <1>1, <2>1 DEF PlayoutInv
  <1>11. CASE Close
    BY <1>1, <1>11, ClosePlayout
  <1>12. ASSUME NEW ms, SetLatency(ms) \/ SetRtt(ms) PROVE PlayoutInv(P)'
    <2>1. UNCHANGED <<buffer, nextSeq, emittedAny, timer, base, out, lost, skipped, phase, emitted>>
      BY <1>12 DEF SetLatency, SetRtt, core, history
    <2>2. nextSeq = NoSeq => phase' = "idle"
      BY <2>1 DEF PlayoutInv
    <2> QED
      BY <1>1, <2>1, <2>2, FramePlayout
  <1>13. CASE Tick
    <2>1. /\ UNCHANGED <<nextSeq, emittedAny, timer, base, out, lost, skipped, phase, emitted>>
          /\ DOMAIN buffer' = DOMAIN buffer
      BY <1>13 DEF Tick, settings, history
    <2>2. \A s \in DOMAIN buffer : buffer'[s].id = buffer[s].id
      <3>1. \A s \in DOMAIN buffer : buffer[s] \in [id : Packets, age : 0 .. MaxAge]
        BY <1>1 DEF TypeInv, JitterTypeOK
      <3> QED
        BY <1>13, <3>1 DEF Tick
    <2>3. nextSeq = NoSeq => phase' = "idle"
      BY <2>1 DEF PlayoutInv
    <2> QED
      BY <1>1, <2>1, <2>2, <2>3, FramePlayout
  <1> QED
    BY <1>2, <1>3, <1>4, <1>5, <1>6, <1>7, <1>8, <1>9, <1>10, <1>11, <1>12, <1>13
    DEF JitterNext

LEMMA PlayoutAlways ==
    ASSUME NEW P, Unwraps(P), Reentrant \subseteq {"close"}
    PROVE  JitterSpec /\ [][Timely(P)]_vars => []PlayoutInv(P)
  <1>1. JitterInit /\ TypeInv => PlayoutInv(P)
    BY DEF JitterInit, PlayoutInv
  <1>2. PlayoutInv(P) /\ [JitterNext]_vars /\ [Timely(P)]_vars => PlayoutInv(P)'
    BY PlayoutStep
  <1> QED
    BY <1>1, <1>2, TypeAlways, PTL DEF JitterSpec

(* Packets numbered by one run of the sender leave in the order they were  *)
(* sent and none leaves twice, for every stream, capacity and sequence     *)
(* space, duplicates, rewinds, resyncs, forced flushes and wraparounds     *)
(* included (105-147, 175-245).  P says where the stream's numbers lie     *)
(* when they are not wrapped; a packet that is pushed must lie within half *)
(* the number space of what the buffer holds and emitted last, and the     *)
(* application may call close, not push or reset, from its callback.       *)
THEOREM PlayoutIsOrdered ==
    ASSUME NEW P, Unwraps(P), Reentrant \subseteq {"close"}
    PROVE  JitterSpec /\ [][Timely(P)]_vars => []Ordered
  <1>1. PlayoutInv(P) => Ordered
    <2> SUFFICES ASSUME PlayoutInv(P), NEW j \in DOMAIN out, NEW k \in DOMAIN out,
                        j < k, out[j] < Restart <=> out[k] < Restart
                 PROVE  out[j] < out[k]
      BY DEF Ordered
    <2>1. nextSeq # NoSeq
      <3>1. DOMAIN out # {} /\ DOMAIN (<<>>) = {}
        OBVIOUS
      <3> QED
        BY <3>1 DEF PlayoutInv
    <2>2. P[out[j]] < P[out[k]]
      BY <2>1 DEF PlayoutInv, Sorted
    <2>3. out[j] \in Packets /\ out[k] \in Packets
      BY DEF PlayoutInv, TypeInv, JitterTypeOK
    <2>4. P[out[j]] \in Int /\ P[out[k]] \in Int
      BY <2>3 DEF Unwraps
    <2>5. CASE out[k] < out[j]
      <3>1. P[out[k]] < P[out[j]]
        BY <2>3, <2>5 DEF Unwraps
      <3> QED
        BY <2>2, <2>4, <3>1
    <2>6. CASE out[k] = out[j]
      BY <2>2, <2>4, <2>6
    <2>7. out[j] \in Int /\ out[k] \in Int
      <3>1. Packets = 1 .. Len(Stream)
        BY JitterAssumption DEF Packets
      <3> QED
        BY <2>3, <3>1
    <2> QED
      BY <2>5, <2>6, <2>7
  <1> QED
    BY <1>1, PlayoutAlways, PTL

(* No entry is stranded behind the playout position, where no flush would  *)
(* reach it (140-143), under the same hypotheses.                          *)
THEOREM NoEntryIsStranded ==
    ASSUME NEW P, Unwraps(P), Reentrant \subseteq {"close"}
    PROVE  JitterSpec /\ [][Timely(P)]_vars => []NoneStranded
  <1>1. PlayoutInv(P) => NoneStranded
    <2> SUFFICES ASSUME PlayoutInv(P), NEW s \in DOMAIN buffer
                 PROVE  SeqDiff(s, nextSeq) >= (IF phase = "output" THEN 1 ELSE 0)
      BY DEF NoneStranded
    <2>1. PICK c \in Int : Sorted(P, c)
      BY DEF PlayoutInv
    <2>2. PICK x \in Int : x = P[buffer[s].id]
      BY <2>1, HeldAhead DEF PlayoutInv
    <2>3. x % SeqMod = s /\ Edge(c) <= x /\ c <= x /\ x - c < Half
      BY <2>1, <2>2, HeldAhead DEF PlayoutInv
    <2>4. SeqDiff(x % SeqMod, c % SeqMod) = x - c
      <3>1. x - c <= Half /\ c - x < Half
        BY <2>3, HalfBelow
      <3> QED
        BY <3>1, SeqDiffExact
    <2>5. SeqDiff(s, nextSeq) = x - c
      BY <2>1, <2>3, <2>4 DEF Sorted
    <2> QED
      BY <2>3, <2>5 DEF Edge
  <1> QED
    BY <1>1, PlayoutAlways, PTL

(* The account of an epoch balances: each position the playout has passed  *)
(* was emitted or reported and never both (214-232).  The account is kept  *)
(* by sequence number, so it is one of streams whose numbers do not repeat.*)
THEOREM EpochIsAccounted ==
    ASSUME NEW P, Unwraps(P), Short(P), Reentrant \subseteq {"close"}
    PROVE  JitterSpec /\ [][Timely(P)]_vars => []Accounted
  <1>1. PlayoutInv(P) => Accounted
    <2> DEFINE cursor   == IF phase = "output" THEN nextSeq + 1 ELSE nextSeq
               played   == {Stream[out[k]] : k \in DOMAIN out}
               reported == lost \cup skipped
    <2> SUFFICES ASSUME PlayoutInv(P), base # NoSeq
                 PROVE  /\ Run(base, (cursor - base) % SeqMod) = played \cup reported
                        /\ played \cap reported = {}
      BY DEF Accounted
    <2>1. PICK c, b \in Int : Sorted(P, c) /\ Accounts(P, c, b)
      BY DEF PlayoutInv
    <2>2. PICK x \in Int : x = Edge(c)
      BY DEF Edge
    <2>3. /\ b <= c /\ b % SeqMod = base /\ c % SeqMod = nextSeq
          /\ Ledger(P, out, reported, b, x)
      BY <2>1, <2>2 DEF Accounts, Sorted
    <2>4. \A k \in DOMAIN out : out[k] \in Packets
      BY DEF PlayoutInv, TypeInv, JitterTypeOK
    <2>5. \A k \in DOMAIN out :
             P[out[k]] \in b .. x - 1 /\ Stream[out[k]] = P[out[k]] % SeqMod
      <3> SUFFICES ASSUME NEW k \in DOMAIN out
                   PROVE  P[out[k]] \in b .. x - 1 /\ Stream[out[k]] = P[out[k]] % SeqMod
        OBVIOUS
      <3>1. PICK y \in Int : y = P[out[k]]
        BY <2>4 DEF Unwraps
      <3>2. b <= y /\ y < x
        BY <2>1, <2>2, <2>3, <3>1 DEF Ledger, Sorted
      <3>3. Stream[out[k]] = y % SeqMod
        BY <2>4, <3>1 DEF Unwraps
      <3> QED
        BY <3>1, <3>2, <3>3
    <2>6. x - b < SeqMod
      <3>1. PICK i \in Packets : b = P[i]
        BY <2>1 DEF Accounts
      <3>2. \A j \in Packets : P[j] \in Int /\ P[j] - b < SeqMod - 1
        BY <3>1 DEF Short, Unwraps
      <3>3. PICK j \in Packets : x = P[j] + 1 \/ x = P[j]
        <4>1. out # <<>> => Last \in Packets
          <5>1. out \in Seq(Packets)
            BY DEF PlayoutInv, TypeInv, JitterTypeOK
          <5> QED
            BY <5>1 DEF Last
        <4>2. nextSeq \in DOMAIN buffer => buffer[nextSeq].id \in Packets
          BY DEF PlayoutInv, TypeInv, JitterTypeOK
        <4>3. phase # "output" => x = c
          BY <2>2 DEF Edge
        <4> QED
          BY <2>1, <2>2, <4>1, <4>2, <4>3 DEF Sorted
      <3> QED
        BY <3>2, <3>3, HalfBelow
    <2>7. (cursor - base) % SeqMod = x - b
      <3>1. x = c \/ x = c + 1
        BY <2>2 DEF Edge
      <3>2. c - b < SeqMod
        BY <2>6, <3>1, HalfBelow
      <3>3. ((c % SeqMod) - (b % SeqMod)) % SeqMod = c - b
        BY <2>3, <3>2, AheadExact
      <3>4. PICK d \in Int : d = (c % SeqMod) - (b % SeqMod)
        <4>1. SeqMod \in Nat \ {0}
          BY Numbers
        <4>2. c % SeqMod \in Int /\ b % SeqMod \in Int
          BY <4>1
        <4> QED
          BY <4>2
      <3>5. CASE phase # "output"
        BY <2>2, <2>3, <3>3, <3>5 DEF Edge
      <3>6. CASE phase = "output"
        <4>1. x = c + 1 /\ cursor = nextSeq + 1
          BY <2>2, <3>6 DEF Edge
        <4>2. nextSeq \in Int /\ base \in Int /\ nextSeq - base = d
          BY <2>3, <3>4, HalfBelow
        <4>3. cursor - base = d + 1
          BY <4>1, <4>2
        <4>4. (d + 1) % SeqMod = ((c - b) + 1) % SeqMod
          BY <3>3, <3>4, ModSum
        <4>5. (c - b) + 1 = x - b /\ x - b \in 0 .. SeqMod - 1
          BY <2>3, <2>6, <4>1, HalfBelow
        <4>6. (x - b) % SeqMod = x - b
          BY <4>5, Numbers
        <4> HIDE DEF cursor
        <4> QED
          BY <4>3, <4>4, <4>5, <4>6
      <3> QED
        BY <3>5, <3>6
    <2>8. Run(base, (cursor - base) % SeqMod) = Numbered(b, x)
      <3>1. Run(b % SeqMod, x - b) = Numbered(b, b + (x - b))
        BY RunExact
      <3> QED
        BY <2>3, <2>7, <3>1
    <2> HIDE DEF cursor
    <2>9. Numbered(b, x) \subseteq played \cup reported
      <3> SUFFICES ASSUME NEW p \in b .. x - 1 PROVE p % SeqMod \in played \cup reported
        BY DEF Numbered
      <3> QED
        BY <2>3, <2>5 DEF Ledger
    <2>10. played \cup reported \subseteq Numbered(b, x)
      BY <2>3, <2>5 DEF Ledger, Numbered
    <2>11. played \cap reported = {}
      <3> SUFFICES ASSUME NEW k \in DOMAIN out, Stream[out[k]] \in reported PROVE FALSE
        OBVIOUS
      <3> QED
        BY <2>3, <2>5 DEF Ledger
    <2> QED
      BY <2>8, <2>9, <2>10, <2>11
  <1> QED
    BY <1>1, PlayoutAlways, PTL
=============================================================================
