----------------------------- MODULE SrtpProofs -----------------------------
(***************************************************************************)
(* Proofs about SrtpReceiver, for every size of the sequence space, every  *)
(* width of the replay bitmap and every bound; then about SrtpStream, for  *)
(* the same: the sender counts rollovers right as long as no late packet   *)
(* is protected across one, and the receiver keeps its promises in the     *)
(* composition.                                                            *)
(***************************************************************************)
EXTENDS SrtpStream, SrtpIndexProofs, TLAPS

(* The inductive invariant: NoReplay needs the bitmap to be exact.         *)
RecvInv == RecvTypeOK /\ WindowExact /\ NoReplay

(* An SSRC without an entry has delivered nothing (srtp.js:199).           *)
THEOREM RecvInitInv == RecvInit => RecvInv
  BY EmptySeen, ReceiverAssumption
  DEF RecvInit, RecvInv, RecvTypeOK, WindowExact, NoReplay, Index, NoIndex

(* decryptRtp preserves the invariant, whatever packet arrives             *)
(* (srtp.js:293-376, 639-659).                                             *)
THEOREM RecvStepInv == RecvInv /\ [RecvNext]_recvVars => RecvInv'
  <1> SUFFICES ASSUME RecvInv, [RecvNext]_recvVars PROVE RecvInv'
    OBVIOUS
  <1> USE DEF RecvInv
  <1>1. ASSUME NEW i \in Index, DecryptRtp(i, TRUE), Accepts(i) PROVE RecvInv'
    <2>1. /\ i \in Nat /\ Index \subseteq Nat
          /\ recvMax \in Nat \cup {NoIndex}
          /\ recvMax' = Larger(i, recvMax)
          /\ replay' = IF ReplayEnabled THEN ReplayMark(recvMax, replay, i) ELSE replay
          /\ ReplayEnabled => ReplayFresh(recvMax, replay, i)
          /\ deliveries[i] \in Nat /\ deliveries[i] < MaxDeliveries
          /\ deliveries' = [deliveries EXCEPT ![i] = @ + 1]
      BY <1>1, ReceiverAssumption DEF DecryptRtp, Accepts, RecvTypeOK, Index
    <2>2. RecvTypeOK'
      <3>1. recvMax' \in Index \cup {NoIndex}
        BY <2>1 DEF RecvTypeOK, Larger
      <3>2. replay' \in Bitmap
        BY <2>1, MarkWindow DEF RecvTypeOK
      <3>3. deliveries' \in [Index -> 0 .. MaxDeliveries]
        BY <2>1, ReceiverAssumption DEF RecvTypeOK
      <3> QED BY <3>1, <3>2, <3>3 DEF RecvTypeOK
    <2>3. ASSUME NEW j \in Index
          PROVE  deliveries'[j] = IF j = i THEN deliveries[i] + 1 ELSE deliveries[j]
      BY <2>1 DEF RecvTypeOK
    <2>4. ReplayEnabled => deliveries[i] = 0
      BY <2>1, WindowPositive DEF WindowExact, ReplayFresh, NoIndex, RecvTypeOK
    <2>5. NoReplay'
      BY <2>1, <2>3, <2>4 DEF NoReplay, RecvTypeOK
    <2>6. ASSUME NEW j \in Index, j > recvMax' PROVE deliveries'[j] = 0
      BY <2>1, <2>3, <2>6 DEF WindowExact, Larger, NoIndex
    <2>7. ASSUME ReplayEnabled, NEW j \in Index, recvMax' - Window < j, j <= recvMax'
          PROVE  Seen(replay', recvMax' - j) <=> deliveries'[j] > 0
      <3>1. recvMax' \in Nat /\ recvMax' - j \in 0 .. Window - 1
        BY <2>1, <2>7, WindowPositive DEF Larger, NoIndex
      <3>2. Seen(replay', recvMax' - j)
              <=> \/ j = i
                  \/ recvMax # NoIndex /\ j <= recvMax /\ Seen(replay, recvMax - j)
        <4>1. recvMax' - (recvMax' - j) = j
          BY <2>1, <3>1
        <4> QED BY <2>1, <2>7, <3>1, <4>1, MarkWindow DEF RecvTypeOK
      <3>3. j <= recvMax => recvMax - Window < j
        BY <2>1, <2>7, WindowPositive DEF Larger, NoIndex
      <3>4. deliveries[j] \in Nat
        BY ReceiverAssumption DEF RecvTypeOK
      <3>5. j <= recvMax => (Seen(replay, recvMax - j) <=> deliveries[j] > 0)
        BY <2>7, <3>3 DEF WindowExact
      <3>6. ~ (j <= recvMax) => deliveries[j] = 0
        BY <2>1 DEF WindowExact, NoIndex
      <3>7. j <= recvMax => recvMax # NoIndex
        BY <2>1 DEF NoIndex
      <3> QED BY <2>1, <2>3, <3>2, <3>4, <3>5, <3>6, <3>7
    <2>8. WindowExact'
      BY <2>6, <2>7 DEF WindowExact
    <2> QED BY <2>2, <2>5, <2>8
  <1>2. CASE UNCHANGED recvVars
    BY <1>2 DEF recvVars, RecvTypeOK, WindowExact, NoReplay
  <1>3. ASSUME NEW i \in Index, NEW intact \in BOOLEAN, DecryptRtp(i, intact) PROVE RecvInv'
    <2>1. (intact /\ Accepts(i)) \/ UNCHANGED recvVars
      BY <1>3 DEF DecryptRtp
    <2> QED BY <1>1, <1>2, <1>3, <2>1
  <1> QED BY <1>2, <1>3 DEF RecvNext

(* For every sequence space, window and bound: no index is handed to the   *)
(* application twice (the replay check of decryptRtp, srtp.js:365-373).    *)
THEOREM NeverReplayed == RecvSpec => []NoReplay
  <1>1. RecvInv => NoReplay
    BY DEF RecvInv
  <1> QED BY <1>1, RecvInitInv, RecvStepInv, PTL DEF RecvSpec

(* For every sequence space, window and bound: the bitmap and the highest  *)
(* index record exactly what was handed over (srtp.js:639-674).            *)
THEOREM WindowAlwaysExact == RecvSpec => [](RecvTypeOK /\ WindowExact)
  <1>1. RecvInv => RecvTypeOK /\ WindowExact
    BY DEF RecvInv
  <1> QED BY <1>1, RecvInitInv, RecvStepInv, PTL DEF RecvSpec

(* The state of the receiver has its type (srtp.js:191-203, 367).          *)
THEOREM ReceiverTypes == RecvSpec => []RecvTypeOK
  <1>1. RecvInv => RecvTypeOK
    BY DEF RecvInv
  <1> QED BY <1>1, RecvInitInv, RecvStepInv, PTL DEF RecvSpec

(* The receiver with replay protection implements the abstract filter.     *)
THEOREM ImplementsFilter == ReplayEnabled => (RecvSpec => FilterSpec)
  <1> SUFFICES ASSUME ReplayEnabled PROVE RecvSpec => FilterSpec
    OBVIOUS
  <1>1. RecvInit => Filter!Init
    BY DEF RecvInit, Filter!Init, NoIndex
  <1>2. RecvInv /\ [RecvNext]_recvVars => [Filter!Next]_(Filter!filterVars)
    <2> SUFFICES ASSUME RecvInv, [RecvNext]_recvVars
                 PROVE  [Filter!Next]_(Filter!filterVars)
      OBVIOUS
    <2>1. ASSUME NEW i \in Index, DecryptRtp(i, TRUE), Accepts(i) PROVE Filter!Deliver(i)
      <3>1. /\ i \in Nat /\ recvMax \in Nat \cup {NoIndex}
            /\ recvMax' = Larger(i, recvMax)
            /\ ReplayFresh(recvMax, replay, i)
            /\ deliveries' = [deliveries EXCEPT ![i] = @ + 1]
        BY <2>1, ReceiverAssumption DEF DecryptRtp, Accepts, RecvInv, RecvTypeOK, Index
      <3>2. deliveries[i] = 0
        BY <3>1, WindowPositive DEF RecvInv, WindowExact, ReplayFresh, NoIndex, RecvTypeOK
      <3>3. deliveries' = [deliveries EXCEPT ![i] = 1]
        BY <3>1, <3>2
      <3>4. i > recvMax - Window \/ recvMax = -1
        BY <3>1, WindowPositive DEF ReplayFresh, NoIndex
      <3>5. recvMax' = IF i > recvMax THEN i ELSE recvMax
        BY <3>1 DEF Larger, NoIndex
      <3> QED BY <3>2, <3>3, <3>4, <3>5 DEF Filter!Deliver
    <2>2. CASE UNCHANGED recvVars
      BY <2>2 DEF recvVars, Filter!filterVars
    <2>3. ASSUME NEW i \in Index, NEW intact \in BOOLEAN, DecryptRtp(i, intact)
          PROVE  Filter!Deliver(i) \/ UNCHANGED recvVars
      <3>1. (intact /\ Accepts(i)) \/ UNCHANGED recvVars
        BY <2>3 DEF DecryptRtp
      <3> QED BY <2>1, <2>3, <3>1
    <2> QED BY <2>2, <2>3 DEF RecvNext, Filter!Next
  <1> QED BY <1>1, <1>2, RecvInitInv, RecvStepInv, PTL DEF RecvSpec, FilterSpec, Filter!Spec

(* For every sequence space, window and bound: late and early packets that *)
(* straddle a wraparound are accepted (srtp.js:15-17).                     *)
THEOREM NeverFalselyRejected == RecvSpec => []NoFalseReject
  <1>1. RecvInv => NoFalseReject
    <2> SUFFICES ASSUME RecvInv, recvMax # NoIndex, NEW i \in Index,
                        Near(recvMax, i),
                        ReplayEnabled => recvMax - i < Window /\ deliveries[i] = 0
                 PROVE  Accepts(i)
      BY DEF NoFalseReject
    <2>1. recvMax \in Nat /\ i \in Nat /\ i < RocMod * SeqMod
      BY ReceiverAssumption, SrtpAssumption DEF RecvInv, RecvTypeOK, Index
    <2>2. GuessIndex(recvMax, SeqOf(i)) = i
      BY <2>1, GuessCorrect
    <2>3. ReplayEnabled => ReplayFresh(recvMax, replay, i)
      BY <2>1, WindowPositive DEF RecvInv, WindowExact, ReplayFresh
    <2> QED BY <2>2, <2>3 DEF Accepts
  <1> QED BY <1>1, RecvInitInv, RecvStepInv, PTL DEF RecvSpec

-----------------------------------------------------------------------------
Quarter == SeqMod \div 4

(* The thresholds of the code in quarters of the sequence space.           *)
LEMMA Quarters ==
    /\ SeqMod = 4 * Quarter /\ Quarter \in Nat \ {0}
    /\ Half = 2 * Quarter
    /\ WrapFloor = 3 * Quarter
  BY SrtpAssumption DEF Quarter, Half, WrapFloor

(* The sender's rollover counter is right for a packet a little ahead of   *)
(* the highest index, and for one a little behind it with the same counter.*)
LEMMA SenderCorrect ==
    ASSUME NEW max \in Nat, NEW n \in Nat, n < RocMod * SeqMod,
           \/ n > max /\ n - max < Quarter
           \/ n <= max /\ max - n < Quarter /\ RocOf(n) = RocOf(max)
    PROVE  SenderIndex(max, SeqOf(n)) = n
  <1> DEFINE R == RocOf(max)
             L == SeqOf(max)
             r == RocOf(n)
             s == SeqOf(n)
  <1>1. SeqMod \in Nat \ {0} /\ RocMod \in Nat \ {0}
    BY SrtpAssumption
  <1>2. /\ max = SeqMod * R + L /\ L \in 0 .. SeqMod - 1 /\ R \in Nat
        /\ n = SeqMod * r + s /\ s \in 0 .. SeqMod - 1 /\ r \in Nat
    BY IndexSplit
  <1>3. SenderIndex(max, s) = SenderRoc(max, s) * SeqMod + s
    BY DEF SenderIndex
  <1>4. SenderRoc(max, s) = IF s < Half /\ L > WrapFloor THEN (R + 1) % RocMod ELSE R
    BY DEF SenderRoc, NoIndex, R, L
  <1>5. (n > max /\ n - max < Quarter) \/ (n <= max /\ max - n < Quarter /\ r = R)
    OBVIOUS
  <1> HIDE DEF R, L, r, s
  <1>6. r < RocMod
    <2>1. CASE r >= RocMod
      <3>1. SeqMod * r >= SeqMod * RocMod
        BY <2>1, <1>1, <1>2
      <3> QED BY <3>1, <1>1, <1>2
    <2> QED BY <2>1, <1>1, <1>2
  <1>7. PICK k \in Int : k = r - R
    BY <1>2
  <1>8. n - max = SeqMod * k + (s - L)
    BY <1>1, <1>2, <1>7
  <1>9. /\ k >= 1 => SeqMod * k >= SeqMod
        /\ k >= 2 => SeqMod * k >= 2 * SeqMod
        /\ k <= -1 => SeqMod * k <= -SeqMod
    BY <1>1
  <1>10. SenderRoc(max, s) = r
    <2>1. CASE s < Half /\ L > WrapFloor
      <3>1. k = 1
        BY <2>1, <1>1, <1>2, <1>5, <1>7, <1>8, <1>9, Quarters
      <3>2. (R + 1) % RocMod = R + 1
        BY <3>1, <1>1, <1>2, <1>6, <1>7
      <3> QED BY <3>1, <3>2, <2>1, <1>2, <1>4, <1>7
    <2>2. CASE ~ (s < Half /\ L > WrapFloor)
      <3>1. k = 0
        BY <2>2, <1>1, <1>2, <1>5, <1>7, <1>8, <1>9, Quarters
      <3> QED BY <3>1, <2>2, <1>2, <1>4, <1>7
    <2> QED BY <2>1, <2>2
  <1> QED BY <1>1, <1>2, <1>3, <1>10 DEF s

SyncInv ==
    /\ sendMax \in Index \cup {NoIndex}
    /\ wire \subseteq Packet
    /\ SenderInSync

(* One call of encryptRtp keeps the sender in sync (srtp.js:230-245).      *)
LEMMA SyncStep ==
    ~ LateOverWrap => (SyncInv /\ [StreamNext]_streamVars => SyncInv')
  <1> SUFFICES ASSUME ~ LateOverWrap, SyncInv, [StreamNext]_streamVars PROVE SyncInv'
    OBVIOUS
  <1> USE DEF SyncInv
  <1>1. ASSUME NEW n \in Index, EncryptRtp(n) PROVE SyncInv'
    <2>1. n \in Nat /\ n < RocMod * SeqMod /\ Index \subseteq Nat
      BY ReceiverAssumption, SrtpAssumption DEF Index
    <2>2. SenderIndex(sendMax, SeqOf(n)) = n
      <3>1. CASE sendMax = NoIndex
        <4>1. n = Start
          BY <3>1, <1>1 DEF EncryptRtp, MayProtect, SenderInSync
        <4>2. SeqOf(n) = n
          BY <4>1, StreamAssumption, SrtpAssumption DEF SeqOf
        <4> QED BY <3>1, <4>2, <2>1, SrtpAssumption DEF SenderIndex, SenderRoc
      <3>2. CASE sendMax # NoIndex
        <4>1. sendMax \in Nat /\ sendMax = appHigh /\ appHigh # NoIndex
          BY <3>2, <2>1 DEF SenderInSync
        <4>2. \/ n > sendMax /\ n - sendMax < Quarter
              \/ n <= sendMax /\ sendMax - n < Quarter /\ RocOf(n) = RocOf(sendMax)
          BY <4>1, <2>1, <1>1, StreamAssumption, Quarters
          DEF EncryptRtp, MayProtect, Quarter
        <4> QED BY <4>1, <4>2, <2>1, SenderCorrect
      <3> QED BY <3>1, <3>2
    <2>3. /\ sendMax' = Larger(n, sendMax)
          /\ appHigh' = Larger(n, appHigh)
          /\ wire' = wire \cup {[n |-> n, idx |-> n]}
      BY <1>1, <2>2 DEF EncryptRtp
    <2>4. [n |-> n, idx |-> n] \in Packet
      BY DEF Packet
    <2>5. sendMax' \in Index \cup {NoIndex}
      BY <2>3 DEF Larger
    <2>6. SenderInSync'
      BY <2>3 DEF SenderInSync
    <2> QED BY <2>3, <2>4, <2>5, <2>6
  <1>2. ASSUME NEW p \in wire, NEW intact \in BOOLEAN, Arrive(p, intact) PROVE SyncInv'
    BY <1>2 DEF Arrive, SenderInSync
  <1>3. CASE UNCHANGED streamVars
    BY <1>3 DEF streamVars, SenderInSync
  <1> QED BY <1>1, <1>2, <1>3 DEF StreamNext

(* For every sequence space: encryptRtp recovers the number the            *)
(* application meant from 16 bits, as long as no late packet is protected  *)
(* across a wraparound (srtp.js:230-245).                                  *)
THEOREM SenderStaysInSync == ~ LateOverWrap => (StreamSpec => []SenderInSync)
  <1> SUFFICES ASSUME ~ LateOverWrap PROVE StreamSpec => []SenderInSync
    OBVIOUS
  <1>1. StreamInit => SyncInv
    BY DEF StreamInit, SyncInv, SenderInSync
  <1>2. SyncInv /\ [StreamNext]_streamVars => SyncInv'
    BY SyncStep
  <1>3. SyncInv => SenderInSync
    BY DEF SyncInv
  <1> QED BY <1>1, <1>2, <1>3, PTL DEF StreamSpec

(* Whatever number is protected, the packet has a legal index.             *)
PacketInv ==
    /\ sendMax \in Index \cup {NoIndex} /\ appHigh \in Index \cup {NoIndex}
    /\ wire \subseteq Packet

(* What is on the wire was protected with an index in range.               *)
LEMMA PacketStep == PacketInv /\ [StreamNext]_streamVars => PacketInv'
  <1> SUFFICES ASSUME PacketInv, [StreamNext]_streamVars PROVE PacketInv'
    OBVIOUS
  <1> USE DEF PacketInv
  <1>1. ASSUME NEW n \in Index, EncryptRtp(n) PROVE PacketInv'
    <2> DEFINE index == SenderIndex(sendMax, SeqOf(n))
    <2>1. index \in Nat
      <3>1. SeqMod \in Nat \ {0} /\ RocMod \in Nat \ {0} /\ n \in Nat
        BY SrtpAssumption, ReceiverAssumption DEF Index
      <3>2. SeqOf(n) \in Nat
        BY <3>1, IndexSplit, SrtpAssumption
      <3>3. SenderRoc(sendMax, SeqOf(n)) \in Nat
        <4>1. CASE sendMax = NoIndex
          BY <4>1 DEF SenderRoc
        <4>2. CASE sendMax \in Nat
          <5>1. RocOf(sendMax) \in Nat
            BY <4>2, IndexSplit
          <5>2. (RocOf(sendMax) + 1) % RocMod \in Nat
            BY <5>1, <3>1
          <5> QED BY <5>1, <5>2 DEF SenderRoc
        <4> QED BY <4>1, <4>2, ReceiverAssumption DEF Index
      <3>4. ASSUME NEW c \in Nat, NEW s \in Nat PROVE c * SeqMod + s \in Nat
        BY <3>1
      <3> QED BY <3>2, <3>3, <3>4 DEF SenderIndex
    <2>2. /\ index <= MaxIndex
          /\ sendMax' = Larger(index, sendMax) /\ appHigh' = Larger(n, appHigh)
          /\ wire' = wire \cup {[n |-> n, idx |-> index]}
      BY <1>1 DEF EncryptRtp
    <2> HIDE DEF index
    <2>3. index \in Index
      BY <2>1, <2>2, ReceiverAssumption DEF Index
    <2> QED BY <2>2, <2>3 DEF Larger, Packet
  <1>2. ASSUME NEW p \in wire, NEW intact \in BOOLEAN, Arrive(p, intact) PROVE PacketInv'
    BY <1>2 DEF Arrive
  <1>3. CASE UNCHANGED streamVars
    BY <1>3 DEF streamVars
  <1> QED BY <1>1, <1>2, <1>3 DEF StreamNext

(* The stream's receiver is a SrtpReceiver, whatever the sender and the    *)
(* network do, so its promises hold in the composition.                    *)
THEOREM StreamHasReceiver == StreamSpec => RecvSpec
  <1>1. StreamInit => RecvInit /\ PacketInv
    BY DEF StreamInit, PacketInv
  <1>2. PacketInv /\ [StreamNext]_streamVars => [RecvNext]_recvVars
    <2> SUFFICES ASSUME PacketInv, [StreamNext]_streamVars PROVE [RecvNext]_recvVars
      OBVIOUS
    <2>1. ASSUME NEW n \in Index, EncryptRtp(n) PROVE UNCHANGED recvVars
      BY <2>1 DEF EncryptRtp
    <2>2. ASSUME NEW p \in wire, NEW intact \in BOOLEAN, Arrive(p, intact) PROVE RecvNext
      BY <2>2 DEF Arrive, RecvNext, PacketInv, Packet
    <2>3. CASE UNCHANGED streamVars
      BY <2>3 DEF streamVars, recvVars
    <2> QED BY <2>1, <2>2, <2>3 DEF StreamNext
  <1> QED BY <1>1, <1>2, PacketStep, PTL DEF StreamSpec, RecvSpec

(* No index is handed over twice in the composition: what the sender and   *)
(* the network do cannot defeat the replay check (srtp.js:365-373).        *)
THEOREM StreamNeverReplays == StreamSpec => []NoReplay
  BY StreamHasReceiver, NeverReplayed, PTL

(* The state of the composition has its type, whether or not the sender    *)
(* counts rollovers right (srtp.js:230-245).                               *)
THEOREM StreamTypes == StreamSpec => []StreamTypeOK
  <1>1. StreamInit => PacketInv
    BY DEF StreamInit, PacketInv
  <1>2. PacketInv /\ RecvTypeOK => StreamTypeOK
    BY DEF PacketInv, StreamTypeOK
  <1> QED
    BY <1>1, <1>2, PacketStep, StreamHasReceiver, ReceiverTypes, PTL DEF StreamSpec

(* For every sequence space and window: the receiver derives for a packet  *)
(* of its window the index the sender protected it with, on either side of *)
(* a wraparound, as long as the sender does not protect late packets       *)
(* across one (srtp.js:15, 306-319).                                       *)
THEOREM LateStraddlersDecrypt == ~ LateOverWrap => (StreamSpec => []LateStraddleDecrypts)
  <1> SUFFICES ASSUME ~ LateOverWrap PROVE StreamSpec => []LateStraddleDecrypts
    OBVIOUS
  <1>1. StreamInit => PacketInv
    BY DEF StreamInit, PacketInv
  <1>2. PacketInv /\ RecvTypeOK /\ SenderInSync => LateStraddleDecrypts
    <2> SUFFICES ASSUME PacketInv, RecvTypeOK, SenderInSync, recvMax # NoIndex, NEW p \in wire,
                        p.n <= recvMax, recvMax - p.n < Window
                 PROVE  GuessIndex(recvMax, SeqOf(p.n)) = p.idx
      BY DEF LateStraddleDecrypts
    <2>1. p.n \in Index /\ p.idx = p.n /\ recvMax \in Index
      BY DEF PacketInv, RecvTypeOK, Packet, SenderInSync
    <2>2. p.n \in Nat /\ p.n < RocMod * SeqMod /\ recvMax \in Nat
      BY <2>1, ReceiverAssumption, SrtpAssumption DEF Index
    <2>3. Window <= Half /\ Half \in Nat \ {0} /\ Window \in Nat
      BY SrtpAssumption DEF Window, Half
    <2>4. Near(recvMax, p.n)
      BY <2>2, <2>3 DEF Near
    <2> QED
      BY <2>1, <2>2, <2>4, GuessCorrect
  <1> QED
    BY <1>1, <1>2, PacketStep, StreamHasReceiver, ReceiverTypes, SenderStaysInSync, PTL
    DEF StreamSpec
=============================================================================
