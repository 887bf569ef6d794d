------------------------- MODULE ControlPathProofs -------------------------
(***************************************************************************)
(* Proofs about ControlPath for every session: any media, any reports, any *)
(* number of SSRCs and any way of counting them, any window, whatever the  *)
(* network loses, reorders and repeats.  First what the sender acts on in  *)
(* SRTCP, then what the receiver reads in media, renumbered, sent again or *)
(* not, and last when a packet is sent again.                              *)
(***************************************************************************)
EXTENDS ControlPath, WireProofs

I == INSTANCE SrtpIndexProofs

(* What a counter of SRTCP and a datagram on its way carry is an index.    *)
Indexed ==
    /\ \A key \in DOMAIN srtcp : srtcp[key] \in Nat
    /\ Reported => \A m \in rtcp : m.index \in Nat

(* A window shows exactly which of the last indices of its SSRC were acted *)
(* on, and its highest is the highest of them.                             *)
Tracks(ssrc, w, keys) ==
    /\ w.maxIndex \in Nat \cup {P!NoIndex} /\ w.replay \in P!Bitmap
    /\ w.maxIndex = P!NoIndex \/ <<ssrc, w.maxIndex>> \in keys
    /\ \A k \in keys : k[1] = ssrc => k[2] <= w.maxIndex
    /\ \A d \in 0 .. P!Window - 1 :
          w.maxIndex - d \in Nat => (P!Seen(w.replay, d) <=> <<ssrc, w.maxIndex - d>> \in keys)

WindowsExact == counting.replay =>
    /\ \A k \in acted : k = <<k[1], k[2]>> /\ k[2] \in Nat /\ k[1] \in DOMAIN windows
    /\ \A ssrc \in DOMAIN windows : Tracks(ssrc, windows[ssrc], acted)

FeedbackInv == Indexed /\ WindowsExact /\ FeedbackOnce

-----------------------------------------------------------------------------
(* The arithmetic of SrtcpSession is the one the lemmas of SrtpIndexProofs *)
(* are about.                                                              *)
LEMMA SameArithmetic ==
    /\ P!NoIndex = I!NoIndex /\ P!Bitmap = I!Bitmap /\ P!Window = I!Window /\ P!EmptyBitmap = I!EmptyBitmap
    /\ \A a, b : P!Larger(a, b) = I!Larger(a, b)
    /\ \A bm, d : P!Seen(bm, d) = I!Seen(bm, d)
    /\ \A max, bm, i : P!ReplayFresh(max, bm, i) = I!ReplayFresh(max, bm, i)
    /\ \A max, bm, i : P!ReplayMark(max, bm, i) = I!ReplayMark(max, bm, i)
  <1>1. P!NoIndex = I!NoIndex /\ P!Bitmap = I!Bitmap /\ P!Window = I!Window /\ P!EmptyBitmap = I!EmptyBitmap
    BY DEF P!NoIndex, I!NoIndex, P!Bitmap, I!Bitmap, P!Bits, I!Bits, P!Window, I!Window,
           P!EmptyBitmap, I!EmptyBitmap
  <1>2. \A a, b : P!Larger(a, b) = I!Larger(a, b)
    BY DEF P!Larger, I!Larger
  <1>3. \A bm, d : P!Seen(bm, d) = I!Seen(bm, d)
    BY DEF P!Seen, I!Seen
  <1>4. \A max, bm, i : P!ReplayFresh(max, bm, i) = I!ReplayFresh(max, bm, i)
    BY <1>1, <1>3 DEF P!ReplayFresh, I!ReplayFresh
  <1>5. \A bm, n : P!ShiftLeft(bm, n) = I!ShiftLeft(bm, n)
    BY DEF P!ShiftLeft, I!ShiftLeft, P!Window, I!Window, P!EmptyBitmap, I!EmptyBitmap, P!Bits, I!Bits
  <1>6. \A bm, d : P!Mark(bm, d) = I!Mark(bm, d)
    BY DEF P!Mark, I!Mark
  <1>7. \A max, bm, i : P!ReplayMark(max, bm, i) = I!ReplayMark(max, bm, i)
    BY <1>1, <1>5, <1>6 DEF P!ReplayMark, I!ReplayMark
  <1> QED BY <1>1, <1>2, <1>3, <1>4, <1>7

(* What the lemmas of SrtpIndexProofs say of SrtcpSession's windows.       *)
LEMMA WindowFacts ==
    /\ P!Window \in Nat \ {0} /\ P!EmptyBitmap \in P!Bitmap
    /\ \A d \in 0 .. P!Window - 1 : ~ P!Seen(P!EmptyBitmap, d)
    /\ \A max \in Nat \cup {P!NoIndex}, bm \in P!Bitmap, i \in Nat :
          P!ReplayFresh(max, bm, i) =>
             /\ P!ReplayMark(max, bm, i) \in P!Bitmap
             /\ \A d \in 0 .. P!Window - 1 :
                   P!Seen(P!ReplayMark(max, bm, i), d)
                     <=> \/ P!Larger(i, max) - d = i
                         \/ /\ max # P!NoIndex
                            /\ P!Larger(i, max) - d <= max
                            /\ P!Seen(bm, max - (P!Larger(i, max) - d))
  <1>1. I!SrtpAssumption
    BY ControlAssumption DEF P!SrtpAssumption, I!SrtpAssumption
  <1>2. I!Window \in Nat \ {0}
    BY <1>1, I!WindowPositive
  <1>3. I!EmptyBitmap \in I!Bitmap /\ \A d \in 0 .. I!Window - 1 : ~ I!Seen(I!EmptyBitmap, d)
    BY <1>1, I!EmptySeen
  <1>4. ASSUME NEW max \in Nat \cup {I!NoIndex}, NEW bm \in I!Bitmap, NEW i \in Nat, I!ReplayFresh(max, bm, i)
        PROVE  /\ I!ReplayMark(max, bm, i) \in I!Bitmap
               /\ \A d \in 0 .. I!Window - 1 :
                     I!Seen(I!ReplayMark(max, bm, i), d)
                       <=> \/ I!Larger(i, max) - d = i
                           \/ /\ max # I!NoIndex
                              /\ I!Larger(i, max) - d <= max
                              /\ I!Seen(bm, max - (I!Larger(i, max) - d))
    BY <1>1, <1>4, I!MarkWindow
  <1> QED BY <1>2, <1>3, <1>4, SameArithmetic

-----------------------------------------------------------------------------
(* An SSRC of which nothing was acted on has an empty window               *)
(* (srtp.js:530-531).                                                      *)
LEMMA EmptyTracks ==
    ASSUME NEW ssrc, NEW keys, \A k \in keys : k[1] # ssrc
    PROVE  Tracks(ssrc, [maxIndex |-> P!NoIndex, replay |-> P!EmptyBitmap], keys)
  <1>1. <<ssrc, P!NoIndex>> \notin keys
    OBVIOUS
  <1>2. ASSUME NEW d \in 0 .. P!Window - 1 PROVE P!NoIndex - d \notin Nat
    BY WindowFacts DEF P!NoIndex
  <1> QED BY <1>1, <1>2, WindowFacts DEF Tracks

(* An index that is fresh was not acted on, and when it is recorded the    *)
(* window shows it besides what it showed (srtp.js:639-659).               *)
LEMMA FreshTracks ==
    ASSUME NEW ssrc, NEW w, NEW keys, Tracks(ssrc, w, keys), NEW i \in Nat,
           \A k \in keys : k = <<k[1], k[2]>> /\ k[2] \in Nat,
           P!ReplayFresh(w.maxIndex, w.replay, i)
    PROVE  /\ <<ssrc, i>> \notin keys
           /\ Tracks(ssrc, [maxIndex |-> P!Larger(w.maxIndex, i), replay |-> P!ReplayMark(w.maxIndex, w.replay, i)],
                     keys \cup {<<ssrc, i>>})
  <1> DEFINE max == w.maxIndex
             bm  == w.replay
             new == P!Larger(max, i)
             rep == P!ReplayMark(max, bm, i)
             all == keys \cup {<<ssrc, i>>}
  <1>1. /\ max \in Nat \cup {P!NoIndex} /\ bm \in P!Bitmap /\ P!ReplayFresh(max, bm, i)
        /\ max = P!NoIndex \/ <<ssrc, max>> \in keys
    BY DEF Tracks
  <1>2. ASSUME NEW j \in Nat, <<ssrc, j>> \in keys PROVE max \in Nat /\ j <= max
    BY <1>1, <1>2 DEF Tracks, P!NoIndex
  <1>3. ASSUME NEW d \in 0 .. P!Window - 1, max - d \in Nat
        PROVE  P!Seen(bm, d) <=> <<ssrc, max - d>> \in keys
    BY <1>3 DEF Tracks
  <1>4. /\ new \in Nat /\ new >= i /\ new >= max /\ (new = i \/ new = max) /\ P!Larger(i, max) = new
        /\ max = P!NoIndex => new = i
    BY <1>1 DEF P!Larger, P!NoIndex
  <1>5. /\ rep \in P!Bitmap
        /\ \A d \in 0 .. P!Window - 1 :
              P!Seen(rep, d) <=> \/ new - d = i
                                 \/ max # P!NoIndex /\ new - d <= max /\ P!Seen(bm, max - (new - d))
    BY <1>1, <1>4, WindowFacts
  <1>6. <<ssrc, i>> \notin keys
    <2> SUFFICES ASSUME <<ssrc, i>> \in keys PROVE FALSE
      OBVIOUS
    <2>1. max \in Nat /\ i <= max
      BY <1>2
    <2>2. max - i \in 0 .. P!Window - 1 /\ ~ P!Seen(bm, max - i)
      BY <1>1, <2>1 DEF P!ReplayFresh, P!NoIndex
    <2>3. max - (max - i) = i
      BY <2>1
    <2> QED BY <1>3, <2>2, <2>3
  <1>7. <<ssrc, new>> \in all
    BY <1>1, <1>4
  <1>8. \A k \in all : k[1] = ssrc => k[2] <= new
    <2> SUFFICES ASSUME NEW k \in keys, k[1] = ssrc PROVE k[2] <= new
      BY <1>4
    <2>1. k[2] \in Nat /\ <<ssrc, k[2]>> \in keys
      OBVIOUS
    <2>2. max \in Nat /\ k[2] <= max
      BY <2>1, <1>2
    <2> QED BY <1>4, <2>1, <2>2
  <1>9. ASSUME NEW d \in 0 .. P!Window - 1, new - d \in Nat
        PROVE  P!Seen(rep, d) <=> <<ssrc, new - d>> \in all
    <2>1. PICK j \in Nat : j = new - d
      BY <1>9
    <2>2. P!Seen(rep, d) <=> j = i \/ (max # P!NoIndex /\ j <= max /\ P!Seen(bm, max - j))
      BY <1>5, <2>1
    <2>3. ASSUME max \in Nat, j <= max PROVE P!Seen(bm, max - j) <=> <<ssrc, j>> \in keys
      <3>1. max - j \in 0 .. P!Window - 1 /\ max - (max - j) = j
        BY <1>4, <2>1, <2>3, WindowFacts
      <3> QED BY <3>1, <1>3
    <2>4. <<ssrc, j>> \in keys => max \in Nat /\ j <= max
      BY <1>2
    <2>5. max \in Nat => max # P!NoIndex
      BY DEF P!NoIndex
    <2>6. <<ssrc, j>> \in all <=> j = i \/ <<ssrc, j>> \in keys
      OBVIOUS
    <2> QED BY <1>1, <2>1, <2>2, <2>3, <2>4, <2>5, <2>6
  <1> HIDE DEF new, rep, all
  <1>10. Tracks(ssrc, [maxIndex |-> new, replay |-> rep], all)
    BY <1>4, <1>5, <1>7, <1>8, <1>9 DEF Tracks
  <1> QED BY <1>6, <1>10 DEF new, rep, all

(* An index that is not fresh was acted on, or is a whole window behind.   *)
LEMMA StaleIsOld ==
    ASSUME NEW ssrc, NEW w, NEW keys, Tracks(ssrc, w, keys), NEW i \in Nat,
           ~ P!ReplayFresh(w.maxIndex, w.replay, i), <<ssrc, i>> \notin keys
    PROVE  w.maxIndex \in Nat /\ w.maxIndex - i >= P!Window
  <1>1. w.maxIndex \in Nat /\ i <= w.maxIndex
    BY DEF Tracks, P!ReplayFresh
  <1>2. CASE w.maxIndex - i < P!Window
    <2>1. w.maxIndex - i \in 0 .. P!Window - 1 /\ w.maxIndex - (w.maxIndex - i) = i
      BY <1>1, <1>2, WindowFacts
    <2>2. P!Seen(w.replay, w.maxIndex - i)
      BY <2>1 DEF P!ReplayFresh
    <2> QED BY <2>1, <2>2 DEF Tracks
  <1> QED BY <1>1, <1>2, WindowFacts

(* The highest of a window is the newest index of its SSRC acted on.       *)
LEMMA NewestIsHighest ==
    ASSUME NEW ssrc, NEW w, Tracks(ssrc, w, acted), w.maxIndex \in Nat,
           \A k \in acted : k = <<k[1], k[2]>> /\ k[2] \in Nat
    PROVE  Newest(ssrc) = w.maxIndex
  <1> DEFINE all == {k[2] : k \in {a \in acted : a[1] = ssrc}} \cup {-1}
             max == w.maxIndex
  <1>1. max \in all
    <2>1. <<ssrc, max>> \in acted
      BY DEF Tracks, P!NoIndex
    <2> QED BY <2>1
  <1>2. \A x \in all : x \in Int /\ x <= max
    BY DEF Tracks
  <1>3. Newest(ssrc) = CHOOSE x \in all : \A y \in all : x >= y
    BY DEF Newest, F!Max
  <1> HIDE DEF all, max
  <1>4. max \in Nat
    BY DEF max
  <1>5. ASSUME NEW x \in all, \A y \in all : x >= y PROVE x = max
    BY <1>1, <1>2, <1>4, <1>5
  <1>6. \A y \in all : max >= y
    BY <1>2, <1>4
  <1>7. (CHOOSE x \in all : \A y \in all : x >= y) = max
    BY <1>1, <1>5, <1>6
  <1> QED BY <1>3, <1>7 DEF max

-----------------------------------------------------------------------------
(* A new session has no counters, no windows and no messages.              *)
LEMMA FeedbackInit == PathInit => FeedbackInv
  <1> SUFFICES ASSUME PathInit PROVE FeedbackInv
    OBVIOUS
  <1>1. DOMAIN srtcp = {} /\ DOMAIN windows = {} /\ rtcp = {} /\ acted = {} /\ refused = {} /\ twice = FALSE
    BY DEF PathInit, P!NoSsrcs
  <1>2. Indexed
    BY <1>1 DEF Indexed
  <1>3. WindowsExact
    BY <1>1 DEF WindowsExact
  <1>4. FeedbackOnce
    BY <1>1 DEF FeedbackOnce
  <1> QED BY <1>2, <1>3, <1>4 DEF FeedbackInv

(* encryptRtcp counts on in the natural numbers, under whatever key the    *)
(* peer counts (srtp.js:388-437).                                          *)
LEMMA ProtectedIndexed ==
    ASSUME Indexed, NEW words, NEW says, NEW e
    PROVE  /\ Protected(words, says, e).msg.index \in Nat
           /\ \A key \in DOMAIN Protected(words, says, e).next : Protected(words, says, e).next[key] \in Nat
  <1> DEFINE key   == IF counting.by = "session" THEN 0 ELSE P!SsrcOf(words)
             index == IF key \in DOMAIN srtcp THEN srtcp[key] ELSE 0
  <1>1. index \in Nat
    BY DEF Indexed
  <1>2. P!EncryptRtcp(index, words).pkt.index = index /\ P!EncryptRtcp(index, words).next = (index + 1) % SrtcpMod
    BY DEF P!EncryptRtcp
  <1>3. (index + 1) % SrtcpMod \in Nat
    BY <1>1, ControlAssumption DEF P!SrtcpAssumption
  <1>4. /\ Protected(words, says, e).msg.index = P!EncryptRtcp(index, words).pkt.index
        /\ Protected(words, says, e).next = P!Put(srtcp, key, P!EncryptRtcp(index, words).next)
    BY DEF Protected
  <1> HIDE DEF key, index
  <1> QED BY <1>1, <1>2, <1>3, <1>4 DEF P!Put, Indexed

(* A step that leaves windows and history alone leaves them exact.         *)
LEMMA WindowsUnchanged ==
    ASSUME WindowsExact, FeedbackOnce, UNCHANGED <<counting, windows, acted, refused>>, twice' <=> twice
    PROVE  WindowsExact' /\ FeedbackOnce'
  BY DEF WindowsExact, FeedbackOnce, Tracks

(* A datagram arrives at a session without replay protection, which keeps  *)
(* no windows and turns nothing away (srtp.js:529).                        *)
LEMMA OnRtcpUnguarded ==
    ASSUME FeedbackInv, ~counting.replay, NEW m \in rtcp, NEW stays \in BOOLEAN, OnRtcp(m, stays)
    PROVE  FeedbackInv'
  <1> DEFINE d == P!DecryptRtcp(windows, m, counting.gcm, counting.replay)
  <1>1. /\ Reported /\ rtcp' \subseteq rtcp /\ UNCHANGED <<srtcp, mode, counting>>
        /\ refused' = IF d.ok \/ <<m.ssrc, m.index>> \in acted \/ (counting.gcm /\ ~m.e) THEN refused
                      ELSE refused \cup {Newest(m.ssrc) - m.index}
    BY DEF OnRtcp, Key
  <1>2. d.ok \/ (counting.gcm /\ ~m.e)
    BY DEF P!DecryptRtcp, P!SrtcpReplay
  <1> HIDE DEF d
  <1>3. Indexed'
    BY <1>1 DEF FeedbackInv, Indexed, Reported
  <1>4. UNCHANGED <<counting, refused>>
    BY <1>1, <1>2, Zenon
  <1> QED BY <1>3, <1>4 DEF FeedbackInv, WindowsExact, FeedbackOnce

(* A datagram arrives (srtp.js:444-533).                                   *)
LEMMA OnRtcpInv ==
    ASSUME FeedbackInv, counting.replay, NEW m \in rtcp, NEW stays \in BOOLEAN, OnRtcp(m, stays)
    PROVE  FeedbackInv'
  <1> DEFINE d == P!DecryptRtcp(windows, m, counting.gcm, counting.replay)
             w == P!WindowOf(windows, m.ssrc)
             v == [maxIndex |-> P!Larger(w.maxIndex, m.index), replay |-> P!ReplayMark(w.maxIndex, w.replay, m.index)]
  <1>1. /\ Reported /\ m.index \in Nat
        /\ rtcp' \subseteq rtcp /\ UNCHANGED <<srtcp, mode, counting>>
        /\ windows' = d.st
        /\ acted' = IF d.ok THEN acted \cup {<<m.ssrc, m.index>>} ELSE acted
        /\ twice' = (twice \/ (d.ok /\ <<m.ssrc, m.index>> \in acted))
        /\ refused' = IF d.ok \/ <<m.ssrc, m.index>> \in acted \/ (counting.gcm /\ ~m.e) THEN refused
                      ELSE refused \cup {Newest(m.ssrc) - m.index}
    BY DEF OnRtcp, Key, FeedbackInv, Indexed
  <1>2. Indexed'
    BY <1>1 DEF FeedbackInv, Indexed, Reported
  <1>3. /\ \A k \in acted : k = <<k[1], k[2]>> /\ k[2] \in Nat /\ k[1] \in DOMAIN windows
        /\ \A ssrc \in DOMAIN windows : Tracks(ssrc, windows[ssrc], acted)
    BY DEF FeedbackInv, WindowsExact
  <1>8. UNCHANGED counting
    BY DEF OnRtcp
  <1>9. ASSUME twice' <=> twice, \A behind \in refused' : behind >= P!Window PROVE FeedbackOnce'
    <2>1. ~twice
      BY DEF FeedbackInv, FeedbackOnce
    <2>2. P!Window' = P!Window
      BY DEF P!Window
    <2> QED BY <1>8, <1>9, <2>1, <2>2 DEF FeedbackOnce
  <1>4. Tracks(m.ssrc, w, acted)
    <2>1. CASE m.ssrc \in DOMAIN windows
      BY <1>3, <2>1 DEF P!WindowOf
    <2>2. CASE m.ssrc \notin DOMAIN windows
      <3>1. w = [maxIndex |-> P!NoIndex, replay |-> P!EmptyBitmap]
        BY <2>2 DEF P!WindowOf
      <3> QED BY <3>1, <2>2, <1>3, EmptyTracks
    <2> QED BY <2>1, <2>2
  <1>5. CASE counting.gcm /\ ~m.e
    <2>1. d.ok = FALSE /\ d.st = windows
      BY <1>5 DEF P!DecryptRtcp
    <2>2. UNCHANGED <<windows, acted, refused>> /\ (twice' <=> twice)
      BY <1>1, <1>5, <2>1, Zenon
    <2> QED BY <1>2, <1>8, <2>2, WindowsUnchanged DEF FeedbackInv
  <1>6. CASE ~ (counting.gcm /\ ~m.e) /\ P!ReplayFresh(w.maxIndex, w.replay, m.index)
    <2>1. d.ok = TRUE /\ d.st = P!Put(windows, m.ssrc, v)
      BY <1>6 DEF P!DecryptRtcp, P!SrtcpReplay
    <2>2. <<m.ssrc, m.index>> \notin acted /\ Tracks(m.ssrc, v, acted \cup {<<m.ssrc, m.index>>})
      BY <1>1, <1>3, <1>4, <1>6, FreshTracks, Zenon
    <2> HIDE DEF d, v, w
    <2>3. /\ acted' = acted \cup {<<m.ssrc, m.index>>} /\ UNCHANGED refused /\ (twice' <=> twice)
          /\ DOMAIN windows' = DOMAIN windows \cup {m.ssrc}
          /\ \A ssrc \in DOMAIN windows' : windows'[ssrc] = IF ssrc = m.ssrc THEN v ELSE windows[ssrc]
      BY <1>1, <2>1, <2>2, Zenon DEF P!Put
    <2>4. ASSUME NEW ssrc \in DOMAIN windows' PROVE Tracks(ssrc, windows'[ssrc], acted')
      <3>1. CASE ssrc = m.ssrc
        BY <2>2, <2>3, <3>1
      <3>2. CASE ssrc # m.ssrc
        <4>1. Tracks(ssrc, windows[ssrc], acted) /\ windows'[ssrc] = windows[ssrc]
          BY <1>3, <2>3, <3>2
        <4>2. \A k : k \in acted' /\ k[1] = ssrc => k \in acted
          BY <2>3, <3>2
        <4>3. \A j : <<ssrc, j>> \in acted' <=> <<ssrc, j>> \in acted
          BY <2>3, <3>2
        <4> QED BY <4>1, <4>2, <4>3 DEF Tracks
      <3> QED BY <3>1, <3>2
    <2>5. \A k \in acted' : k = <<k[1], k[2]>> /\ k[2] \in Nat /\ k[1] \in DOMAIN windows'
      BY <1>1, <1>3, <2>3
    <2>6. FeedbackOnce'
      <3>1. \A behind \in refused' : behind >= P!Window
        BY <2>3 DEF FeedbackInv, FeedbackOnce
      <3> QED BY <1>9, <2>3, <3>1
    <2> QED BY <1>2, <2>4, <2>5, <2>6 DEF FeedbackInv, WindowsExact
  <1>7. CASE ~ (counting.gcm /\ ~m.e) /\ ~ P!ReplayFresh(w.maxIndex, w.replay, m.index)
    <2>1. d.ok = FALSE /\ d.st = P!Put(windows, m.ssrc, w)
      BY <1>7 DEF P!DecryptRtcp, P!SrtcpReplay
    <2> HIDE DEF d
    <2>2. /\ UNCHANGED acted /\ (twice' <=> twice)
          /\ DOMAIN windows' = DOMAIN windows \cup {m.ssrc}
          /\ \A ssrc \in DOMAIN windows' : windows'[ssrc] = IF ssrc = m.ssrc THEN w ELSE windows[ssrc]
      BY <1>1, <2>1, Zenon DEF P!Put
    <2>3. WindowsExact'
      BY <1>3, <1>4, <2>2 DEF WindowsExact
    <2>4. \A behind \in refused' : behind >= P!Window
      <3>1. CASE <<m.ssrc, m.index>> \in acted
        BY <1>1, <3>1 DEF FeedbackInv, FeedbackOnce
      <3>2. CASE <<m.ssrc, m.index>> \notin acted
        <4>1. w.maxIndex \in Nat /\ w.maxIndex - m.index >= P!Window
          BY <1>1, <1>4, <1>7, <3>2, StaleIsOld
        <4>2. Newest(m.ssrc) = w.maxIndex
          BY <1>3, <1>4, <4>1, NewestIsHighest
        <4> QED BY <1>1, <4>1, <4>2 DEF FeedbackInv, FeedbackOnce
      <3> QED BY <3>1, <3>2
    <2>5. FeedbackOnce'
      BY <1>9, <2>2, <2>4
    <2> QED BY <1>2, <2>3, <2>5 DEF FeedbackInv
  <1> QED BY <1>5, <1>6, <1>7

(* What every other step does to the counters, the messages and windows.   *)
LEMMA Bystanders ==
    ASSUME FeedbackInv, UNCHANGED <<mode, counting, srtcp, windows, acted, twice, refused>>,
           Reported => rtcp' \subseteq rtcp
    PROVE  FeedbackInv'
  <1>1. Indexed'
    BY DEF FeedbackInv, Indexed, Reported
  <1> QED BY <1>1, WindowsUnchanged DEF FeedbackInv

(* A peer that sends one datagram more numbers it naturally.               *)
LEMMA Speaking ==
    ASSUME FeedbackInv, NEW words, NEW says, NEW e, UNCHANGED <<mode, counting, windows, acted, twice, refused>>,
           rtcp' = rtcp \cup {Protected(words, says, e).msg}, srtcp' = Protected(words, says, e).next
    PROVE  FeedbackInv'
  <1>1. Indexed'
    BY ProtectedIndexed DEF FeedbackInv, Indexed, Reported
  <1> QED BY <1>1, WindowsUnchanged DEF FeedbackInv

(* Asking is for a session with something missing: it has no SRTCP.        *)
LEMMA AskingIsRecovery ==
    ASSUME NEW m \in Nacks, Ask(m)
    PROVE  ~ Reported
  <1>1. PICK ns \in (SUBSET (1 .. MostNumbers)) \ {{}} : m = NackFor(ns)
    BY DEF Nacks
  <1>2. m.says[1].lost = {SeqNo(n) : n \in ns} /\ m.says[1].lost \subseteq {SeqNo(n) : n \in Missing}
    BY <1>1 DEF NackFor, Ask
  <1>3. Missing # {}
    <2>1. PICK n : n \in ns
      BY <1>1
    <2>2. SeqNo(n) \in {SeqNo(k) : k \in Missing}
      BY <1>2, <2>1
    <2> QED BY <2>2
  <1> QED BY <1>3 DEF Missing, Reported

(* Every step keeps the windows exact.                                     *)
LEMMA FeedbackStep == FeedbackInv /\ [Next]_pathVars => FeedbackInv'
  <1> SUFFICES ASSUME FeedbackInv, [Next]_pathVars PROVE FeedbackInv'
    OBVIOUS
  <1>1. ASSUME NEW ssrc \in Ssrcs, Send(ssrc) PROVE FeedbackInv'
    BY <1>1, Bystanders DEF Send
  <1>2. CASE Probe
    BY <1>2, Bystanders DEF Probe, recoveryVars, reportVars
  <1>3. ASSUME NEW pkt \in rtp, NEW stays \in BOOLEAN, Hear(pkt, stays) PROVE FeedbackInv'
    BY <1>3, Bystanders DEF Hear
  <1>4. ASSUME NEW m \in Nacks \ rtcp, Ask(m) PROVE FeedbackInv'
    <2>1. UNCHANGED <<mode, counting, srtcp, windows, acted, twice, refused>>
      BY <1>4 DEF Ask, reportVars
    <2> QED BY <1>4, <2>1, AskingIsRecovery, Bystanders
  <1>5. ASSUME NEW m \in rtcp, NEW sweep \in BOOLEAN, OnNack(m, sweep) PROVE FeedbackInv'
    BY <1>5, Bystanders DEF OnNack, reportVars
  <1>6. CASE Tick
    BY <1>6, Bystanders DEF Tick, reportVars
  <1>7. CASE Stop
    BY <1>7, Bystanders DEF Stop, reportVars
  <1>8. CASE Lose
    BY <1>8, Bystanders DEF Lose, reportVars
  <1>9. ASSUME NEW saying \in Sayings, Say(saying) PROVE FeedbackInv'
    BY <1>9, Speaking DEF Say
  <1>10. CASE SendFeedback
    BY <1>10, Speaking, Zenon DEF SendFeedback
  <1>11. ASSUME NEW m \in rtcp, NEW stays \in BOOLEAN, OnRtcp(m, stays) PROVE FeedbackInv'
    BY <1>11, OnRtcpInv, OnRtcpUnguarded
  <1>12. ASSUME NEW d \in Waits, Wait(d) PROVE FeedbackInv'
    BY <1>12, Bystanders DEF Wait, reportVars
  <1>13. CASE ResetRate
    BY <1>13, Bystanders DEF ResetRate
  <1>14. ASSUME NEW st, NEW names, Renamed(st, names) PROVE FeedbackInv'
    BY <1>14, Bystanders DEF Renamed, reportVars
  <1>15. CASE UNCHANGED pathVars
    BY <1>15, Bystanders DEF pathVars, reportVars
  <1> QED
    BY <1>1, <1>2, <1>3, <1>4, <1>5, <1>6, <1>7, <1>8, <1>9, <1>10, <1>11, <1>12, <1>13, <1>14, <1>15, Zenon
    DEF Next, TellMid, TellMidOf, TellRidOf, Forget, Renumber

(* For every window, every number of SSRCs, however the peer counts and    *)
(* whatever the network reorders or repeats: where the session has replay  *)
(* protection, no datagram of SRTCP is acted on twice, and none is refused *)
(* at first sight that is less than a window behind the newest of its SSRC *)
(* (srtp.js:528-533, 639-674).                                             *)
THEOREM FeedbackActedOnOnce == Spec => []FeedbackOnce
  <1>1. FeedbackInv => FeedbackOnce
    BY DEF FeedbackInv
  <1> QED BY <1>1, FeedbackInit, FeedbackStep, PTL DEF Spec

(* For the same sessions: with replay protection, what a window shows and  *)
(* the highest it counts from are what was acted on.                       *)
THEOREM FeedbackWindowsExact == Spec => []WindowsExact
  <1>1. FeedbackInv => WindowsExact
    BY DEF FeedbackInv
  <1> QED BY <1>1, FeedbackInit, FeedbackStep, PTL DEF Spec

-----------------------------------------------------------------------------
(* What OnNack reads of a NACK is a list.                                  *)
LEMMA NackListed ==
    ASSUME MostNumbers \in Nat, NEW m \in Nacks
    PROVE  Len(C!ParseRTCPCompound(m.words)[1].lost) \in Nat
  <1>1. PICK ns \in (SUBSET (1 .. MostNumbers)) \ {{}} : m = NackFor(ns)
    BY DEF Nacks
  <1>2. PICK all : all = {SeqNo(n) : n \in ns}
    BY Zenon
  <1>3. PICK list : list = X!SetToSeq(all)
    OBVIOUS
  <1>4. PICK asked : asked = Append(list, list[1])
    BY Zenon
  <1>5. PICK k \in Nat : k = Len(asked) /\ k > 0
    <2>1. IsFiniteSet(ns)
      <3>1. IsFiniteSet(1 .. MostNumbers) /\ ns \in SUBSET (1 .. MostNumbers)
        BY <1>1, FS_Interval
      <3> QED BY <3>1, FS_Subset, Zenon
    <2>2. IsFiniteSet(all)
      <3>1. PICK f : f = [n \in ns |-> SeqNo(n)]
        BY Zenon
      <3>2. f \in Surjection(ns, all)
        BY <1>2, <3>1 DEF Surjection
      <3> QED BY <2>1, <3>2, FS_Surjection
    <2>3. list \in Seq(all)
      BY <1>3, <2>2, SetList
    <2>4. list \in Seq(all \cup {list[1]})
      BY <2>3, SeqMonotonic
    <2>5. Len(asked) = Len(list) + 1 /\ Len(list) \in Nat
      BY <1>4, <2>4, AppendProperties, LenProperties
    <2> QED BY <2>5
  <1>6. PICK entries : entries = C!BuildNackEntries(asked)
    OBVIOUS
  <1>7. PICK Es : entries \in Seq(Es) /\ Len(entries) > 0
    <2>1. Listed(entries, k)
      BY <1>5, <1>6, NackEntriesAre, NackEntriesListed, Zenon
    <2> QED BY <1>5, <2>1 DEF Listed
  <1>8. PICK a, b : a = C!W(Receiver) /\ b = C!W(Primary)
    OBVIOUS
  <1>9. PICK w : w = <<a, b>> \o entries
    BY Zenon
  <1>10. PICK head : head = C!HeadWord(1, 205, w)
    OBVIOUS
  <1>11. PICK words : words = <<head>> \o w
    BY Zenon
  <1>12. m.words = words
    <2>1. NackFor(ns).words = C!BuildNACK(Receiver, Primary, asked)
      BY <1>2, <1>3, <1>4 DEF NackFor
    <2>2. C!BuildNACK(Receiver, Primary, asked) = words
      BY <1>6, <1>8, <1>9, <1>10, <1>11, Zenon DEF C!BuildNACK, C!Message
    <2> QED BY <1>1, <2>1, <2>2
  <1>13. PICK all2 : all2 = Es \cup {a, b, C!HeadWord(1, 205, w)}
    BY Zenon
  <1>14. words \in Seq(all2) /\ Len(words) = Len(entries) + 3 /\ words[1] = head /\ Len(w) = Len(entries) + 2
    BY <1>7, <1>9, <1>10, <1>11, <1>13, NackWords
  <1>15. head.count = 1 /\ head.pt = 205 /\ head.length = Len(w)
    BY <1>10 DEF C!HeadWord
  <1>16. PICK n \in Nat : n = Len(entries) /\ n > 0
    BY <1>7, LenProperties
  <1>17. C!ParseRTCPCompound(words)[1] = C!ParseRTCP(words)
    <2>1. Len(words) > 0 /\ words[1].length = Len(words) - 1
      BY <1>14, <1>15, <1>16
    <2> QED BY <1>14, <2>1, OneMessage
  <1>18. C!ParseRTCP(words).lost = C!ParseNackEntries(SubSeq(words, 4, Len(words)))
    <2>1. words[1].pt = 205 /\ words[1].count = 1 /\ Len(words) >= 4
      BY <1>14, <1>15, <1>16
    <2>2. ~ (205 = 200) /\ ~ (205 = 206) /\ ~ (205 = 202) /\ ~ (205 = 203) /\ ~ (205 = 201) /\ ~ (1 = 15)
      OBVIOUS
    <2>3. C!ParseRTCP(words)
            = [name |-> "NACK", ssrc |-> words[2].w, mediaSsrc |-> words[3].w,
               lost |-> C!ParseNackEntries(SubSeq(words, 4, Len(words)))]
      BY <2>1, <2>2 DEF C!ParseRTCP
    <2> QED BY <2>3
  <1>19. SubSeq(words, 4, Len(words)) \in Seq(all2)
    <2>1. Len(words) = n + 3
      BY <1>14, <1>16
    <2>2. \A i \in 4 .. n + 3 : words[i] \in all2
      BY <1>14, <2>1, ElementOfSeq
    <2> QED BY <1>14, <2>1, <2>2, SubSeqProperties
  <1>20. Len(C!ParseNackEntries(SubSeq(words, 4, Len(words)))) \in Nat
    BY <1>19, NackNumbersListed
  <1> QED BY <1>12, <1>17, <1>18, <1>20

-----------------------------------------------------------------------------
(* What the receiver is to read: the records of ReceivedIsSent.            *)
Truths == [ssrc : Int, seq : Int, ts : Int, marker : BOOLEAN, pt : {MediaPt}, csrc : Seq(Int), payload : Seq(Plain),
           mid : Int, rid : Int, level : SUBSET [level : Int, voice : BOOLEAN], time : SUBSET (Int \X Int)]

(* What a block says under a name both ends know, and that it tells what   *)
(* the receiver is to read.                                                *)
Heard(exts, ids, theirs, name) == IF name \in DOMAIN theirs THEN At(exts, ids, name) ELSE <<>>
LayerHeard(exts, ids, theirs) ==
    IF Heard(exts, ids, theirs, "repaired-rtp-stream-id") # <<>> THEN Heard(exts, ids, theirs, "repaired-rtp-stream-id")
    ELSE Heard(exts, ids, theirs, "rtp-stream-id")
LevelOf(data) == IF data = <<>> THEN {} ELSE {H!ReadAudioLevel(data)}
TimeOf(data)  == IF data = <<>> THEN {} ELSE {H!ReadAbsSendTime(data)}
Tells(exts, ids, theirs, t) ==
    /\ t.mid = FirstOf(Heard(exts, ids, theirs, "mid"))
    /\ t.rid = FirstOf(LayerHeard(exts, ids, theirs))
    /\ t.level = LevelOf(Heard(exts, ids, theirs, "audio-level"))
    /\ t.time = TimeOf(Heard(exts, ids, theirs, "abs-send-time"))

SameWords(pkt, t) ==
    pkt.ssrc = t.ssrc /\ pkt.seq = t.seq /\ pkt.ts = t.ts /\ pkt.m = t.marker /\ pkt.pt = t.pt

(* The shape of Reading.                                                   *)
Under(exts, ids, name) == IF name \in DOMAIN ids /\ ids[name] \in DOMAIN exts THEN exts[ids[name]] ELSE <<>>
ReadAs(r, ids, mid) ==
    [ssrc |-> r.ssrc, seq |-> r.seq, ts |-> r.ts, marker |-> r.marker, pt |-> r.pt, csrc |-> r.csrc,
     payload |-> r.payload, mid |-> FirstOf(mid),
     rid |-> FirstOf(IF Under(r.exts, ids, "repaired-rtp-stream-id") # <<>>
                     THEN Under(r.exts, ids, "repaired-rtp-stream-id") ELSE Under(r.exts, ids, "rtp-stream-id")),
     level |-> IF Under(r.exts, ids, "audio-level") = <<>> THEN {} ELSE {H!ReadAudioLevel(Under(r.exts, ids, "audio-level"))},
     time |-> IF Under(r.exts, ids, "abs-send-time") = <<>> THEN {}
              ELSE {H!ReadAbsSendTime(Under(r.exts, ids, "abs-send-time"))}]

(* What the application reads of a packet, through the parsed packet.      *)
LEMMA ReadingIs ==
    ASSUME NEW pkt
    PROVE  Reading(pkt) = ReadAs(H!Parse(pkt), TheirIds[mode], H!ReadExtension(pkt, TheirIds[mode]["mid"]))
  BY Zenon DEF Reading, ReadAs, Under

(* A packet that carries what the receiver is to read is read so.          *)
LEMMA ReadsTruth ==
    ASSUME NEW pkt, NEW t \in Truths, NEW exts, NEW pad, Padded(pkt, pad), Carries(pkt, t.csrc, exts, t.payload \o pad),
           SameWords(pkt, t), "mid" \in DOMAIN TheirIds[mode], Tells(exts, TheirIds[mode], TheirIds[mode], t)
    PROVE  Reading(pkt) = t
  <1>1. PICK ids : ids = TheirIds[mode]
    OBVIOUS
  <1>2. t.payload \in Octs
    BY PlainSeq DEF Truths, Octs
  <1>3. PICK r : r = [padding |-> pkt.p, marker |-> pkt.m, pt |-> pkt.pt, seq |-> pkt.seq,
                      ts |-> pkt.ts, ssrc |-> pkt.ssrc, csrc |-> t.csrc, exts |-> exts, payload |-> t.payload]
    BY Zenon
  <1>4. H!Parse(pkt) = r
    BY <1>2, <1>3, ParseReads
  <1>5. PICK mid : mid = H!ReadExtension(pkt, ids["mid"])
    OBVIOUS
  <1>6. mid = Heard(exts, ids, ids, "mid")
    <2>1. mid = IF ids["mid"] \in DOMAIN exts THEN exts[ids["mid"]] ELSE <<>>
      BY <1>5, ReadReads
    <2> QED BY <1>1, <2>1 DEF Heard, At
  <1>7. \A name : Under(exts, ids, name) = Heard(exts, ids, ids, name)
    BY DEF Under, Heard, At
  <1>8. ReadAs(r, ids, mid).mid = t.mid /\ ReadAs(r, ids, mid).rid = t.rid
    BY <1>1, <1>3, <1>6, <1>7 DEF ReadAs, Tells, LayerHeard
  <1>9. ReadAs(r, ids, mid).level = t.level /\ ReadAs(r, ids, mid).time = t.time
    BY <1>1, <1>3, <1>6, <1>7, Zenon DEF ReadAs, Tells, LevelOf, TimeOf
  <1>10. /\ ReadAs(r, ids, mid).ssrc = t.ssrc /\ ReadAs(r, ids, mid).seq = t.seq /\ ReadAs(r, ids, mid).ts = t.ts
         /\ ReadAs(r, ids, mid).marker = t.marker /\ ReadAs(r, ids, mid).pt = t.pt
         /\ ReadAs(r, ids, mid).csrc = t.csrc /\ ReadAs(r, ids, mid).payload = t.payload
    BY <1>3 DEF ReadAs, SameWords
  <1>11. PICK a : a = ReadAs(r, ids, mid)
    OBVIOUS
  <1>12. a = [ssrc |-> a.ssrc, seq |-> a.seq, ts |-> a.ts, marker |-> a.marker, pt |-> a.pt, csrc |-> a.csrc,
              payload |-> a.payload, mid |-> a.mid, rid |-> a.rid, level |-> a.level, time |-> a.time]
    BY <1>11 DEF ReadAs
  <1>13. t = [ssrc |-> t.ssrc, seq |-> t.seq, ts |-> t.ts, marker |-> t.marker, pt |-> t.pt, csrc |-> t.csrc,
              payload |-> t.payload, mid |-> t.mid, rid |-> t.rid, level |-> t.level, time |-> t.time]
    BY DEF Truths
  <1>14. a = t
    BY <1>8, <1>9, <1>10, <1>11, <1>12, <1>13, Zenon
  <1> QED BY <1>1, <1>4, <1>5, <1>11, <1>14, ReadingIs, Zenon

(* What is heard stays the same when a hop moves the ids.                  *)
MapOf(ids, theirs) ==
    LET both == DOMAIN ids \cap DOMAIN theirs
    IN  [id \in {ids[name] : name \in both} |-> theirs[CHOOSE name \in both : ids[name] = id]]

Maps(M, ids, theirs) ==
    /\ DOMAIN M = {ids[name] : name \in DOMAIN ids \cap DOMAIN theirs}
    /\ \A name \in DOMAIN ids \cap DOMAIN theirs : M[ids[name]] = theirs[name]

(* The map from the ids of one end to those of the other loses no name.    *)
LEMMA MapOfIn ==
    ASSUME NEW ids, IsIds(ids), NEW theirs, IsIds(theirs)
    PROVE  MapOf(ids, theirs) \in IdMaps /\ Maps(MapOf(ids, theirs), ids, theirs)
  <1>1. PICK both : both = DOMAIN ids \cap DOMAIN theirs
    BY Zenon
  <1>2. PICK M : M = MapOf(ids, theirs)
    OBVIOUS
  <1>3. M = [id \in {ids[name] : name \in both} |-> theirs[CHOOSE name \in both : ids[name] = id]]
    BY <1>1, <1>2 DEF MapOf
  <1>4. DOMAIN M = {ids[name] : name \in both}
    BY <1>3
  <1>5. ASSUME NEW name \in both PROVE M[ids[name]] = theirs[name]
    <2>1. (CHOOSE other \in both : ids[other] = ids[name]) = name
      <3>1. \A other \in both : ids[other] = ids[name] => other = name
        BY <1>1 DEF IsIds
      <3> QED BY <3>1
    <2>2. ids[name] \in {ids[other] : other \in both}
      OBVIOUS
    <2>3. M[ids[name]] = theirs[CHOOSE other \in both : ids[other] = ids[name]]
      BY <1>3, <2>2, Zenon
    <2> QED BY <2>1, <2>3, Zenon
  <1>6. \A name \in both : ids[name] \in 1 .. 14 /\ theirs[name] \in 1 .. 14
    BY <1>1 DEF IsIds
  <1>7. M \in [DOMAIN M -> 1 .. 14]
    <2>1. \A id \in DOMAIN M : M[id] \in 1 .. 14
      BY <1>4, <1>5, <1>6
    <2>2. M = [id \in DOMAIN M |-> M[id]]
      BY <1>3
    <2> QED BY <2>1, <2>2
  <1>8. \A a, b \in DOMAIN M : M[a] = M[b] => a = b
    BY <1>1, <1>4, <1>5 DEF IsIds
  <1>9. DOMAIN M \in SUBSET (1 .. 14)
    BY <1>4, <1>6
  <1>10. M \in IdMaps
    BY <1>7, <1>8, <1>9 DEF IdMaps
  <1>11. Maps(M, ids, theirs)
    BY <1>1, <1>4, <1>5 DEF Maps
  <1> QED BY <1>2, <1>10, <1>11

(* A name is heard under the new ids as it was under the old ones,         *)
LEMMA HeardMoved ==
    ASSUME NEW ids, IsIds(ids), NEW theirs, IsIds(theirs), NEW exts, NEW out, Moved(exts, MapOf(ids, theirs), out), NEW name
    PROVE  Heard(out, theirs, theirs, name) = Heard(exts, ids, theirs, name)
  <1>1. PICK M : M = MapOf(ids, theirs)
    OBVIOUS
  <1>2. /\ DOMAIN M = {ids[other] : other \in DOMAIN ids \cap DOMAIN theirs}
        /\ \A other \in DOMAIN ids \cap DOMAIN theirs : M[ids[other]] = theirs[other]
    <2>1. Maps(M, ids, theirs)
      BY <1>1, MapOfIn
    <2> QED BY <2>1 DEF Maps
  <1>3. /\ DOMAIN out = {M[id] : id \in DOMAIN exts \cap DOMAIN M}
        /\ \A id \in DOMAIN exts \cap DOMAIN M : out[M[id]] = exts[id]
    BY <1>1 DEF Moved
  <1>4. CASE name \notin DOMAIN theirs
    BY <1>4 DEF Heard
  <1>5. CASE name \in DOMAIN theirs
    <2>1. theirs[name] \in DOMAIN out <=> (name \in DOMAIN ids /\ ids[name] \in DOMAIN exts)
      <3>1. ASSUME theirs[name] \in DOMAIN out PROVE name \in DOMAIN ids /\ ids[name] \in DOMAIN exts
        <4>1. PICK id \in DOMAIN exts \cap DOMAIN M : M[id] = theirs[name]
          BY <1>3, <3>1
        <4>2. PICK other \in DOMAIN ids \cap DOMAIN theirs : id = ids[other]
          BY <1>2, <4>1
        <4>3. theirs[other] = theirs[name]
          BY <1>2, <4>1, <4>2
        <4>4. other = name
          BY <1>5, <4>2, <4>3 DEF IsIds
        <4> QED BY <4>1, <4>2, <4>4
      <3>2. ASSUME name \in DOMAIN ids, ids[name] \in DOMAIN exts PROVE theirs[name] \in DOMAIN out
        <4>1. ids[name] \in DOMAIN exts \cap DOMAIN M /\ M[ids[name]] = theirs[name]
          BY <1>2, <1>5, <3>2
        <4> QED BY <1>3, <4>1
      <3> QED BY <3>1, <3>2
    <2>2. ASSUME name \in DOMAIN ids, ids[name] \in DOMAIN exts PROVE out[theirs[name]] = exts[ids[name]]
      <3>1. ids[name] \in DOMAIN exts \cap DOMAIN M /\ M[ids[name]] = theirs[name]
        BY <1>2, <1>5, <2>2
      <3> QED BY <1>3, <3>1
    <2> QED BY <1>5, <2>1, <2>2 DEF Heard, At
  <1> QED BY <1>4, <1>5

(* and so is all the receiver is told.                                     *)
LEMMA TellsMoved ==
    ASSUME NEW ids, IsIds(ids), NEW theirs, IsIds(theirs), NEW exts, NEW out, Moved(exts, MapOf(ids, theirs), out),
           NEW t, Tells(exts, ids, theirs, t)
    PROVE  Tells(out, theirs, theirs, t)
  <1>1. \A name : Heard(out, theirs, theirs, name) = Heard(exts, ids, theirs, name)
    BY HeardMoved
  <1>2. LayerHeard(out, theirs, theirs) = LayerHeard(exts, ids, theirs)
    BY <1>1 DEF LayerHeard
  <1> QED BY <1>1, <1>2 DEF Tells

-----------------------------------------------------------------------------
(* Numbers of no more packets than the space holds are told apart.         *)
LEMMA SeqNoOnce ==
    ASSUME StartSeq \in Int, NEW a \in 1 .. SeqSpace, NEW b \in 1 .. SeqSpace, SeqNo(a) = SeqNo(b)
    PROVE  a = b
  <1>1. PICK m \in Nat \ {0} : m = SeqSpace
    BY WireAssumption
  <1>2. PICK x \in Int, y \in Int : x = StartSeq + a - 1 /\ y = StartSeq + b - 1
    OBVIOUS
  <1>3. x % m = y % m
    BY <1>1, <1>2 DEF SeqNo
  <1>4. /\ x = m * (x \div m) + (x % m) /\ x \div m \in Int /\ x % m \in Int
        /\ y = m * (y \div m) + (y % m) /\ y \div m \in Int
    OBVIOUS
  <1>5. PICK p \in Int, q \in Int, r \in Int : x = m * p + r /\ y = m * q + r
    BY <1>3, <1>4, Zenon
  <1>6. x - y = a - b /\ a - b < m /\ b - a < m
    BY <1>1, <1>2
  <1>7. x - y = m * (p - q)
    BY <1>5
  <1>8. p - q = 0
    <2>1. p - q >= 1 => m * (p - q) >= m
      OBVIOUS
    <2>2. p - q <= -1 => m * (p - q) <= -m
      OBVIOUS
    <2> QED BY <1>6, <1>7, <2>1, <2>2
  <1> QED BY <1>6, <1>7, <1>8

(* A sequence number gives back the place in the stream.                   *)
LEMMA NumberOfSeqNo ==
    ASSUME StartSeq \in Int, NEW n \in 1 .. SeqSpace
    PROVE  Number(SeqNo(n)) = n
  <1>1. \A k \in 1 .. SeqSpace : SeqNo(k) = SeqNo(n) => k = n
    BY SeqNoOnce
  <1>2. (CHOOSE k \in 1 .. SeqSpace : SeqNo(k) = SeqNo(n)) = n
    BY <1>1
  <1> QED BY <1>2 DEF Number

(* Sequence numbers are integers.                                          *)
LEMMA SeqNoIn ==
    ASSUME StartSeq \in Int, NEW n \in Int
    PROVE  SeqNo(n) \in Int /\ SeqNo(n) \in 0 .. SeqSpace - 1
  <1>1. PICK m \in Nat \ {0}, x \in Int : m = SeqSpace /\ x = StartSeq + n - 1
    BY WireAssumption
  <1>2. x % m \in Int /\ x % m \in 0 .. m - 1
    OBVIOUS
  <1> QED BY <1>1, <1>2 DEF SeqNo

-----------------------------------------------------------------------------
(* What NackThrottle remembers of a packet bounds the time since it was    *)
(* sent again: q gives that time for each packet.                          *)
Waited(times, key, q) ==
    IF key \in DOMAIN times THEN q >= times[key] \/ q >= ThrottleWindow ELSE q >= ThrottleWindow
Throttled(times, q) ==
    /\ \A k \in DOMAIN times : times[k] \in Nat
    /\ \A n \in DOMAIN q : q[n] \in Nat /\ Waited(times, <<Primary, SeqNo(n)>>, q[n])
Once(q, seq) == [n \in DOMAIN q |-> IF SeqNo(n) = seq THEN 0 ELSE q[n]]

(* The window is positive, and a sweep forgets nothing younger than it.    *)
LEMMA ThrottleFacts ==
    /\ ThrottleWindow \in Nat \ {0} /\ ThrottleWindow * SweepWindows \in Nat
    /\ ThrottleWindow * SweepWindows >= ThrottleWindow
  <1>1. PICK w \in Nat \ {0}, k \in Nat \ {0} : w = ThrottleWindow /\ k = SweepWindows
    BY ControlAssumption DEF R!RetransmitAssumption
  <1>2. w * k \in Nat /\ w * k >= w
    OBVIOUS
  <1> QED BY <1>1, <1>2

(* A sweep (_evictExpired) forgets no packet that was sent again recently. *)
LEMMA EvictedThrottled ==
    ASSUME NEW old, NEW q, Throttled(old, q)
    PROVE  Throttled(R!EvictExpired(old), q)
  <1>1. PICK w \in Nat \ {0}, most \in Nat : w = ThrottleWindow /\ most = ThrottleWindow * SweepWindows /\ most >= w
    BY ThrottleFacts
  <1>2. PICK kept : kept = {k \in DOMAIN old : old[k] <= most}
    BY Zenon
  <1>3. PICK new : new = [k \in kept |-> old[k]]
    BY Zenon
  <1>4. R!EvictExpired(old) = new
    BY <1>1, <1>2, <1>3 DEF R!EvictExpired
  <1>5. DOMAIN new = kept /\ (\A k \in kept : new[k] = old[k])
    BY <1>3
  <1>6. ASSUME NEW n \in DOMAIN q, NEW key, key = <<Primary, SeqNo(n)>> PROVE Waited(new, key, q[n])
    <2>1. q[n] \in Nat /\ Waited(old, key, q[n]) /\ \A k \in DOMAIN old : old[k] \in Nat
      BY <1>6 DEF Throttled
    <2>2. CASE key \in kept
      BY <1>2, <1>5, <2>1, <2>2 DEF Waited
    <2>3. CASE key \in DOMAIN old /\ key \notin kept
      <3>1. old[key] \in Nat /\ old[key] > most
        BY <1>2, <2>1, <2>3
      <3>2. q[n] >= w
        BY <1>1, <2>1, <2>3, <3>1 DEF Waited
      <3> QED BY <1>1, <1>5, <2>3, <3>2 DEF Waited
    <2>4. CASE key \notin DOMAIN old
      BY <1>2, <1>5, <2>1, <2>4 DEF Waited
    <2> QED BY <2>2, <2>3, <2>4
  <1>7. \A k \in DOMAIN new : new[k] \in Nat
    BY <1>2, <1>5 DEF Throttled
  <1>8. Throttled(new, q)
    BY <1>6, <1>7 DEF Throttled
  <1> QED BY <1>4, <1>8

(* shouldSend (retransmit.js:337-348) lets a packet through only when the  *)
(* window has passed since it last did.                                    *)
LEMMA PassedThrottled ==
    ASSUME NEW old, NEW q, Throttled(old, q), NEW seq, NEW sweep
    PROVE  LET passed == R!ShouldSend(old, <<Primary, seq>>, sweep)
           IN  /\ passed.yes =>
                     /\ \A n \in DOMAIN q : SeqNo(n) = seq => q[n] >= ThrottleWindow
                     /\ Throttled(passed.last, Once(q, seq))
               /\ ~ passed.yes => passed.last = old
  <1>1. PICK w \in Nat \ {0} : w = ThrottleWindow
    BY ThrottleFacts
  <1>2. PICK key : key = <<Primary, seq>>
    BY Zenon
  <1>3. PICK passed : passed = R!ShouldSend(old, key, sweep)
    OBVIOUS
  <1>4. CASE key \in DOMAIN old /\ old[key] < w
    <2>1. passed = [yes |-> FALSE, last |-> old]
      BY <1>1, <1>3, <1>4 DEF R!ShouldSend
    <2> QED BY <1>2, <1>3, <2>1
  <1>5. CASE ~ (key \in DOMAIN old /\ old[key] < w)
    <2>1. PICK new : new = R!Put(old, key, 0)
      OBVIOUS
    <2>2. passed = [yes |-> TRUE, last |-> IF sweep THEN R!EvictExpired(new) ELSE new]
      BY <1>1, <1>3, <1>5, <2>1 DEF R!ShouldSend
    <2>3. /\ DOMAIN new = DOMAIN old \cup {key} /\ new[key] = 0
          /\ \A k \in DOMAIN old : k # key => new[k] = old[k]
      BY <2>1 DEF R!Put
    <2>4. ASSUME NEW n \in DOMAIN q, SeqNo(n) = seq PROVE q[n] >= w
      <3>1. q[n] \in Nat /\ Waited(old, key, q[n]) /\ \A k \in DOMAIN old : old[k] \in Nat
        BY <1>2, <2>4 DEF Throttled
      <3> QED BY <1>1, <1>5, <3>1 DEF Waited
    <2>5. PICK r : r = Once(q, seq)
      OBVIOUS
    <2>6. DOMAIN r = DOMAIN q /\ \A n \in DOMAIN q : r[n] = IF SeqNo(n) = seq THEN 0 ELSE q[n]
      BY <2>5 DEF Once
    <2>7. ASSUME NEW n \in DOMAIN r PROVE r[n] \in Nat /\ Waited(new, <<Primary, SeqNo(n)>>, r[n])
      <3>1. CASE SeqNo(n) = seq
        BY <1>2, <2>3, <2>6, <3>1 DEF Waited
      <3>2. CASE SeqNo(n) # seq
        <4>1. r[n] = q[n] /\ n \in DOMAIN q
          BY <2>6, <3>2
        <4>2. q[n] \in Nat /\ Waited(old, <<Primary, SeqNo(n)>>, q[n])
          BY <4>1 DEF Throttled
        <4>3. <<Primary, SeqNo(n)>> # key
          BY <1>2, <3>2
        <4> QED BY <2>3, <4>1, <4>2, <4>3 DEF Waited
      <3> QED BY <3>1, <3>2
    <2>8. \A k \in DOMAIN new : new[k] \in Nat
      BY <2>3 DEF Throttled
    <2>9. Throttled(new, r)
      BY <2>7, <2>8 DEF Throttled
    <2>10. Throttled(passed.last, r)
      BY <2>2, <2>9, EvictedThrottled
    <2> QED BY <1>1, <1>2, <1>3, <2>2, <2>4, <2>5, <2>10
  <1> QED BY <1>4, <1>5

(* A tick of its clock.                                                    *)
LEMMA AgedThrottled ==
    ASSUME NEW old, NEW q, Throttled(old, q)
    PROVE  Throttled(R!Aged(old), [n \in DOMAIN q |-> IF q[n] < ThrottleWindow THEN q[n] + 1 ELSE q[n]])
  <1>1. PICK w \in Nat \ {0}, most \in Nat : w = ThrottleWindow /\ most = R!OldAge /\ most >= w
    BY ThrottleFacts DEF R!OldAge
  <1>2. PICK new : new = R!Aged(old)
    OBVIOUS
  <1>3. DOMAIN new = DOMAIN old /\ \A k \in DOMAIN old : new[k] = IF old[k] + 1 <= most THEN old[k] + 1 ELSE most
    BY <1>1, <1>2 DEF R!Aged, R!Least
  <1>4. PICK r : r = [n \in DOMAIN q |-> IF q[n] < w THEN q[n] + 1 ELSE q[n]]
    BY Zenon
  <1>5. DOMAIN r = DOMAIN q /\ \A n \in DOMAIN q : r[n] = IF q[n] < w THEN q[n] + 1 ELSE q[n]
    BY <1>4
  <1>6. ASSUME NEW n \in DOMAIN r, NEW key, key = <<Primary, SeqNo(n)>> PROVE r[n] \in Nat /\ Waited(new, key, r[n])
    <2>1. q[n] \in Nat /\ Waited(old, key, q[n]) /\ \A k \in DOMAIN old : old[k] \in Nat
      BY <1>5, <1>6 DEF Throttled
    <2>2. PICK a \in Nat : a = q[n]
      BY <2>1
    <2>3. r[n] = IF a < w THEN a + 1 ELSE a
      BY <1>5, <1>6, <2>2
    <2>4. CASE key \in DOMAIN old
      <3>1. PICK b \in Nat : b = old[key]
        BY <2>1, <2>4
      <3>2. new[key] = IF b + 1 <= most THEN b + 1 ELSE most
        BY <1>3, <2>4, <3>1
      <3>3. a >= b \/ a >= w
        BY <1>1, <2>1, <2>2, <2>4, <3>1 DEF Waited
      <3>4. r[n] >= new[key] \/ r[n] >= w
        BY <1>1, <2>3, <3>2, <3>3
      <3> QED BY <1>1, <1>3, <2>3, <2>4, <3>4 DEF Waited
    <2>5. CASE key \notin DOMAIN old
      <3>1. a >= w
        BY <1>1, <2>1, <2>2, <2>5 DEF Waited
      <3> QED BY <1>1, <1>3, <2>3, <2>5, <3>1 DEF Waited
    <2> QED BY <2>4, <2>5
  <1>7. \A k \in DOMAIN new : new[k] \in Nat
    <2> SUFFICES ASSUME NEW k \in DOMAIN new PROVE new[k] \in Nat
      OBVIOUS
    <2>1. PICK b \in Nat : b = old[k]
      BY <1>3 DEF Throttled
    <2> QED BY <1>3, <2>1
  <1>8. Throttled(new, r)
    BY <1>6, <1>7 DEF Throttled
  <1> QED BY <1>1, <1>2, <1>4, <1>8

-----------------------------------------------------------------------------
(* What the values the stamper writes are read as.                         *)
LEMMA OctetsRead ==
    \A what, v : \A n \in Nat \ {0} :
       /\ H!Octets(what, v, n) # <<>> /\ Len(H!Octets(what, v, n)) = n
       /\ H!Octets(what, v, n)[1].v = v
  <1> SUFFICES ASSUME NEW what, NEW v, NEW n \in Nat \ {0}
               PROVE  /\ H!Octets(what, v, n) # <<>> /\ Len(H!Octets(what, v, n)) = n
                      /\ H!Octets(what, v, n)[1].v = v
    OBVIOUS
  <1>1. PICK o : o = H!Octets(what, v, n)
    OBVIOUS
  <1>2. o = [i \in 1 .. n |-> H!Octet(what, v, i)]
    BY <1>1 DEF H!Octets
  <1>3. Len(o) = n /\ o[1] = H!Octet(what, v, 1)
    BY <1>2
  <1>4. o # <<>>
    BY <1>3
  <1> QED BY <1>1, <1>3, <1>4 DEF H!Octet

(* A name is read as it was written,                                       *)
LEMMA NameRead ==
    ASSUME NEW v \in Int
    PROVE  S!Name(v) # <<>> /\ FirstOf(S!Name(v)) = v
  <1>1. S!Name(v) = H!Octets("name", v, 2)
    BY SameStamps DEF S!Name
  <1>2. Len(H!Octets("name", v, 2)) = 2 /\ H!Octets("name", v, 2)[1].v = v
    <2>1. \E what : \E n \in Nat \ {0} : what = "name" /\ n = 2
      OBVIOUS
    <2>2. PICK what : \E n \in Nat \ {0} : what = "name" /\ n = 2
      BY <2>1
    <2>3. PICK n \in Nat \ {0} : what = "name" /\ n = 2
      BY <2>2
    <2>4. PICK x : x = v
      OBVIOUS
    <2>5. Len(H!Octets(what, x, n)) = n /\ H!Octets(what, x, n)[1].v = x
      BY OctetsRead
    <2> QED BY <2>3, <2>4, <2>5, Zenon
  <1>3. H!Octets("name", v, 2) # <<>>
    <2>1. Len(<<>>) = 0
      OBVIOUS
    <2> QED BY <1>2, <2>1
  <1> QED BY <1>1, <1>2, <1>3 DEF FirstOf

(* so is an audio level,                                                   *)
LEMMA LevelRead ==
    ASSUME NEW level \in 0 .. 127
    PROVE  /\ S!AudioLevel(level, TRUE) = H!AudioLevel(level, TRUE) /\ S!AudioLevel(level, TRUE) # <<>>
           /\ LevelOf(S!AudioLevel(level, TRUE)) = {[level |-> level, voice |-> TRUE]}
  <1>1. level % 128 = level
    OBVIOUS
  <1>2. S!AudioLevel(level, TRUE) = H!Octets("level", 128 + level, 1) /\ H!AudioLevel(level, TRUE) = H!Octets("level", 128 + level, 1)
    BY <1>1, SameStamps DEF S!AudioLevel, H!AudioLevel
  <1>3. PICK data : data = H!Octets("level", 128 + level, 1)
    OBVIOUS
  <1>4. Len(data) = 1 /\ data[1].v = 128 + level
    <2>1. \E what : \E n \in Nat \ {0} : what = "level" /\ n = 1
      OBVIOUS
    <2>2. PICK what : \E n \in Nat \ {0} : what = "level" /\ n = 1
      BY <2>1
    <2>3. PICK n \in Nat \ {0} : what = "level" /\ n = 1
      BY <2>2
    <2>4. PICK x : x = 128 + level
      OBVIOUS
    <2>5. Len(H!Octets(what, x, n)) = n /\ H!Octets(what, x, n)[1].v = x
      BY OctetsRead
    <2> QED BY <1>3, <2>3, <2>4, <2>5, Zenon
  <1>5. data # <<>>
    <2>1. Len(<<>>) = 0
      OBVIOUS
    <2> QED BY <1>4, <2>1
  <1>6. (128 + level) % 128 = level /\ 128 + level >= 128
    OBVIOUS
  <1>7. H!ReadAudioLevel(data) = [level |-> level, voice |-> TRUE]
    BY <1>4, <1>6, Zenon DEF H!ReadAudioLevel
  <1> QED BY <1>2, <1>3, <1>5, <1>7, Zenon DEF LevelOf

(* and a time, as far as its 24 bits go.                                   *)
LEMMA TimeRead ==
    ASSUME NEW time \in Int
    PROVE  S!AbsSendTime(time) # <<>> /\ TimeOf(S!AbsSendTime(time)) = {<<H!Fixed(time), TickRate>>}
  <1>1. PICK v \in Int : v = S!Fixed(time) /\ v = H!Fixed(time)
    BY FixedIn
  <1>2. PICK data : data = H!Octets("abs", v, 3)
    OBVIOUS
  <1>3. S!AbsSendTime(time) = data
    BY <1>1, <1>2, SameStamps DEF S!AbsSendTime
  <1>4. Len(data) = 3 /\ data[1].v = v
    <2>1. \E what : \E n \in Nat \ {0} : what = "abs" /\ n = 3
      OBVIOUS
    <2>2. PICK what : \E n \in Nat \ {0} : what = "abs" /\ n = 3
      BY <2>1
    <2>3. PICK n \in Nat \ {0} : what = "abs" /\ n = 3
      BY <2>2
    <2>4. PICK x : x = v
      OBVIOUS
    <2>5. Len(H!Octets(what, x, n)) = n /\ H!Octets(what, x, n)[1].v = x
      BY OctetsRead
    <2> QED BY <1>2, <2>3, <2>4, <2>5, Zenon
  <1>5. data # <<>>
    <2>1. Len(<<>>) = 0
      OBVIOUS
    <2> QED BY <1>4, <2>1
  <1>6. H!ReadAbsSendTime(data) = <<v, TickRate>>
    BY <1>4 DEF H!ReadAbsSendTime
  <1> QED BY <1>1, <1>3, <1>5, <1>6 DEF TimeOf

(* What is told of the SSRC a packet is sent on.                           *)
TimeTold(time, theirs) == IF "abs-send-time" \in DOMAIN theirs THEN {<<H!Fixed(time), TickRate>>} ELSE {}
LevelTold(level) == IF level = None THEN {} ELSE {[level |-> level, voice |-> TRUE]}
Both(ids, theirs) ==
    /\ {"mid", "rtp-stream-id"} \subseteq DOMAIN ids \cap DOMAIN theirs
    /\ "abs-send-time" \in DOMAIN theirs => "abs-send-time" \in DOMAIN ids

(* The time and the mid that a stamped packet says.                        *)
LEMMA StampedTime ==
    ASSUME NEW s, NEW ssrc, NEW hints, NEW time \in Int, NEW exts, NEW out, Stamped(s, ssrc, hints, time, exts, out),
           NEW theirs, "abs-send-time" \in DOMAIN theirs => "abs-send-time" \in DOMAIN s.extMap
    PROVE  TimeOf(Heard(out, s.extMap, theirs, "abs-send-time")) = TimeTold(time, theirs)
  <1>1. CASE "abs-send-time" \in DOMAIN theirs
    <2>1. StampValue(s, ssrc, hints, time, "abs-send-time") = S!AbsSendTime(time)
      BY DEF StampValue
    <2>2. S!AbsSendTime(time) # <<>>
      BY TimeRead
    <2>3. At(out, s.extMap, "abs-send-time") = S!AbsSendTime(time)
      BY <1>1, <2>1, <2>2 DEF Stamped, S!Nothing
    <2> QED BY <1>1, <2>3, TimeRead DEF Heard, TimeTold
  <1>2. CASE "abs-send-time" \notin DOMAIN theirs
    BY <1>2 DEF Heard, TimeOf, TimeTold
  <1> QED BY <1>1, <1>2

(* A stamped name replaces the one that was there.                         *)
LEMMA StampedName ==
    ASSUME NEW s, NEW ssrc, NEW hints, NEW time, NEW exts, NEW out, Stamped(s, ssrc, hints, time, exts, out),
           NEW name \in DOMAIN s.extMap, NEW v,
           StampValue(s, ssrc, hints, time, name) = IF v = S!None THEN S!Nothing ELSE S!Name(v), v \in Int
    PROVE  At(out, s.extMap, name) = IF v = None THEN At(exts, s.extMap, name) ELSE S!Name(v)
  <1>1. S!Name(v) # <<>>
    BY NameRead
  <1> QED BY <1>1 DEF Stamped, S!Nothing, None

(* A packet as the packetizer made it says at most its audio level.        *)
Begun(exts, ids, level, direct) ==
    \A name : At(exts, ids, name) = IF name = "audio-level" /\ direct THEN H!AudioLevel(level, TRUE) ELSE <<>>

(* A packet the packetizer made is stamped with what was told              *)
(* (rtp_header_stamper.js:126-204).                                        *)
LEMMA SentTells ==
    ASSUME NEW s, NEW ssrc, Names(s, ssrc), NEW hints, NEW time \in Int, NEW exts, NEW out,
           Stamped(s, ssrc, hints, time, exts, out), NEW theirs, Both(s.extMap, theirs),
           NEW level \in (0 .. 127) \cup {None}, level # None => "audio-level" \in DOMAIN s.extMap \cap DOMAIN theirs,
           NEW direct \in BOOLEAN, direct => level # None,
           Begun(exts, s.extMap, level, direct),
           hints.audioLevel = IF direct THEN None ELSE level, hints.audioLevel # None => hints.voice = TRUE,
           S!Lookup(s.rrid, ssrc) = None,
           NEW t, t.mid = S!MidOf(s, ssrc), t.rid = S!Lookup(s.rid, ssrc), t.level = LevelTold(level),
           t.time = TimeTold(time, theirs)
    PROVE  Tells(out, s.extMap, theirs, t)
  <1>1. None = S!None /\ None = -1
    BY DEF None, S!None
  <1>2. \A name : name # "audio-level" => At(exts, s.extMap, name) = <<>>
    BY Zenon DEF Begun
  <1>8. At(exts, s.extMap, "audio-level") = IF direct THEN H!AudioLevel(level, TRUE) ELSE <<>>
    BY Zenon DEF Begun
  <1>3. "mid" \in DOMAIN s.extMap /\ "rtp-stream-id" \in DOMAIN s.extMap /\ "mid" \in DOMAIN theirs /\ "rtp-stream-id" \in DOMAIN theirs
    BY DEF Both
  <1>4. t.mid = FirstOf(Heard(out, s.extMap, theirs, "mid"))
    <2>1. PICK v \in Int : v = S!MidOf(s, ssrc)
      BY DEF Names
    <2>2. StampValue(s, ssrc, hints, time, "mid") = IF v = S!None THEN S!Nothing ELSE S!Name(v)
      BY <2>1 DEF StampValue
    <2>3. At(out, s.extMap, "mid") = IF v = None THEN At(exts, s.extMap, "mid") ELSE S!Name(v)
      BY <1>3, <2>2, StampedName
    <2>4. FirstOf(S!Name(v)) = v
      BY NameRead
    <2>5. At(exts, s.extMap, "mid") = <<>> /\ FirstOf(<<>>) = None
      BY <1>2 DEF FirstOf
    <2> QED BY <1>3, <2>1, <2>3, <2>4, <2>5 DEF Heard
  <1>5. t.rid = FirstOf(LayerHeard(out, s.extMap, theirs))
    <2>1. PICK v \in Int : v = S!Lookup(s.rid, ssrc)
      BY DEF Names
    <2>2. StampValue(s, ssrc, hints, time, "rtp-stream-id") = IF v = S!None THEN S!Nothing ELSE S!Name(v)
      BY <1>1, <2>1, Zenon DEF StampValue, S!Lookup
    <2>3. At(out, s.extMap, "rtp-stream-id") = IF v = None THEN At(exts, s.extMap, "rtp-stream-id") ELSE S!Name(v)
      BY <1>3, <2>2, StampedName
    <2>4. FirstOf(S!Name(v)) = v
      BY NameRead
    <2>5. At(exts, s.extMap, "rtp-stream-id") = <<>> /\ FirstOf(<<>>) = None
      BY <1>2 DEF FirstOf
    <2>6. Heard(out, s.extMap, theirs, "repaired-rtp-stream-id") = <<>>
      <3>1. StampValue(s, ssrc, hints, time, "repaired-rtp-stream-id") = <<>>
        BY <1>1 DEF StampValue, S!Nothing
      <3>2. CASE "repaired-rtp-stream-id" \in DOMAIN s.extMap
        <4>1. At(out, s.extMap, "repaired-rtp-stream-id") = At(exts, s.extMap, "repaired-rtp-stream-id")
          BY <3>1, <3>2 DEF Stamped, S!Nothing
        <4> QED BY <1>2, <4>1 DEF Heard
      <3>3. CASE "repaired-rtp-stream-id" \notin DOMAIN s.extMap
        BY <3>3 DEF Heard, At
      <3> QED BY <3>2, <3>3
    <2> QED BY <1>3, <2>1, <2>3, <2>4, <2>5, <2>6 DEF Heard, LayerHeard
  <1>6. t.level = LevelOf(Heard(out, s.extMap, theirs, "audio-level"))
    <2>1. PICK value : value = StampValue(s, ssrc, hints, time, "audio-level")
      OBVIOUS
    <2>2. value = IF hints.audioLevel = S!None THEN S!Nothing ELSE S!AudioLevel(hints.audioLevel, hints.voice)
      BY <2>1 DEF StampValue
    <2>3. CASE level = None
      <3>1. value = <<>> /\ ~ direct
        BY <1>1, <2>2, <2>3, Zenon DEF S!Nothing
      <3>2. At(exts, s.extMap, "audio-level") = <<>>
        BY <1>8, <3>1
      <3>3. At(out, s.extMap, "audio-level") = <<>>
        <4>1. CASE "audio-level" \in DOMAIN s.extMap
          BY <2>1, <3>1, <3>2, <4>1 DEF Stamped, S!Nothing
        <4>2. CASE "audio-level" \notin DOMAIN s.extMap
          BY <4>2 DEF At
        <4> QED BY <4>1, <4>2
      <3> QED BY <2>3, <3>3 DEF Heard, LevelOf, LevelTold
    <2>4. CASE level # None /\ direct
      <3>1. value = <<>>
        BY <1>1, <2>2, <2>4, Zenon DEF S!Nothing
      <3>2. At(out, s.extMap, "audio-level") = H!AudioLevel(level, TRUE)
        BY <1>8, <2>1, <2>4, <3>1, Zenon DEF Stamped, S!Nothing
      <3>3. level \in 0 .. 127
        BY <2>4
      <3>4. LevelOf(H!AudioLevel(level, TRUE)) = {[level |-> level, voice |-> TRUE]}
        BY <3>3, LevelRead, Zenon
      <3> QED BY <2>4, <3>2, <3>4, Zenon DEF Heard, LevelTold
    <2>5. CASE level # None /\ ~ direct
      <3>1. value = S!AudioLevel(level, TRUE)
        BY <1>1, <2>2, <2>5, Zenon
      <3>2. level \in 0 .. 127
        BY <2>5
      <3>3. S!AudioLevel(level, TRUE) # <<>> /\ LevelOf(S!AudioLevel(level, TRUE)) = {[level |-> level, voice |-> TRUE]}
        BY <3>2, LevelRead, Zenon
      <3>4. At(out, s.extMap, "audio-level") = S!AudioLevel(level, TRUE)
        BY <2>1, <2>5, <3>1, <3>3, Zenon DEF Stamped, S!Nothing
      <3> QED BY <2>5, <3>3, <3>4, Zenon DEF Heard, LevelTold
    <2> QED BY <2>3, <2>4, <2>5
  <1>7. t.time = TimeOf(Heard(out, s.extMap, theirs, "abs-send-time"))
    BY StampedTime DEF Both
  <1> QED BY <1>4, <1>5, <1>6, <1>7 DEF Tells

(* A retransmission names the packet's stream and the layer it repairs.    *)
LEMMA RepeatTells ==
    ASSUME NEW s, NEW ssrc, Names(s, ssrc), NEW time \in Int, NEW exts, NEW out,
           Stamped(s, ssrc, S!NoHints, time, exts, out), NEW theirs, Both(s.extMap, theirs),
           "repaired-rtp-stream-id" \in DOMAIN s.extMap \cap DOMAIN theirs,
           NEW t, Tells(exts, s.extMap, theirs, t), t.mid = S!MidOf(s, ssrc), t.mid # None,
           t.rid = S!Lookup(s.rrid, ssrc), t.rid # None, t.time = TimeTold(time, theirs)
    PROVE  Tells(out, s.extMap, theirs, t)
  <1>1. None = S!None /\ None = -1
    BY DEF None, S!None
  <1>2. "mid" \in DOMAIN s.extMap /\ "mid" \in DOMAIN theirs
    BY DEF Both
  <1>3. t.mid = FirstOf(Heard(out, s.extMap, theirs, "mid"))
    <2>1. PICK v \in Int : v = S!MidOf(s, ssrc)
      BY DEF Names
    <2>2. StampValue(s, ssrc, S!NoHints, time, "mid") = IF v = S!None THEN S!Nothing ELSE S!Name(v)
      BY <2>1 DEF StampValue
    <2>3. At(out, s.extMap, "mid") = IF v = None THEN At(exts, s.extMap, "mid") ELSE S!Name(v)
      BY <1>2, <2>2, StampedName
    <2> QED BY <1>2, <2>1, <2>3, NameRead DEF Heard
  <1>4. t.rid = FirstOf(LayerHeard(out, s.extMap, theirs))
    <2>1. PICK v \in Int : v = S!Lookup(s.rrid, ssrc)
      BY DEF Names
    <2>2. StampValue(s, ssrc, S!NoHints, time, "repaired-rtp-stream-id") = IF v = S!None THEN S!Nothing ELSE S!Name(v)
      BY <1>1, <2>1 DEF StampValue, S!Lookup
    <2>3. At(out, s.extMap, "repaired-rtp-stream-id") = S!Name(v)
      <3>1. At(out, s.extMap, "repaired-rtp-stream-id")
              = IF v = None THEN At(exts, s.extMap, "repaired-rtp-stream-id") ELSE S!Name(v)
        BY <2>2, StampedName
      <3> QED BY <2>1, <3>1
    <2> QED BY <2>1, <2>3, NameRead DEF Heard, LayerHeard
  <1>5. t.level = LevelOf(Heard(out, s.extMap, theirs, "audio-level"))
    <2>1. StampValue(s, ssrc, S!NoHints, time, "audio-level") = S!Nothing
      BY DEF StampValue, S!NoHints
    <2>2. At(out, s.extMap, "audio-level") = At(exts, s.extMap, "audio-level")
      <3>1. CASE "audio-level" \in DOMAIN s.extMap
        BY <2>1, <3>1 DEF Stamped
      <3>2. CASE "audio-level" \notin DOMAIN s.extMap
        BY <3>2 DEF At
      <3> QED BY <3>1, <3>2
    <2> QED BY <2>2 DEF Heard, Tells
  <1>6. t.time = TimeOf(Heard(out, s.extMap, theirs, "abs-send-time"))
    BY StampedTime DEF Both
  <1> QED BY <1>3, <1>4, <1>5, <1>6 DEF Tells

-----------------------------------------------------------------------------
Heeded == mode \in {"recovery", "layers"}

(* The packets of a session whose packets are read have numbers of their   *)
(* own.                                                                    *)
LEMMA HeededFacts ==
    ASSUME Heeded, mode \in Modes
    PROVE  /\ StartSeq \in Int /\ StartNow[mode] \in Int
           /\ Media[mode] \in Seq(MediaPackets) /\ Len(Media[mode]) \in Nat /\ Len(Media[mode]) <= SeqSpace
           /\ \A n \in Numbers :
                 n \in 1 .. SeqSpace /\ n \in 0 .. WordSpace - 1 /\ Media[mode][n] \in MediaPackets
  <1>1. mode \in Modes \cap {"recovery", "layers"}
    BY DEF Heeded
  <1>2. /\ StartNow[mode] \in Int /\ Media[mode] \in Seq(MediaPackets) /\ Len(Media[mode]) <= SeqSpace
        /\ StartSeq \in Int /\ Len(Media[mode]) < WordSpace
    BY <1>1, SessionsAssumption
  <1>3. Len(Media[mode]) \in Nat
    BY <1>2, LenProperties
  <1>4. ASSUME NEW n \in Numbers
        PROVE  n \in 1 .. SeqSpace /\ n \in 0 .. WordSpace - 1 /\ Media[mode][n] \in MediaPackets
    <2>1. n \in 1 .. Len(Media[mode])
      BY <1>4 DEF Numbers
    <2>2. Media[mode][n] \in MediaPackets
      BY <1>2, <2>1, ElementOfSeq
    <2>3. n \in 1 .. SeqSpace /\ n \in 0 .. WordSpace - 1
      BY <1>2, <1>3, <2>1, WireAssumption
    <2> QED BY <2>2, <2>3
  <1> QED BY <1>2, <1>3, <1>4

(* The ids both ends know.                                                 *)
LEMMA KnownIds ==
    ASSUME Heeded, mode \in Modes, NEW i \in DOMAIN ExtMaps[mode]
    PROVE  /\ IsIds(ExtMaps[mode][i]) /\ IsIds(TheirIds[mode]) /\ Both(ExtMaps[mode][i], TheirIds[mode])
           /\ \A n \in Numbers : Media[mode][n].level # None =>
                 "audio-level" \in DOMAIN ExtMaps[mode][i] \cap DOMAIN TheirIds[mode]
  <1>1. mode \in Modes \cap {"recovery", "layers"}
    BY DEF Heeded
  <1>2. PICK levels : levels = {Media[mode][n].level : n \in DOMAIN Media[mode]} \cup {None}
    BY Zenon
  <1>3. Understood(ExtMaps[mode][i], TheirIds[mode], levels)
    BY <1>1, <1>2, SessionsAssumption, Zenon
  <1>4. DOMAIN Media[mode] = Numbers
    BY HeededFacts, LenProperties DEF Numbers
  <1>5. ASSUME NEW n \in Numbers, Media[mode][n].level # None PROVE levels # {None}
    BY <1>2, <1>4, <1>5, Zenon
  <1> QED BY <1>3, <1>5 DEF Understood, Both

(* The payload, and the padding that the packetizer adds.                  *)
LEMMA PayloadIn ==
    ASSUME NEW m \in MediaPackets, NEW n \in Int
    PROVE  Payload(m, n) \in Seq(Plain)
  <1>1. PICK k \in Nat : k = m.size
    BY DEF MediaPackets
  <1>2. PICK f : f = [i \in 1 .. k |-> H!Octet("media", n, i)]
    BY Zenon
  <1>3. \A i \in 1 .. k : H!Octet("media", n, i) \in Plain
    BY DEF Plain, AnyOctet, Kinds, H!Octet
  <1>4. f \in [1 .. k -> Plain]
    BY <1>2, <1>3
  <1>5. f \in Seq(Plain)
    BY <1>4, FcnSeq
  <1> QED BY <1>1, <1>2, <1>5 DEF Payload

(* The last octet of the padding is its length.                            *)
LEMMA PadIn ==
    ASSUME NEW k \in Nat
    PROVE  /\ H!Octets("pad", k, k) \in Seq(Plain)
           /\ IF k > 0 THEN Len(H!Octets("pad", k, k)) > 0 /\ H!Octets("pad", k, k)[Len(H!Octets("pad", k, k))].v = Len(H!Octets("pad", k, k))
              ELSE H!Octets("pad", k, k) = <<>>
  <1>1. PICK f : f = [i \in 1 .. k |-> H!Octet("pad", k, i)]
    BY Zenon
  <1>2. \A i \in 1 .. k : H!Octet("pad", k, i) \in Plain /\ H!Octet("pad", k, i).v = k
    BY DEF Plain, AnyOctet, Kinds, H!Octet
  <1>3. f \in [1 .. k -> Plain] /\ \A i \in 1 .. k : f[i].v = k
    BY <1>1, <1>2
  <1>4. f \in Seq(Plain) /\ Len(f) = k
    BY <1>3, FcnSeq
  <1>5. k > 0 => f[k].v = k
    BY <1>3
  <1>6. ~ k > 0 => f = <<>>
    BY <1>4, EmptySeq
  <1>7. H!Octets("pad", k, k) = f
    BY <1>1 DEF H!Octets
  <1> QED BY <1>4, <1>5, <1>6, <1>7

(* A packet as the packetizer made it.                                     *)
Direct(m) == m.level # None /\ ~ m.hinted
Made(pkt, m, n, ssrc, ids) ==
    /\ pkt.ssrc = ssrc /\ pkt.seq = SeqNo(n) /\ pkt.ts = n /\ pkt.m = m.marker /\ pkt.pt = MediaPt
    /\ \E exts, pad : /\ Padded(pkt, pad) /\ pad \in Seq(Plain) /\ Begun(exts, ids, m.level, Direct(m))
                      /\ Carries(pkt, m.csrc, exts, Payload(m, n) \o pad)

(* A packet as serializeRtpPacket writes it, before anything is stamped.   *)
LEMMA MadePlain ==
    ASSUME StartSeq \in Int, NEW m \in MediaPackets, NEW n \in 0 .. WordSpace - 1,
           NEW ssrc \in 0 .. WordSpace - 1, NEW ids
    PROVE  LET pkt == H!Serialize([padding |-> m.pad > 0, exts |-> H!NoExts, csrc |-> m.csrc,
                            marker |-> m.marker, pt |-> MediaPt, seq |-> SeqNo(n), ts |-> n,
                            ssrc |-> ssrc, payload |-> Payload(m, n) \o H!Octets("pad", m.pad, m.pad)])
           IN  /\ SameHeader(pkt, [p |-> m.pad > 0, m |-> m.marker, pt |-> MediaPt, seq |-> SeqNo(n), ts |-> n, ssrc |-> ssrc])
               /\ Padded(pkt, H!Octets("pad", m.pad, m.pad)) /\ H!Octets("pad", m.pad, m.pad) \in Seq(Plain)
               /\ Carries(pkt, m.csrc, H!NoExts, Payload(m, n) \o H!Octets("pad", m.pad, m.pad))
  <1>1. PICK k \in Nat : k = m.pad
    BY DEF MediaPackets
  <1>2. PICK pad : pad = H!Octets("pad", k, k)
    OBVIOUS
  <1>3. pad \in Seq(Plain) /\ IF k > 0 THEN Len(pad) > 0 /\ pad[Len(pad)].v = Len(pad) ELSE pad = <<>>
    BY <1>2, PadIn, Zenon
  <1>4. PICK rest : rest = Payload(m, n) \o pad
    BY Zenon
  <1>5. rest \in Octs /\ pad \in Octs
    <2>1. Payload(m, n) \in Octs /\ pad \in Octs
      BY <1>3, PayloadIn, PlainSeq DEF Octs
    <2> QED BY <1>4, <2>1, Cat
  <1>6. PICK r : r = [padding |-> k > 0, exts |-> H!NoExts, csrc |-> m.csrc, marker |-> m.marker, pt |-> MediaPt,
                      seq |-> SeqNo(n), ts |-> n, ssrc |-> ssrc, payload |-> rest]
    BY Zenon
  <1>7. /\ m.csrc \in Csrcs /\ m.marker \in BOOLEAN /\ MediaPt \in 0 .. 127
        /\ SeqNo(n) \in 0 .. SeqSpace - 1 /\ H!NoExts \in ExtSets
    <2>1. n \in Int
      BY WireAssumption
    <2> QED BY <2>1, SeqNoIn, NoExtsIn DEF MediaPackets, MediaPt
  <1>8. (k > 0) \in BOOLEAN
    OBVIOUS
  <1>9. r \in Asked
    BY <1>5, <1>6, <1>7, <1>8 DEF Asked
  <1>10. PICK pkt : pkt = H!Serialize(r)
    OBVIOUS
  <1>11. /\ Carries(pkt, r.csrc, r.exts, r.payload)
         /\ pkt.p = r.padding /\ pkt.m = r.marker /\ pkt.pt = r.pt
         /\ pkt.seq = r.seq /\ pkt.ts = r.ts /\ pkt.ssrc = r.ssrc
    BY <1>9, <1>10, SerializeCarries
  <1>12. /\ r.csrc = m.csrc /\ r.exts = H!NoExts /\ r.payload = rest /\ r.padding = (k > 0) /\ r.marker = m.marker
         /\ r.pt = MediaPt /\ r.seq = SeqNo(n) /\ r.ts = n /\ r.ssrc = ssrc
    BY <1>6
  <1>13. Padded(pkt, pad)
    BY <1>3, <1>5, <1>11, <1>12, Zenon DEF Padded
  <1>14. SameHeader(pkt, [p |-> m.pad > 0, m |-> m.marker, pt |-> MediaPt, seq |-> SeqNo(n), ts |-> n, ssrc |-> ssrc])
    BY <1>1, <1>11, <1>12 DEF SameHeader
  <1>15. Carries(pkt, m.csrc, H!NoExts, rest)
    BY <1>11, <1>12
  <1> QED BY <1>1, <1>2, <1>3, <1>4, <1>6, <1>10, <1>13, <1>14, <1>15, Zenon

(* It tells nothing yet,                                                   *)
LEMMA BegunPlain ==
    ASSUME NEW ids, NEW level
    PROVE  Begun(H!NoExts, ids, level, FALSE)
  <1>1. \A name : At(H!NoExts, ids, name) = <<>>
    BY NoExtsIn DEF At
  <1> QED BY <1>1 DEF Begun

(* or the audio level the application gave it.                             *)
LEMMA BegunWithLevel ==
    ASSUME NEW ids, IsIds(ids), "audio-level" \in DOMAIN ids, NEW level
    PROVE  Begun(Merged([i \in {ids["audio-level"]} |-> H!AudioLevel(level, TRUE)], H!NoExts), ids, level, TRUE)
  <1>1. PICK v, id : v = H!AudioLevel(level, TRUE) /\ id = ids["audio-level"]
    BY Zenon
  <1>2. PICK add : add = [i \in {id} |-> v]
    BY Zenon
  <1>3. PICK exts : exts = Merged(add, H!NoExts)
    OBVIOUS
  <1>4. DOMAIN exts = {id} /\ exts[id] = v
    BY <1>2, <1>3, NoExtsIn DEF Merged
  <1>5. ASSUME NEW name PROVE At(exts, ids, name) = IF name = "audio-level" THEN v ELSE <<>>
    <2>1. name \in DOMAIN ids /\ ids[name] = id => name = "audio-level"
      BY <1>1 DEF IsIds
    <2> QED BY <1>1, <1>4, <2>1, Zenon DEF At
  <1>6. Begun(exts, ids, level, TRUE)
    BY <1>1, <1>5, Zenon DEF Begun
  <1> QED BY <1>1, <1>2, <1>3, <1>6, Zenon

(* Audio levels are integers.                                              *)
LEMMA LevelIn ==
    ASSUME NEW level \in 0 .. 127
    PROVE  H!AudioLevel(level, TRUE) \in Seq(Plain) /\ Len(H!AudioLevel(level, TRUE)) \in 1 .. 16
  <1>1. PICK v \in Int : v = (IF TRUE THEN 128 ELSE 0) + (level % 128)
    OBVIOUS
  <1>2. "level" \in Kinds \ {"osn"} /\ 1 \in 1 .. 16
    BY DEF Kinds
  <1>3. H!Octets("level", v, 1) \in Seq(Plain) /\ Len(H!Octets("level", v, 1)) \in 1 .. 16
    BY <1>2, ValuePlain
  <1> QED BY <1>1, <1>3 DEF H!AudioLevel

(* An SSRC is a word.                                                      *)
LEMMA SsrcsIn == Ssrcs \cup {RtxSsrc} \subseteq 0 .. WordSpace - 1
  BY SessionsAssumption, WireAssumption DEF Ssrcs, Primary, Second, RtxSsrc

(* What the packetizer hands to the stamper.                               *)
LEMMA PacketMade ==
    ASSUME Heeded, mode \in Modes, NEW i \in DOMAIN ExtMaps[mode], stamper.extMap = ExtMaps[mode][i],
           NEW n \in Numbers, NEW ssrc \in Ssrcs
    PROVE  Made(Packet(n, ssrc), Media[mode][n], n, ssrc, stamper.extMap)
  <1>1. PICK m \in MediaPackets : m = Media[mode][n]
    BY HeededFacts
  <1>2. PICK ids : ids = stamper.extMap
    OBVIOUS
  <1>3. IsIds(ids) /\ (m.level # None => "audio-level" \in DOMAIN ids)
    BY <1>1, <1>2, KnownIds
  <1>4. PICK pkt : pkt = H!Serialize([padding |-> m.pad > 0, exts |-> H!NoExts, csrc |-> m.csrc,
                            marker |-> m.marker, pt |-> MediaPt, seq |-> SeqNo(n), ts |-> n,
                            ssrc |-> ssrc, payload |-> Payload(m, n) \o H!Octets("pad", m.pad, m.pad)])
    OBVIOUS
  <1>5. PICK pad : pad = H!Octets("pad", m.pad, m.pad)
    OBVIOUS
  <1>6. /\ SameHeader(pkt, [p |-> m.pad > 0, m |-> m.marker, pt |-> MediaPt, seq |-> SeqNo(n), ts |-> n, ssrc |-> ssrc])
        /\ Padded(pkt, pad) /\ pad \in Seq(Plain)
        /\ Carries(pkt, m.csrc, H!NoExts, Payload(m, n) \o pad)
    <2>1. n \in 0 .. WordSpace - 1 /\ StartSeq \in Int
      BY HeededFacts
    <2>2. ssrc \in 0 .. WordSpace - 1
      BY SsrcsIn
    <2> QED BY <1>4, <1>5, <2>1, <2>2, MadePlain, Zenon
  <1>7. pkt.m = m.marker /\ pkt.pt = MediaPt /\ pkt.seq = SeqNo(n) /\ pkt.ts = n /\ pkt.ssrc = ssrc
    BY <1>6 DEF SameHeader
  <1>8. Packet(n, ssrc) = IF m.level = None \/ m.hinted THEN pkt
                          ELSE H!SetHeaderExtension(pkt, ids["audio-level"], H!AudioLevel(m.level, TRUE))
    BY <1>1, <1>2, <1>4, Zenon DEF Packet
  <1>9. m.hinted \in BOOLEAN /\ m.level \in (0 .. 127) \cup {None}
    BY DEF MediaPackets
  <1>10. CASE m.level = None \/ m.hinted
    <2>1. Packet(n, ssrc) = pkt /\ Direct(m) = FALSE
      BY <1>8, <1>9, <1>10, Zenon DEF Direct
    <2>2. Begun(H!NoExts, ids, m.level, Direct(m))
      BY <2>1, BegunPlain, Zenon
    <2>3. Made(pkt, m, n, ssrc, ids)
      BY <1>6, <1>7, <2>2 DEF Made
    <2> QED BY <1>1, <1>2, <2>1, <2>3
  <1>11. CASE ~ (m.level = None \/ m.hinted)
    <2>1. PICK out : out = H!SetHeaderExtension(pkt, ids["audio-level"], H!AudioLevel(m.level, TRUE))
      BY Zenon
    <2>2. Packet(n, ssrc) = out /\ Direct(m) = TRUE
      BY <1>8, <1>9, <1>11, <2>1 DEF Direct
    <2>3. PICK level \in 0 .. 127 : level = m.level
      BY <1>9, <1>11
    <2>4. PICK id \in 1 .. 14 : id = ids["audio-level"] /\ "audio-level" \in DOMAIN ids
      BY <1>3, <1>11 DEF IsIds
    <2>5. PICK value \in Seq(Plain) : value = H!AudioLevel(level, TRUE) /\ Len(value) \in 1 .. 16
      BY LevelIn, Zenon
    <2>6. PICK exts : exts = Merged([j \in {id} |-> value], H!NoExts)
      OBVIOUS
    <2>7. Carries(out, m.csrc, exts, Payload(m, n) \o pad) /\ SameHeader(out, pkt)
      BY <1>6, <2>1, <2>3, <2>4, <2>5, <2>6, SetOneCarries, Zenon
    <2>8. Begun(exts, ids, level, TRUE)
      BY <1>3, <2>4, <2>5, <2>6, BegunWithLevel, Zenon
    <2>9. Padded(out, pad)
      BY <1>6, <2>7 DEF Padded, SameHeader
    <2>10. out.ssrc = ssrc /\ out.seq = SeqNo(n) /\ out.ts = n /\ out.m = m.marker /\ out.pt = MediaPt
      BY <1>7, <2>7 DEF SameHeader
    <2>11. Made(out, m, n, ssrc, ids)
      BY <1>6, <2>2, <2>3, <2>7, <2>8, <2>9, <2>10, Zenon DEF Made
    <2> QED BY <1>1, <1>2, <2>2, <2>11
  <1> QED BY <1>10, <1>11

-----------------------------------------------------------------------------
(* What was told and what the stamper writes are the same.                 *)
StamperFields == {"extMap", "mid", "midPayload", "midBySsrc", "rid", "rrid", "twcc"}
ToldNames == [mid : Int, mids : [Ssrcs -> Int], rids : [Ssrcs -> Int]]
Says(s, ssrc, mid, rid, rrid) ==
    S!Lookup(s.midBySsrc, ssrc) = mid /\ S!Lookup(s.rid, ssrc) = rid /\ S!Lookup(s.rrid, ssrc) = rrid
StamperTold ==
    /\ DOMAIN stamper = StamperFields /\ stamper.twcc \in Int /\ told \in ToldNames
    /\ stamper.mid = told.mid /\ stamper.midPayload = S!MidPayload(stamper.mid, stamper.extMap)
    /\ \E i \in DOMAIN ExtMaps[mode] : stamper.extMap = ExtMaps[mode][i]
    /\ ~stopped => \A ssrc \in Ssrcs : Says(stamper, ssrc, told.mids[ssrc], told.rids[ssrc], None)
    /\ mode = "recovery" /\ ~stopped =>
          /\ Says(stamper, RtxSsrc, 5, 8, 7) /\ told.mids[Primary] = 5 /\ told.rids[Primary] = 7

(* The stamper writes the names the application was told last.             *)
LEMMA MidTolds ==
    ASSUME StamperTold, Heeded, mode \in Modes, ~stopped, NEW ssrc \in Ssrcs
    PROVE  /\ Names(stamper, ssrc)
           /\ S!MidOf(stamper, ssrc) = MidTold(ssrc) /\ S!Lookup(stamper.rid, ssrc) = told.rids[ssrc]
           /\ S!Lookup(stamper.rrid, ssrc) = None /\ MidTold(ssrc) \in Int /\ told.rids[ssrc] \in Int
  <1>1. PICK i \in DOMAIN ExtMaps[mode] : stamper.extMap = ExtMaps[mode][i]
    BY DEF StamperTold
  <1>2. IsIds(stamper.extMap) /\ "mid" \in DOMAIN stamper.extMap
    BY <1>1, KnownIds DEF Both
  <1>3. Says(stamper, ssrc, told.mids[ssrc], told.rids[ssrc], None)
    BY DEF StamperTold
  <1>4. stamper.midPayload = told.mid
    BY <1>2 DEF StamperTold, S!MidPayload
  <1>5. told.mid \in Int /\ told.mids[ssrc] \in Int /\ told.rids[ssrc] \in Int
    BY DEF StamperTold, ToldNames
  <1>6. None = S!None /\ None \in Int
    BY DEF None, S!None
  <1>7. S!MidOf(stamper, ssrc) = MidTold(ssrc)
    BY <1>3, <1>4, <1>6 DEF S!MidOf, MidTold, Says, S!Lookup
  <1>8. MidTold(ssrc) \in Int
    BY <1>5 DEF MidTold
  <1>9. stamper.twcc \in Int
    BY DEF StamperTold
  <1> QED BY <1>2, <1>3, <1>5, <1>6, <1>7, <1>8, <1>9 DEF Names, Says

(* A packet as it was stamped and sent, and as it was sent again.          *)
Fresh(pkt, t, ids, theirs) ==
    /\ SameWords(pkt, t)
    /\ \E exts, pad : /\ Padded(pkt, pad) /\ pad \in Seq(Plain) /\ Tells(exts, ids, theirs, t)
                      /\ Carries(pkt, t.csrc, exts, t.payload \o pad)
Repeats(pkt, t, ids, theirs) ==
    /\ pkt.ssrc = RtxSsrc /\ pkt.ts = t.ts /\ pkt.m = t.marker
    /\ \E exts, pad : /\ Padded(pkt, pad) /\ pad \in Seq(Plain) /\ Tells(exts, ids, theirs, t)
                      /\ Carries(pkt, t.csrc, exts, (Osn(t.seq) \o t.payload) \o pad)

(* What the sender means a packet to say.                                  *)
LEMMA TruthIn ==
    ASSUME StamperTold, Heeded, mode \in Modes, ~stopped, NEW n \in Numbers, NEW ssrc \in Ssrcs, now = StartNow[mode]
    PROVE  /\ Truth(n, ssrc) \in Truths
           /\ Truth(n, ssrc).ssrc = ssrc /\ Truth(n, ssrc).seq = SeqNo(n) /\ Truth(n, ssrc).ts = n
           /\ Truth(n, ssrc).marker = Media[mode][n].marker /\ Truth(n, ssrc).pt = MediaPt
           /\ Truth(n, ssrc).csrc = Media[mode][n].csrc /\ Truth(n, ssrc).payload = Payload(Media[mode][n], n)
           /\ Truth(n, ssrc).mid = MidTold(ssrc) /\ Truth(n, ssrc).rid = told.rids[ssrc]
           /\ Truth(n, ssrc).level = LevelTold(Media[mode][n].level) /\ Truth(n, ssrc).time = TimeTold(now, TheirIds[mode])
  <1>1. PICK m \in MediaPackets : m = Media[mode][n]
    BY HeededFacts
  <1>2. PICK t : t = Truth(n, ssrc)
    OBVIOUS
  <1>3. PICK level, time : level = LevelTold(m.level) /\ time = TimeTold(now, TheirIds[mode])
    OBVIOUS
  <1>4. t = [ssrc |-> ssrc, seq |-> SeqNo(n), ts |-> n, marker |-> m.marker, pt |-> MediaPt, csrc |-> m.csrc,
             payload |-> Payload(m, n), mid |-> MidTold(ssrc), rid |-> told.rids[ssrc], level |-> level, time |-> time]
    BY <1>1, <1>2, <1>3, Zenon DEF Truth, LevelTold, TimeTold
  <1>5. level \in SUBSET [level : Int, voice : BOOLEAN]
    <2>1. m.level = None \/ m.level \in Int
      <3>1. m.level \in (0 .. 127) \cup {None}
        BY DEF MediaPackets
      <3> QED BY <3>1
    <2> QED BY <1>3, <2>1 DEF LevelTold
  <1>6. time \in SUBSET (Int \X Int)
    <2>1. PICK v, x \in Int : x = now /\ v = H!Fixed(x) /\ v = S!Fixed(x)
      BY HeededFacts, FixedIn
    <2>2. v \in Int /\ TickRate \in Int
      BY <2>1, FixedIn, WireAssumption
    <2> QED BY <1>3, <2>1, <2>2 DEF TimeTold
  <1>7. ssrc \in Int /\ SeqNo(n) \in Int /\ n \in Int /\ m.marker \in BOOLEAN /\ m.csrc \in Seq(Int)
    <2>1. n \in Int /\ StartSeq \in Int
      BY HeededFacts
    <2>2. m.csrc \in Csrcs
      BY DEF MediaPackets
    <2>3. m.csrc \in Seq(Int)
      BY <2>2, CsrcWhole, Zenon
    <2> QED BY <2>1, <2>3, SeqNoIn DEF Ssrcs, Primary, Second, MediaPackets
  <1>8. Payload(m, n) \in Seq(Plain) /\ MidTold(ssrc) \in Int /\ told.rids[ssrc] \in Int
    BY <1>7, PayloadIn, MidTolds
  <1>9. t \in Truths
    BY <1>4, <1>5, <1>6, <1>7, <1>8 DEF Truths
  <1>10. /\ t.ssrc = ssrc /\ t.seq = SeqNo(n) /\ t.ts = n /\ t.marker = m.marker /\ t.pt = MediaPt /\ t.csrc = m.csrc
         /\ t.payload = Payload(m, n) /\ t.mid = MidTold(ssrc) /\ t.rid = told.rids[ssrc] /\ t.level = level /\ t.time = time
    BY <1>4
  <1> QED BY <1>1, <1>2, <1>3, <1>9, <1>10

(* A packet that is sent says what was told when it was sent.              *)
LEMMA SendFresh ==
    ASSUME StamperTold, Heeded, mode \in Modes, ~stopped, NEW n \in Numbers, NEW ssrc \in Ssrcs, now = StartNow[mode]
    PROVE  Fresh(S!Stamp(stamper, Packet(n, ssrc), Hints(n), now).pkt, Truth(n, ssrc), stamper.extMap, TheirIds[mode])
  <1>1. PICK i \in DOMAIN ExtMaps[mode] : stamper.extMap = ExtMaps[mode][i]
    BY DEF StamperTold
  <1>2. PICK m \in MediaPackets : m = Media[mode][n]
    BY HeededFacts
  <1>3. PICK pkt : pkt = Packet(n, ssrc)
    OBVIOUS
  <1>4. PICK theirs : theirs = TheirIds[mode]
    OBVIOUS
  <1>5. Made(pkt, m, n, ssrc, stamper.extMap)
    BY <1>1, <1>2, <1>3, PacketMade
  <1>6. PICK exts, pad : /\ Padded(pkt, pad) /\ pad \in Seq(Plain) /\ Begun(exts, stamper.extMap, m.level, Direct(m))
                         /\ Carries(pkt, m.csrc, exts, Payload(m, n) \o pad)
    BY <1>5 DEF Made
  <1>7. pkt.ssrc = ssrc /\ pkt.seq = SeqNo(n) /\ pkt.ts = n /\ pkt.m = m.marker /\ pkt.pt = MediaPt
    BY <1>5 DEF Made
  <1>8. Names(stamper, ssrc) /\ Names(stamper, pkt.ssrc)
    BY <1>7, MidTolds
  <1>9. PICK hints : hints = Hints(n)
    OBVIOUS
  <1>10. m.level \in (0 .. 127) \cup {None} /\ m.hinted \in BOOLEAN /\ None \in Int
    BY DEF MediaPackets, None, S!None
  <1>11. /\ hints.audioLevel = IF Direct(m) THEN None ELSE m.level
         /\ hints.audioLevel # None => hints.voice = TRUE
    <2>1. CASE m.hinted
      <3>1. hints = [audioLevel |-> m.level, voice |-> TRUE]
        BY <1>2, <1>9, <2>1 DEF Hints
      <3> QED BY <2>1, <3>1 DEF Direct
    <2>2. CASE ~ m.hinted
      <3>1. hints = [audioLevel |-> None, voice |-> FALSE]
        BY <1>2, <1>9, <2>2 DEF Hints, S!NoHints, None
      <3> QED BY <2>2, <3>1 DEF Direct
    <2> QED BY <2>1, <2>2, Zenon
  <1>12. hints.audioLevel \in Int
    BY <1>10, <1>11
  <1>13. PICK time \in Int : time = now
    BY HeededFacts
  <1>14. PICK sent0 : sent0 = S!Stamp(stamper, pkt, hints, time).pkt
    OBVIOUS
  <1>15. PICK out : /\ Carries(sent0, m.csrc, out, Payload(m, n) \o pad)
                    /\ SameHeader(sent0, pkt)
                    /\ Stamped(stamper, pkt.ssrc, hints, time, exts, out)
    BY <1>6, <1>8, <1>12, <1>14, StampCarries
  <1>16. PICK t \in Truths : t = Truth(n, ssrc)
    BY TruthIn
  <1>17. /\ t.ssrc = ssrc /\ t.seq = SeqNo(n) /\ t.ts = n /\ t.marker = m.marker /\ t.pt = MediaPt
         /\ t.csrc = m.csrc /\ t.payload = Payload(m, n)
         /\ t.mid = MidTold(ssrc) /\ t.rid = told.rids[ssrc]
         /\ t.level = LevelTold(m.level) /\ t.time = TimeTold(time, theirs)
    BY <1>2, <1>4, <1>13, <1>16, TruthIn
  <1>18. Tells(out, stamper.extMap, theirs, t)
    <2>1. t.mid = S!MidOf(stamper, ssrc) /\ t.rid = S!Lookup(stamper.rid, ssrc) /\ S!Lookup(stamper.rrid, ssrc) = None
      BY <1>17, MidTolds
    <2>2. Both(stamper.extMap, theirs) /\ (m.level # None => "audio-level" \in DOMAIN stamper.extMap \cap DOMAIN theirs)
      BY <1>1, <1>2, <1>4, KnownIds
    <2>3. Direct(m) \in BOOLEAN /\ (Direct(m) => m.level # None)
      BY <1>10 DEF Direct
    <2>4. Stamped(stamper, ssrc, hints, time, exts, out)
      BY <1>7, <1>15
    <2>5. PICK direct \in BOOLEAN, level \in (0 .. 127) \cup {None} : direct = Direct(m) /\ level = m.level
      BY <1>10, <2>3
    <2>6. /\ Begun(exts, stamper.extMap, level, direct)
          /\ direct => level # None
          /\ hints.audioLevel = IF direct THEN None ELSE level
          /\ level # None => "audio-level" \in DOMAIN stamper.extMap \cap DOMAIN theirs
          /\ t.level = LevelTold(level)
      BY <1>6, <1>11, <1>17, <2>2, <2>3, <2>5
    <2>7. t.mid = S!MidOf(stamper, ssrc) /\ t.rid = S!Lookup(stamper.rid, ssrc) /\ t.time = TimeTold(time, theirs)
      BY <1>17, <2>1
    <2>8. Names(stamper, ssrc) /\ (hints.audioLevel # None => hints.voice = TRUE) /\ S!Lookup(stamper.rrid, ssrc) = None
      BY <1>8, <1>11, <2>1
    <2>9. Both(stamper.extMap, theirs)
      BY <2>2
    <2> QED BY <2>4, <2>6, <2>7, <2>8, <2>9, SentTells, Zenon
  <1>19. Padded(sent0, pad)
    BY <1>6, <1>15 DEF Padded, SameHeader
  <1>20. SameWords(sent0, t)
    BY <1>7, <1>15, <1>17 DEF SameWords, SameHeader
  <1>21. Carries(sent0, t.csrc, out, t.payload \o pad)
    BY <1>15, <1>17
  <1>22. Fresh(sent0, t, stamper.extMap, theirs)
    BY <1>6, <1>18, <1>19, <1>20, <1>21 DEF Fresh
  <1> QED BY <1>3, <1>4, <1>9, <1>13, <1>14, <1>16, <1>22

(* The stamper after it has stamped: only its counter has moved.           *)
SameNames(s, old) ==
    /\ DOMAIN s = StamperFields /\ s.twcc \in Int
    /\ s.extMap = old.extMap /\ s.mid = old.mid /\ s.midPayload = old.midPayload /\ s.midBySsrc = old.midBySsrc
    /\ s.rid = old.rid /\ s.rrid = old.rrid

(* A stamp changes none of the names to come,                              *)
LEMMA StampSameNames ==
    ASSUME NEW s, DOMAIN s = StamperFields, s.twcc \in Int, NEW pkt, NEW hints, NEW time
    PROVE  SameNames(S!Stamp(s, pkt, hints, time).st, s)
  <1>1. S!Stamp(s, pkt, hints, time).st = [s EXCEPT !.twcc = NewTwcc(s)]
    BY StampIs
  <1>2. NewTwcc(s) \in Int
    <2>1. PICK m \in Nat \ {0}, x \in Int : m = SeqSpace /\ x = s.twcc
      BY WireAssumption
    <2>2. (x + 1) % m \in Int
      OBVIOUS
    <2> QED BY <2>1, <2>2 DEF NewTwcc
  <1>3. PICK x \in Int : x = NewTwcc(s)
    BY <1>2
  <1>4. SameNames([s EXCEPT !.twcc = x], s)
    BY DEF SameNames, StamperFields
  <1> QED BY <1>1, <1>3, <1>4

(* so they are still those that were told.                                 *)
LEMMA SameNamesTold ==
    ASSUME StamperTold, SameNames(stamper', stamper), UNCHANGED <<mode, told, stopped>>
    PROVE  StamperTold'
  BY DEF StamperTold, SameNames, StamperFields, Says, S!MidPayload

-----------------------------------------------------------------------------
(* A packet is read as what was sent, under the receiver's own ids         *)
(* (rtp.js:168-233, 575-596, 616-638).                                     *)
LEMMA FreshRead ==
    ASSUME NEW pkt, NEW t \in Truths, Fresh(pkt, t, TheirIds[mode], TheirIds[mode]), "mid" \in DOMAIN TheirIds[mode]
    PROVE  Reading(pkt) = t
  BY ReadsTruth DEF Fresh

(* Renamed to the ids of the receiver, it is read as it was meant.         *)
LEMMA FreshMovedRead ==
    ASSUME NEW pkt, NEW t \in Truths, NEW ids, IsIds(ids), IsIds(TheirIds[mode]), "mid" \in DOMAIN TheirIds[mode],
           Fresh(pkt, t, ids, TheirIds[mode])
    PROVE  /\ Reading(H!RemapExtensionIds(pkt, MapOf(ids, TheirIds[mode]))) = t
           /\ H!RemapExtensionIds(pkt, MapOf(ids, TheirIds[mode])).ssrc = t.ssrc
  <1>1. PICK theirs : theirs = TheirIds[mode]
    OBVIOUS
  <1>2. PICK exts, pad : /\ Padded(pkt, pad) /\ pad \in Seq(Plain) /\ Tells(exts, ids, theirs, t)
                         /\ Carries(pkt, t.csrc, exts, t.payload \o pad)
    BY <1>1 DEF Fresh
  <1>3. PICK M \in IdMaps : M = MapOf(ids, theirs)
    BY <1>1, MapOfIn
  <1>4. PICK new : new = H!RemapExtensionIds(pkt, M)
    OBVIOUS
  <1>5. PICK out : Moved(exts, M, out) /\ Carries(new, t.csrc, out, t.payload \o pad) /\ SameHeader(new, pkt)
    BY <1>2, <1>4, RemapCarries
  <1>6. Tells(out, theirs, theirs, t)
    BY <1>1, <1>2, <1>3, <1>5, TellsMoved
  <1>7. Padded(new, pad)
    BY <1>2, <1>5 DEF Padded, SameHeader
  <1>8. SameWords(pkt, t)
    BY DEF Fresh
  <1>9. SameWords(new, t)
    BY <1>5, <1>8 DEF SameWords, SameHeader
  <1>10. Reading(new) = t
    BY <1>1, <1>5, <1>6, <1>7, <1>9, ReadsTruth
  <1> QED BY <1>1, <1>3, <1>4, <1>9, <1>10 DEF SameWords

(* Unwrapped, it is read as the original was meant.                        *)
LEMMA RepeatRead ==
    ASSUME NEW pkt, NEW t \in Truths, Repeats(pkt, t, TheirIds[mode], TheirIds[mode]), "mid" \in DOMAIN TheirIds[mode],
           t.ssrc = Primary
    PROVE  Reading(R!ParseRtxPacket(pkt, Primary, MediaPt)) = t
  <1>1. PICK ids : ids = TheirIds[mode]
    OBVIOUS
  <1>2. PICK exts, pad : /\ Padded(pkt, pad) /\ pad \in Seq(Plain) /\ Tells(exts, ids, ids, t)
                         /\ Carries(pkt, t.csrc, exts, (Osn(t.seq) \o t.payload) \o pad)
    BY <1>1 DEF Repeats
  <1>3. t.payload \in Octs /\ t.seq \in Int /\ t.pt = MediaPt /\ Primary \in Int /\ MediaPt \in Int
    BY PlainSeq DEF Truths, Octs, Primary, MediaPt
  <1>4. PICK out : out = R!ParseRtxPacket(pkt, Primary, MediaPt)
    OBVIOUS
  <1>5. /\ Carries(out, t.csrc, exts, t.payload)
        /\ out.p = FALSE /\ out.m = pkt.m /\ out.ts = pkt.ts /\ out.pt = MediaPt /\ out.seq = t.seq /\ out.ssrc = Primary
    <2>1. PICK data \in Octs, s \in Int, a \in Int, b \in Int : data = t.payload /\ s = t.seq /\ a = Primary /\ b = MediaPt
      BY <1>3
    <2>2. PICK csrc : csrc = t.csrc
      OBVIOUS
    <2>3. Carries(pkt, csrc, exts, (Osn(s) \o data) \o pad)
      BY <1>2, <2>1, <2>2
    <2>4. Padded(pkt, pad)
      BY <1>2
    <2>5. Carries(R!ParseRtxPacket(pkt, a, b), csrc, exts, data)
      BY <2>3, <2>4, UnwrapCarries
    <2>6. Unwrapped(R!ParseRtxPacket(pkt, a, b), pkt, a, b, s)
      BY <2>3, <2>4, UnwrapCarries, Zenon
    <2> QED BY <1>4, <2>1, <2>2, <2>5, <2>6 DEF Unwrapped
  <1>6. SameWords(out, t)
    BY <1>3, <1>5 DEF SameWords, Repeats
  <1>7. Padded(out, <<>>)
    BY <1>5, CatEmpty DEF Padded
  <1>8. t.payload \o <<>> = t.payload
    BY <1>3, CatEmpty
  <1>9. Carries(out, t.csrc, exts, t.payload \o <<>>)
    BY <1>5, <1>8
  <1>10. Reading(out) = t
    BY <1>1, <1>2, <1>6, <1>7, <1>9, ReadsTruth, Zenon
  <1> QED BY <1>4, <1>10

(* A packet that is sent again, whatever it was and however often it was   *)
(* stamped, repeats it (retransmit.js:150-189, 213-273).                   *)
LEMMA WrapRepeats ==
    ASSUME NEW pkt, NEW t \in Truths, NEW s, NEW theirs, Fresh(pkt, t, s.extMap, theirs),
           Names(s, RtxSsrc), Says(s, RtxSsrc, 5, 8, 7), Both(s.extMap, theirs),
           "repaired-rtp-stream-id" \in DOMAIN s.extMap \cap DOMAIN theirs,
           t.mid = 5, t.rid = 7, NEW time \in Int, t.time = TimeTold(time, theirs), NEW seq \in Int
    PROVE  Repeats(S!Stamp(s, R!BuildRtxPacket(pkt, RtxSsrc, RtxPt, seq), S!NoHints, time).pkt, t, s.extMap, theirs)
  <1>1. PICK exts, pad : /\ Padded(pkt, pad) /\ pad \in Seq(Plain) /\ Tells(exts, s.extMap, theirs, t)
                         /\ Carries(pkt, t.csrc, exts, t.payload \o pad)
    BY DEF Fresh
  <1>2. SameWords(pkt, t)
    BY DEF Fresh
  <1>3. RtxSsrc \in Int /\ RtxPt \in Int
    BY DEF RtxSsrc, RtxPt
  <1>4. PICK wrapped : wrapped = R!BuildRtxPacket(pkt, RtxSsrc, RtxPt, seq)
    OBVIOUS
  <1>5. /\ Carries(wrapped, t.csrc, exts, Osn(pkt.seq) \o (t.payload \o pad))
        /\ OnlyHeader(wrapped, pkt) /\ wrapped.ssrc = RtxSsrc
    BY <1>1, <1>3, <1>4, BuildCarries
  <1>6. Osn(pkt.seq) \o (t.payload \o pad) = (Osn(t.seq) \o t.payload) \o pad
    <2>1. PICK a \in Octs, b \in Octs, c \in Octs : a = Osn(t.seq) /\ b = t.payload /\ c = pad
      <3>1. t.payload \in Octs /\ pad \in Octs
        BY <1>1, PlainSeq DEF Truths, Octs
      <3>2. Osn(t.seq) \in Octs
        BY OsnIn DEF Truths
      <3> QED BY <3>1, <3>2
    <2>2. (a \o b) \o c = a \o (b \o c)
      BY Assoc, Zenon
    <2> QED BY <1>2, <2>1, <2>2 DEF SameWords
  <1>7. PICK new : new = S!Stamp(s, wrapped, S!NoHints, time).pkt
    OBVIOUS
  <1>8. PICK out : /\ Carries(new, t.csrc, out, (Osn(t.seq) \o t.payload) \o pad)
                   /\ SameHeader(new, wrapped)
                   /\ Stamped(s, wrapped.ssrc, S!NoHints, time, exts, out)
    <2>1. S!NoHints.audioLevel \in Int
      BY DEF S!NoHints, S!None
    <2>2. Carries(wrapped, t.csrc, exts, (Osn(t.seq) \o t.payload) \o pad) /\ Names(s, wrapped.ssrc)
      BY <1>5, <1>6
    <2> QED BY <1>7, <2>1, <2>2, StampCarries
  <1>9. Tells(out, s.extMap, theirs, t)
    <2>1. S!MidOf(s, RtxSsrc) = 5 /\ S!Lookup(s.rrid, RtxSsrc) = 7
      BY DEF Says, S!MidOf, S!Lookup, S!None
    <2>2. None # 5 /\ None # 7
      BY DEF None, S!None
    <2> QED BY <1>1, <1>5, <1>8, <2>1, <2>2, RepeatTells
  <1>10. Padded(new, pad)
    BY <1>1, <1>5, <1>8 DEF Padded, SameHeader, OnlyHeader
  <1>11. new.ssrc = RtxSsrc /\ new.ts = t.ts /\ new.m = t.marker
    BY <1>2, <1>5, <1>8 DEF SameHeader, OnlyHeader, SameWords
  <1>12. Repeats(new, t, s.extMap, theirs)
    BY <1>1, <1>8, <1>9, <1>10, <1>11 DEF Repeats
  <1> QED BY <1>4, <1>7, <1>12

(* What it repeats is known from the octets of the original number.        *)
LEMMA RepeatsOriginal ==
    ASSUME NEW pkt, NEW t \in Truths, NEW ids, NEW theirs, Repeats(pkt, t, ids, theirs)
    PROVE  Original(pkt) = {t.seq}
  <1>1. PICK exts, pad : pad \in Seq(Plain) /\ Carries(pkt, t.csrc, exts, (Osn(t.seq) \o t.payload) \o pad)
    BY DEF Repeats
  <1>2. OsnValues(pkt.body) = {t.seq}
    <2>1. t.seq \in Int /\ t.payload \in Seq(Plain)
      BY DEF Truths
    <2> QED BY <1>1, <2>1, OsnsOfCarried, Zenon
  <1>3. pkt.ssrc = RtxSsrc
    BY DEF Repeats
  <1>4. Original(pkt) = OsnValues(pkt.body)
    BY <1>3, Zenon DEF Original, OsnValues
  <1> QED BY <1>2, <1>4

-----------------------------------------------------------------------------
(* What was given to the stamper, and what is kept of it.                  *)
Given == {sent[n].truth : n \in DOMAIN sent}
IsGiven(t) ==
    /\ t \in Truths /\ t.ssrc \in Ssrcs /\ \E n \in Numbers : t.seq = SeqNo(n)
    /\ mode = "recovery" =>
          t.ssrc = Primary /\ t.mid = 5 /\ t.rid = 7 /\ t.time = TimeTold(now, TheirIds[mode])
Sent(pkt) == \E t \in Given : Fresh(pkt, t, stamper.extMap, TheirIds[mode])
Kept ==
    /\ DOMAIN rings \subseteq {Primary} /\ (stopped => DOMAIN rings = {})
    /\ \A ssrc \in DOMAIN rings : \A i \in DOMAIN rings[ssrc] : Sent(rings[ssrc][i])

(* What the ring answers for a number is the packet sent with that number. *)
LEMMA GetSent ==
    ASSUME Kept, NEW seq, ~ IsNone(R!Get(rings, Primary, seq))
    PROVE  /\ ~ stopped
           /\ \E t \in Given : t.seq = seq /\ Fresh(R!Get(rings, Primary, seq), t, stamper.extMap, TheirIds[mode])
  <1>1. PICK slot : slot = rings[Primary][seq % RingSize]
    OBVIOUS
  <1>2. "none" \in DOMAIN R!NoPacket
    BY DEF R!NoPacket
  <1>3. R!Get(rings, Primary, seq) # R!NoPacket
    BY <1>2 DEF IsNone
  <1>4. Primary \in DOMAIN rings /\ seq % RingSize \in DOMAIN rings[Primary]
    BY <1>3, Zenon DEF R!Get
  <1>5. R!Get(rings, Primary, seq) = IF slot.seq = seq THEN slot ELSE R!NoPacket
    BY <1>1, <1>4, Zenon DEF R!Get
  <1>6. R!Get(rings, Primary, seq) = slot /\ slot.seq = seq
    BY <1>3, <1>5
  <1>7. ~ stopped /\ Sent(slot)
    BY <1>1, <1>4 DEF Kept
  <1>8. PICK t \in Given : Fresh(slot, t, stamper.extMap, TheirIds[mode])
    BY <1>7 DEF Sent
  <1>9. t.seq = seq
    BY <1>6, <1>8 DEF Fresh, SameWords
  <1> QED BY <1>6, <1>7, <1>8, <1>9

(* In a session with recovery both ends use the same ids, those of the RTX *)
(* stream too.                                                             *)
LEMMA RecoveryIds ==
    ASSUME StamperTold, mode = "recovery", mode \in Modes
    PROVE  /\ stamper.extMap = TheirIds[mode] /\ Both(stamper.extMap, TheirIds[mode]) /\ IsIds(stamper.extMap)
           /\ "repaired-rtp-stream-id" \in DOMAIN stamper.extMap \cap DOMAIN TheirIds[mode]
  <1>1. PICK i \in DOMAIN ExtMaps[mode] : stamper.extMap = ExtMaps[mode][i]
    BY DEF StamperTold
  <1>2. /\ TheirIds[mode] = ExtMaps[mode][1] /\ DOMAIN ExtMaps[mode] = {1}
        /\ "repaired-rtp-stream-id" \in DOMAIN TheirIds[mode]
    BY SessionsAssumption
  <1>3. stamper.extMap = TheirIds[mode]
    BY <1>1, <1>2
  <1>4. Heeded
    BY DEF Heeded
  <1> QED BY <1>1, <1>2, <1>3, <1>4, KnownIds

(* The stamper as it is while a list is served names the retransmissions.  *)
LEMMA NamesRtx ==
    ASSUME StamperTold, mode = "recovery", mode \in Modes, ~stopped, NEW s, SameNames(s, stamper)
    PROVE  /\ Names(s, RtxSsrc) /\ Says(s, RtxSsrc, 5, 8, 7) /\ s.extMap = stamper.extMap
           /\ DOMAIN s = StamperFields /\ s.twcc \in Int
  <1>1. Says(stamper, RtxSsrc, 5, 8, 7)
    BY DEF StamperTold
  <1>2. Says(s, RtxSsrc, 5, 8, 7)
    BY <1>1 DEF Says, SameNames
  <1>3. S!MidOf(s, RtxSsrc) = 5
    BY <1>2 DEF Says, S!MidOf, S!Lookup, S!None
  <1>4. IsIds(s.extMap)
    BY RecoveryIds DEF SameNames
  <1> QED BY <1>2, <1>3, <1>4 DEF Names, Says, SameNames

-----------------------------------------------------------------------------
(* One number of a NACK served, and the packets sent again by it.          *)
SendAgain(acc, seq, sweep) ==
    LET original == R!Get(rings, Primary, seq)
        passed   == R!ShouldSend(acc.last, <<Primary, seq>>, sweep)
        wrapped  == R!Wrap(acc.rtxSeq, original, RtxSsrc, RtxPt)
        stamped  == S!Stamp(acc.stamper, wrapped.pkt, S!NoHints, now)
    IN  IF IsNone(original) THEN acc
        ELSE IF ~passed.yes THEN [acc EXCEPT !.last = passed.last]
        ELSE [last |-> passed.last, rtxSeq |-> wrapped.seq, stamper |-> stamped.st,
              pkts |-> acc.pkts \cup {stamped.pkt}, seqs |-> acc.seqs \cup {seq}]
Served(f, list, sweep, k) ==
    f = [i \in 0 .. k |->
            IF i = 0 THEN [last |-> last, rtxSeq |-> rtxSeq, stamper |-> stamper, pkts |-> {}, seqs |-> {}]
            ELSE SendAgain(f[i - 1], list[i], sweep)]

(* A NACK is served number by number.                                      *)
LEMMA RetransmittedIs ==
    ASSUME NEW list, NEW sweep
    PROVE  Retransmitted(list, sweep) = (CHOOSE f : Served(f, list, sweep, Len(list)))[Len(list)]
  BY Zenon DEF Retransmitted, Served, SendAgain

Since(q, seqs) == [n \in DOMAIN q |-> IF SeqNo(n) \in seqs THEN 0 ELSE q[n]]
Due(t) == \A n \in Numbers : SeqNo(n) = t.seq => quiet[n] >= ThrottleWindow
Resent(pkt) == \E t \in Given : Repeats(pkt, t, stamper.extMap, TheirIds[mode]) /\ Due(t)
Serving(acc) ==
    /\ DOMAIN acc = {"last", "rtxSeq", "stamper", "pkts", "seqs"}
    /\ acc.rtxSeq \in Int /\ SameNames(acc.stamper, stamper)
    /\ ~stopped => Throttled(acc.last, Since(quiet, acc.seqs))
    /\ \A pkt \in acc.pkts : Resent(pkt)

(* One number more was sent again.                                         *)
LEMMA OnceSince ==
    ASSUME NEW q, NEW seqs, NEW seq
    PROVE  Once(Since(q, seqs), seq) = Since(q, seqs \cup {seq})
  <1>1. PICK a : a = Since(q, seqs)
    OBVIOUS
  <1>2. DOMAIN a = DOMAIN q /\ \A n \in DOMAIN q : a[n] = IF SeqNo(n) \in seqs THEN 0 ELSE q[n]
    BY <1>1 DEF Since
  <1>3. PICK b, c : b = Once(a, seq) /\ c = Since(q, seqs \cup {seq})
    OBVIOUS
  <1>4. DOMAIN b = DOMAIN q /\ \A n \in DOMAIN q : b[n] = IF SeqNo(n) = seq THEN 0 ELSE a[n]
    BY <1>2, <1>3 DEF Once
  <1>5. DOMAIN c = DOMAIN q /\ \A n \in DOMAIN q : c[n] = IF SeqNo(n) \in seqs \cup {seq} THEN 0 ELSE q[n]
    BY <1>3 DEF Since
  <1>6. \A n \in DOMAIN q : b[n] = c[n]
    BY <1>2, <1>4, <1>5
  <1>7. b = [n \in DOMAIN q |-> b[n]] /\ c = [n \in DOMAIN q |-> c[n]]
    <2>1. PICK d : d = DOMAIN q /\ d = DOMAIN a
      BY <1>2
    <2>2. b = [n \in d |-> b[n]]
      BY <1>3, <2>1 DEF Once
    <2>3. c = [n \in d |-> c[n]]
      BY <1>3, <2>1 DEF Since
    <2> QED BY <2>1, <2>2, <2>3
  <1>8. [n \in DOMAIN q |-> b[n]] = [n \in DOMAIN q |-> c[n]]
    BY <1>6
  <1>9. b = c
    BY <1>7, <1>8, Zenon
  <1> QED BY <1>1, <1>3, <1>9

(* Serving one number: what is put on the way repeats a packet sent before *)
(* and was due.                                                            *)
LEMMA ServingStep ==
    ASSUME StamperTold, mode = "recovery", mode \in Modes, Kept, now = StartNow[mode],
           \A t \in Given : IsGiven(t), quiet \in [Numbers -> Nat],
           NEW acc, Serving(acc), NEW seq, NEW sweep
    PROVE  Serving(SendAgain(acc, seq, sweep))
  <1>1. PICK original : original = R!Get(rings, Primary, seq)
    OBVIOUS
  <1>2. PICK passed : passed = R!ShouldSend(acc.last, <<Primary, seq>>, sweep)
    OBVIOUS
  <1>3. PICK wrapped : wrapped = R!Wrap(acc.rtxSeq, original, RtxSsrc, RtxPt)
    OBVIOUS
  <1>4. PICK stamped : stamped = S!Stamp(acc.stamper, wrapped.pkt, S!NoHints, now)
    OBVIOUS
  <1>5. SendAgain(acc, seq, sweep)
          = IF IsNone(original) THEN acc
            ELSE IF ~passed.yes THEN [acc EXCEPT !.last = passed.last]
            ELSE [last |-> passed.last, rtxSeq |-> wrapped.seq, stamper |-> stamped.st,
                  pkts |-> acc.pkts \cup {stamped.pkt}, seqs |-> acc.seqs \cup {seq}]
    BY <1>1, <1>2, <1>3, <1>4, Zenon DEF SendAgain
  <1>6. CASE IsNone(original)
    BY <1>5, <1>6
  <1>7. CASE ~ IsNone(original) /\ ~ passed.yes
    <2>1. ~ stopped
      BY <1>1, <1>7, GetSent
    <2>2. Throttled(acc.last, Since(quiet, acc.seqs))
      BY <2>1 DEF Serving
    <2>3. passed.last = acc.last
      BY <1>2, <1>7, <2>2, PassedThrottled
    <2>4. PICK new : new = [acc EXCEPT !.last = acc.last]
      BY Zenon
    <2>5. /\ DOMAIN new = DOMAIN acc /\ new.last = acc.last /\ new.rtxSeq = acc.rtxSeq /\ new.stamper = acc.stamper
          /\ new.pkts = acc.pkts /\ new.seqs = acc.seqs
      BY <2>4 DEF Serving
    <2>6. Serving(new)
      BY <2>5 DEF Serving
    <2> QED BY <1>5, <1>7, <2>3, <2>4, <2>6
  <1>8. CASE ~ IsNone(original) /\ passed.yes
    <2>1. ~ stopped
      BY <1>1, <1>8, GetSent
    <2>2. PICK t \in Given : t.seq = seq /\ Fresh(original, t, stamper.extMap, TheirIds[mode])
      BY <1>1, <1>8, GetSent
    <2>3. PICK q : q = Since(quiet, acc.seqs)
      OBVIOUS
    <2>4. Throttled(acc.last, q)
      BY <2>1, <2>3 DEF Serving
    <2>5. (\A n \in DOMAIN q : SeqNo(n) = seq => q[n] >= ThrottleWindow) /\ Throttled(passed.last, Once(q, seq))
      BY <1>2, <1>8, <2>4, PassedThrottled
    <2>6. Throttled(passed.last, Since(quiet, acc.seqs \cup {seq}))
      BY <2>3, <2>5, OnceSince
    <2>7. Due(t)
      <3>1. DOMAIN q = Numbers /\ \A n \in Numbers : q[n] = IF SeqNo(n) \in acc.seqs THEN 0 ELSE quiet[n]
        BY <2>3 DEF Since
      <3>2. ~ (0 >= ThrottleWindow)
        BY ThrottleFacts
      <3> QED BY <2>2, <2>5, <3>1, <3>2 DEF Due
    <2>8. PICK x \in Int : x = (acc.rtxSeq + 1) % SeqSpace
      <3>1. PICK m \in Nat \ {0}, y \in Int : m = SeqSpace /\ y = acc.rtxSeq
        BY WireAssumption DEF Serving
      <3>2. (y + 1) % m \in Int
        OBVIOUS
      <3> QED BY <3>1, <3>2
    <2>9. wrapped.seq = x /\ wrapped.pkt = R!BuildRtxPacket(original, RtxSsrc, RtxPt, x)
      BY <1>3, <2>8 DEF R!Wrap
    <2>10. PICK s : s = acc.stamper
      OBVIOUS
    <2>11. SameNames(s, stamper)
      BY <2>10 DEF Serving
    <2>12. /\ Names(s, RtxSsrc) /\ Says(s, RtxSsrc, 5, 8, 7) /\ s.extMap = stamper.extMap
           /\ DOMAIN s = StamperFields /\ s.twcc \in Int
      BY <2>1, <2>11, NamesRtx
    <2>13. Repeats(stamped.pkt, t, stamper.extMap, TheirIds[mode])
      <3>1. PICK theirs : theirs = TheirIds[mode]
        OBVIOUS
      <3>2. PICK time \in Int : time = now
        BY HeededFacts DEF Heeded
      <3>3. t \in Truths /\ t.mid = 5 /\ t.rid = 7 /\ t.time = TimeTold(time, theirs)
        BY <3>1, <3>2 DEF IsGiven
      <3>4. Both(s.extMap, theirs) /\ "repaired-rtp-stream-id" \in DOMAIN s.extMap \cap DOMAIN theirs
        BY <2>12, <3>1, RecoveryIds
      <3>5. Fresh(original, t, s.extMap, theirs)
        BY <2>2, <2>12, <3>1
      <3>6. Names(s, RtxSsrc) /\ Says(s, RtxSsrc, 5, 8, 7)
        BY <2>12
      <3>7. Repeats(S!Stamp(s, R!BuildRtxPacket(original, RtxSsrc, RtxPt, x), S!NoHints, time).pkt, t, s.extMap, theirs)
        BY <3>3, <3>4, <3>5, <3>6, WrapRepeats
      <3> QED BY <1>4, <2>9, <2>10, <2>12, <3>1, <3>2, <3>7
    <2>14. SameNames(stamped.st, stamper)
      <3>1. SameNames(S!Stamp(s, wrapped.pkt, S!NoHints, now).st, s)
        BY <2>12, StampSameNames
      <3>2. SameNames(stamped.st, s)
        BY <1>4, <2>10, <3>1
      <3> QED BY <2>11, <3>2 DEF SameNames
    <2>15. PICK new : new = [last |-> passed.last, rtxSeq |-> x, stamper |-> stamped.st,
                             pkts |-> acc.pkts \cup {stamped.pkt}, seqs |-> acc.seqs \cup {seq}]
      BY Zenon
    <2>16. Resent(stamped.pkt)
      BY <2>7, <2>13 DEF Resent
    <2>17. /\ DOMAIN new = {"last", "rtxSeq", "stamper", "pkts", "seqs"} /\ new.rtxSeq = x
           /\ new.stamper = stamped.st /\ new.last = passed.last /\ new.seqs = acc.seqs \cup {seq}
           /\ new.pkts = acc.pkts \cup {stamped.pkt}
      BY <2>15
    <2>18. Serving(new)
      BY <2>6, <2>14, <2>16, <2>17 DEF Serving
    <2> QED BY <1>5, <1>8, <2>9, <2>15, <2>18
  <1> QED BY <1>6, <1>7, <1>8

(* The fold over the numbers of a NACK is well defined.                    *)
LEMMA ServedExist ==
    ASSUME NEW list, NEW sweep, NEW n \in Nat
    PROVE  \E f : Served(f, list, sweep, n)
  <1> DEFINE Start == [last |-> last, rtxSeq |-> rtxSeq, stamper |-> stamper, pkts |-> {}, seqs |-> {}]
             All   == {k \in Nat : \E f : Served(f, list, sweep, k)}
  <1> HIDE DEF Start
  <1>0. \A f, k : Served(f, list, sweep, k)
                    <=> f = [i \in 0 .. k |-> IF i = 0 THEN Start ELSE SendAgain(f[i - 1], list[i], sweep)]
    BY Zenon DEF Served, Start
  <1>1. 0 \in All
    <2>1. PICK f : f = [i \in 0 .. 0 |-> Start]
      BY Zenon
    <2>2. \A i \in 0 .. 0 : i = 0
      OBVIOUS
    <2>3. f = [i \in 0 .. 0 |-> IF i = 0 THEN Start ELSE SendAgain(f[i - 1], list[i], sweep)]
      BY <2>1, <2>2
    <2> QED BY <1>0, <2>3, Zenon
  <1>2. ASSUME NEW k \in Nat, k \in All PROVE k + 1 \in All
    <2>1. PICK f : Served(f, list, sweep, k)
      BY <1>2
    <2>2. PICK g : g = [i \in 0 .. k + 1 |-> IF i = k + 1 THEN SendAgain(f[k], list[k + 1], sweep) ELSE f[i]]
      BY Zenon
    <2>3. \A i \in 0 .. k : i # k + 1 /\ i \in 0 .. k + 1 /\ g[i] = f[i]
      BY <2>2
    <2>4. \A i \in 0 .. k : f[i] = IF i = 0 THEN Start ELSE SendAgain(f[i - 1], list[i], sweep)
      <3>1. f = [i \in 0 .. k |-> IF i = 0 THEN Start ELSE SendAgain(f[i - 1], list[i], sweep)]
        BY <1>0, <2>1, Zenon
      <3> QED BY <3>1
    <2>5. \A i \in 0 .. k + 1 : i # 0 => i - 1 \in 0 .. k /\ (i \in 0 .. k \/ (i = k + 1 /\ i - 1 = k))
      OBVIOUS
    <2>6. g[k + 1] = SendAgain(f[k], list[k + 1], sweep) /\ k + 1 # 0
      BY <2>2
    <2>7. ASSUME NEW i \in 0 .. k + 1 PROVE g[i] = IF i = 0 THEN Start ELSE SendAgain(g[i - 1], list[i], sweep)
      <3>1. CASE i = 0
        <4>1. i \in 0 .. k
          BY <3>1
        <4> QED BY <2>3, <2>4, <3>1, <4>1
      <3>2. CASE i # 0 /\ i \in 0 .. k
        <4>1. i - 1 \in 0 .. k
          BY <2>5, <3>2
        <4>2. g[i] = SendAgain(f[i - 1], list[i], sweep)
          BY <2>3, <2>4, <3>2
        <4> QED BY <2>3, <3>2, <4>1, <4>2
      <3>3. CASE i # 0 /\ ~ (i \in 0 .. k)
        <4>1. i = k + 1 /\ i - 1 = k
          BY <2>5, <3>3
        <4>2. k \in 0 .. k
          OBVIOUS
        <4> QED BY <2>3, <2>6, <4>1, <4>2
      <3> QED BY <3>1, <3>2, <3>3
    <2>8. g = [i \in 0 .. k + 1 |-> g[i]]
      BY <2>2
    <2>9. g = [i \in 0 .. k + 1 |-> IF i = 0 THEN Start ELSE SendAgain(g[i - 1], list[i], sweep)]
      BY <2>7, <2>8, Zenon
    <2>10. Served(g, list, sweep, k + 1)
      BY <1>0, <2>9, Zenon
    <2> QED BY <2>10
  <1> HIDE DEF All
  <1>3. n \in All
    BY <1>1, <1>2, Induct
  <1> QED BY <1>3 DEF All

(* What OnNack sends again repeats packets that were sent, and that were   *)
(* due (retransmit.js:337-348, 307-314).                                   *)
LEMMA AllServed ==
    ASSUME StamperTold, mode = "recovery", mode \in Modes, Kept, now = StartNow[mode],
           \A t \in Given : IsGiven(t), quiet \in [Numbers -> Nat], rtxSeq \in Int,
           ~stopped => Throttled(last, quiet), NEW list, Len(list) \in Nat, NEW sweep
    PROVE  Serving(Retransmitted(list, sweep))
  <1>1. PICK n \in Nat : n = Len(list)
    OBVIOUS
  <1>2. PICK start : start = [last |-> last, rtxSeq |-> rtxSeq, stamper |-> stamper, pkts |-> {}, seqs |-> {}]
    BY Zenon
  <1>3. PICK f : Served(f, list, sweep, n) /\ f = CHOOSE g : Served(g, list, sweep, n)
    BY ServedExist, Zenon
  <1>4. \A i \in 0 .. n : f[i] = IF i = 0 THEN start ELSE SendAgain(f[i - 1], list[i], sweep)
    <2>1. f = [i \in 0 .. n |-> IF i = 0 THEN start ELSE SendAgain(f[i - 1], list[i], sweep)]
      BY <1>2, <1>3, Zenon DEF Served
    <2> QED BY <2>1
  <1>5. Serving(start)
    <2>1. PICK q : q = Since(quiet, {})
      OBVIOUS
    <2>2. q = quiet
      <3>1. q = [k \in DOMAIN quiet |-> quiet[k]]
        BY <2>1 DEF Since
      <3>2. quiet = [k \in Numbers |-> quiet[k]] /\ DOMAIN quiet = Numbers
        OBVIOUS
      <3> QED BY <3>1, <3>2, Zenon
    <2>3. SameNames(stamper, stamper)
      BY DEF SameNames, StamperTold
    <2>4. /\ DOMAIN start = {"last", "rtxSeq", "stamper", "pkts", "seqs"} /\ start.rtxSeq = rtxSeq
          /\ start.stamper = stamper /\ start.last = last /\ start.seqs = {} /\ start.pkts = {}
      BY <1>2
    <2> QED BY <2>1, <2>2, <2>3, <2>4 DEF Serving
  <1> DEFINE All == {k \in Nat : k <= n => Serving(f[k])}
  <1>6. 0 \in All
    <2>1. f[0] = start
      BY <1>4
    <2> QED BY <1>5, <2>1
  <1>7. ASSUME NEW k \in Nat, k \in All PROVE k + 1 \in All
    <2> SUFFICES ASSUME k + 1 <= n PROVE Serving(f[k + 1])
      OBVIOUS
    <2>1. k + 1 \in 0 .. n /\ k + 1 # 0 /\ (k + 1) - 1 = k /\ k <= n
      OBVIOUS
    <2>2. f[k + 1] = SendAgain(f[k], list[k + 1], sweep)
      <3>1. PICK j \in 0 .. n : j = k + 1
        BY <2>1
      <3>2. f[j] = SendAgain(f[j - 1], list[j], sweep)
        BY <1>4, <2>1, <3>1
      <3> QED BY <2>1, <3>1, <3>2, Zenon
    <2>3. Serving(f[k])
      BY <1>7, <2>1
    <2> QED BY <2>2, <2>3, ServingStep
  <1> HIDE DEF All
  <1>8. n \in All
    BY <1>6, <1>7, Induct
  <1>9. Serving(f[n])
    BY <1>8 DEF All
  <1>10. Retransmitted(list, sweep) = f[n]
    BY <1>1, <1>3, RetransmittedIs, Zenon
  <1> QED BY <1>9, <1>10

-----------------------------------------------------------------------------
(* The SSRC of a packet is what the packetizer set, stamped or not.        *)
LEMMA SetKeepsSsrc ==
    ASSUME NEW pkt, "ssrc" \in DOMAIN pkt, NEW add
    PROVE  /\ H!SetHeaderExtensions(pkt, add).ssrc = pkt.ssrc
           /\ "ssrc" \in DOMAIN H!SetHeaderExtensions(pkt, add)
  <1>1. PICK out : out = H!SetHeaderExtensions(pkt, add)
    OBVIOUS
  <1>2. PICK body : out = pkt \/ out = [pkt EXCEPT !.x = TRUE, !.body = body]
    <2>1. \E body : out = pkt \/ out = [pkt EXCEPT !.x = TRUE, !.body = body]
      BY <1>1, Zenon DEF H!SetHeaderExtensions
    <2> QED BY <2>1, Zenon
  <1>3. out.ssrc = pkt.ssrc /\ "ssrc" \in DOMAIN out
    BY <1>2, Zenon
  <1> QED BY <1>1, <1>3

(* A packet is written with the SSRC asked for, cut to a word.             *)
LEMMA SerializeSsrc ==
    ASSUME NEW r, H!Writable(r.exts)
    PROVE  H!Serialize(r).ssrc = r.ssrc % WordSpace /\ "ssrc" \in DOMAIN H!Serialize(r)
  <1> DEFINE body == [i \in 1 .. 4 * Len(r.csrc) |->
                         H!Octet("csrc", r.csrc[(i + 3) \div 4] % WordSpace, ((i - 1) % 4) + 1)]
                     \o (IF r.exts = H!NoExts THEN <<>> ELSE H!WriteExtensions(r.exts))
                     \o r.payload
  <1>1. H!Serialize(r) = [p |-> r.padding, x |-> r.exts # H!NoExts, cc |-> Len(r.csrc) % 16, m |-> r.marker,
                          pt |-> r.pt % 128, seq |-> r.seq % SeqSpace, ts |-> r.ts % WordSpace,
                          ssrc |-> r.ssrc % WordSpace, body |-> body]
    BY Zenon DEF H!Serialize
  <1> HIDE DEF body
  <1>2. PICK x : x = (r.exts # H!NoExts)
    OBVIOUS
  <1>3. PICK cc, pt, seq, ts, ssrc :
            cc = Len(r.csrc) % 16 /\ pt = r.pt % 128 /\ seq = r.seq % SeqSpace /\ ts = r.ts % WordSpace
            /\ ssrc = r.ssrc % WordSpace
    OBVIOUS
  <1>4. PICK pkt : pkt = [p |-> r.padding, x |-> x, cc |-> cc, m |-> r.marker, pt |-> pt, seq |-> seq, ts |-> ts,
                          ssrc |-> ssrc, body |-> body]
    OBVIOUS
  <1>5. H!Serialize(r) = pkt
    BY <1>1, <1>2, <1>3, <1>4, Zenon
  <1>6. pkt.ssrc = ssrc /\ "ssrc" \in DOMAIN pkt
    BY <1>4
  <1> QED BY <1>3, <1>5, <1>6, Zenon

(* A packet of media is never on the SSRC of the RTX stream.               *)
LEMMA SentKeepsSsrc ==
    ASSUME NEW n, NEW ssrc \in Ssrcs
    PROVE  S!Stamp(stamper, Packet(n, ssrc), Hints(n), now).pkt.ssrc = ssrc
  <1>1. PICK plain : plain.ssrc = ssrc /\ "ssrc" \in DOMAIN plain
                     /\ (Packet(n, ssrc) = plain
                         \/ \E id, data : Packet(n, ssrc) = H!SetHeaderExtension(plain, id, data))
    <2>1. PICK r : r = [padding |-> Media[mode][n].pad > 0, exts |-> H!NoExts, csrc |-> Media[mode][n].csrc,
                        marker |-> Media[mode][n].marker, pt |-> MediaPt, seq |-> SeqNo(n), ts |-> n, ssrc |-> ssrc,
                        payload |-> Payload(Media[mode][n], n) \o H!Octets("pad", Media[mode][n].pad, Media[mode][n].pad)]
      BY Zenon
    <2>2. PICK plain : plain = H!Serialize(r)
      OBVIOUS
    <2>3. plain.ssrc = ssrc /\ "ssrc" \in DOMAIN plain
      <3>1. plain.ssrc = r.ssrc % WordSpace /\ "ssrc" \in DOMAIN plain
        <4>1. r.exts = H!NoExts
          BY <2>1
        <4>2. H!Writable(r.exts)
          BY <4>1, NoExtsIn DEF ExtSets, H!Writable
        <4> QED BY <2>2, <4>2, SerializeSsrc, Zenon
      <3>2. r.ssrc = ssrc
        BY <2>1
      <3>3. ssrc % WordSpace = ssrc
        BY SsrcsIn, WireAssumption, FitsWhole
      <3> QED BY <3>1, <3>2, <3>3
    <2>4. Packet(n, ssrc) = plain \/ \E id, data : Packet(n, ssrc) = H!SetHeaderExtension(plain, id, data)
      BY <2>1, <2>2, Zenon DEF Packet
    <2> QED BY <2>3, <2>4
  <1>2. PICK pkt : pkt = Packet(n, ssrc)
    OBVIOUS
  <1>3. pkt.ssrc = ssrc /\ "ssrc" \in DOMAIN pkt
    <2>1. CASE pkt = plain
      BY <1>1, <2>1
    <2>2. ASSUME NEW id, NEW data, pkt = H!SetHeaderExtension(plain, id, data)
          PROVE  pkt.ssrc = ssrc /\ "ssrc" \in DOMAIN pkt
      <3>1. pkt = plain \/ pkt = H!SetHeaderExtensions(plain, [i \in {id} |-> data])
        BY <2>2, Zenon DEF H!SetHeaderExtension
      <3> QED BY <1>1, <3>1, SetKeepsSsrc
    <2> QED BY <1>1, <1>2, <2>1, <2>2
  <1>4. PICK hints : hints = Hints(n)
    OBVIOUS
  <1>5. S!Stamp(stamper, pkt, hints, now).pkt = Outgoing(stamper, pkt, hints, now)
    BY StampIs
  <1>6. Outgoing(stamper, pkt, hints, now).ssrc = pkt.ssrc
    <2>1. PICK out, add : out = Outgoing(stamper, pkt, hints, now)
                          /\ (out = pkt \/ out = H!SetHeaderExtensions(pkt, add))
      BY SameStamps, Zenon DEF Outgoing
    <2> QED BY <1>3, <2>1, SetKeepsSsrc
  <1> QED BY <1>2, <1>3, <1>4, <1>5, <1>6

-----------------------------------------------------------------------------
(* The inductive invariant.                                                *)
OnWay(pkt) ==
    \/ Sent(pkt)
    \/ mode = "recovery" /\ \E t \in Given : Repeats(pkt, t, stamper.extMap, TheirIds[mode])
Calls == [truth : Truths, at : Int]
HistoryInv ==
    /\ now = StartNow[mode] /\ sent \in Seq(Calls) /\ Len(sent) <= Len(Media[mode])
    /\ \A t \in Given : IsGiven(t)
WayInv == \A pkt \in rtp : OnWay(pkt)
RepairInv ==
    mode = "recovery" =>
        /\ Kept /\ rtxSeq \in Int /\ quiet \in [Numbers -> Nat] /\ (~stopped => Throttled(last, quiet))
        /\ rtcp \subseteq Nacks
HeedInv == StamperTold /\ HistoryInv /\ WayInv /\ RepairInv /\ held \subseteq Given
PathInv ==
    /\ mode \in Modes /\ (Reported => held = {}) /\ (stopped => mode = "recovery")
    /\ Heeded => HeedInv

(* Nothing is known of an SSRC at first.                                   *)
LEMMA NoneOf ==
    /\ S!Lookup(<<>>, 1) = None /\ S!Lookup(<<>>, 2) = None /\ S!Lookup(<<>>, 3) = None
    /\ None \in Int /\ None = S!None
  BY DEF S!Lookup, None, S!None

(* What was put last under a key is found under it,                        *)
LEMMA LookupPut ==
    ASSUME NEW f, NEW k, NEW v
    PROVE  S!Lookup(S!Put(f, k, v), k) = v /\ \A i : i # k => S!Lookup(S!Put(f, k, v), i) = S!Lookup(f, i)
  <1>1. PICK g : g = S!Put(f, k, v)
    OBVIOUS
  <1>2. DOMAIN g = DOMAIN f \cup {k} /\ g[k] = v /\ \A i \in DOMAIN f : i # k => g[i] = f[i]
    BY <1>1 DEF S!Put
  <1>3. S!Lookup(g, k) = v /\ \A i : i # k => S!Lookup(g, i) = S!Lookup(f, i)
    BY <1>2 DEF S!Lookup
  <1> QED BY <1>1, <1>3

(* and what was removed is not.                                            *)
LEMMA LookupWithout ==
    ASSUME NEW f, NEW k
    PROVE  S!Lookup(S!Without(f, k), k) = None /\ \A i : i # k => S!Lookup(S!Without(f, k), i) = S!Lookup(f, i)
  <1>1. PICK g : g = S!Without(f, k)
    OBVIOUS
  <1>2. DOMAIN g = DOMAIN f \ {k} /\ \A i \in DOMAIN g : g[i] = f[i]
    BY <1>1 DEF S!Without
  <1>3. S!Lookup(g, k) = None /\ \A i : i # k => S!Lookup(g, i) = S!Lookup(f, i)
    BY <1>2 DEF S!Lookup, None
  <1> QED BY <1>1, <1>3

-----------------------------------------------------------------------------
(* The transport-wide number of a stamper is an integer.                   *)
LEMMA StamperTwcc == (StartSeq \in Int) => ((StartSeq - 1) % SeqSpace \in Int)
  <1> SUFFICES ASSUME StartSeq \in Int PROVE (StartSeq - 1) % SeqSpace \in Int
    OBVIOUS
  <1>1. PICK m \in Nat \ {0}, x \in Int : m = SeqSpace /\ x = StartSeq
    BY WireAssumption
  <1>2. (x - 1) % m \in Int
    OBVIOUS
  <1> QED BY <1>1, <1>2

(* A name that is set is put into the stamper's table.                     *)
LEMMA SetMidIs ==
    ASSUME NEW s, NEW ssrc, NEW mid, mid # None
    PROVE  S!SetMidForSsrc(s, ssrc, mid) = [s EXCEPT !.midBySsrc = S!Put(s.midBySsrc, ssrc, mid)]
  BY NoneOf DEF S!SetMidForSsrc

(* At the start the stamper knows what the application told it in its      *)
(* options.                                                                *)
LEMMA FirstTold ==
    ASSUME PathInit, Heeded
    PROVE  StamperTold
  <1>1. mode \in Modes \cap {"recovery", "layers"} /\ ~ stopped
    BY DEF Heeded, PathInit
  <1>2. PICK ids : ids = ExtMaps[mode][1]
    OBVIOUS
  <1>3. 1 \in DOMAIN ExtMaps[mode]
    BY <1>1, SessionsAssumption DEF Heeded
  <1>4. PICK first \in Int : first = (StartSeq - 1) % SeqSpace
    BY <1>1, StamperTwcc, SessionsAssumption
  <1>5. PICK new : new = S!Stamper(ids, 1, StartSeq - 1)
    OBVIOUS
  <1>6. /\ new.extMap = ids /\ new.mid = 1 /\ new.midPayload = S!MidPayload(1, ids) /\ new.twcc = first
        /\ new.midBySsrc = <<>> /\ new.rid = <<>> /\ new.rrid = <<>> /\ DOMAIN new = StamperFields
    BY <1>4, <1>5 DEF S!Stamper, StamperFields
  <1>7. /\ told.mid = 1 /\ told = [mid |-> told.mid, mids |-> told.mids, rids |-> told.rids]
        /\ told.mids = [s \in Ssrcs |-> IF mode = "recovery" /\ s = Primary THEN 5 ELSE None]
        /\ told.rids = [s \in Ssrcs |-> IF mode = "recovery" /\ s = Primary THEN 7 ELSE None]
    BY DEF PathInit
  <1>8. told \in ToldNames
    BY <1>7, NoneOf DEF ToldNames
  <1>9. Primary \in Ssrcs /\ Ssrcs = {1, 2} /\ Primary = 1 /\ RtxSsrc = 3
    BY DEF Ssrcs, Primary, Second, RtxSsrc
  <1>10. CASE mode = "layers"
    <2>1. stamper = new
      BY <1>2, <1>5, <1>7, <1>10 DEF PathInit
    <2>2. \A ssrc \in Ssrcs : Says(stamper, ssrc, told.mids[ssrc], told.rids[ssrc], None)
      <3> SUFFICES ASSUME NEW ssrc \in Ssrcs PROVE Says(stamper, ssrc, told.mids[ssrc], told.rids[ssrc], None)
        OBVIOUS
      <3>1. told.mids[ssrc] = None /\ told.rids[ssrc] = None
        BY <1>7, <1>10
      <3> QED BY <1>6, <1>9, <2>1, <3>1, NoneOf DEF Says
    <2> QED BY <1>2, <1>3, <1>6, <1>7, <1>8, <1>10, <2>1, <2>2 DEF StamperTold
  <1>11. CASE mode = "recovery"
    <2>1. PICK a, b, c : a = S!SetMidForSsrc(new, 1, 5) /\ b = S!SetRidForSsrc(a, 1, 7) /\ c = S!SetMidForSsrc(b, 3, 5)
      OBVIOUS
    <2>2. stamper = S!SetRtxRids(c, 3, 8, 7)
      <3>1. stamper = LET n == S!Stamper(ExtMaps[mode][1], told.mid, StartSeq - 1)
                          l == S!SetRidForSsrc(S!SetMidForSsrc(n, Primary, 5), Primary, 7)
                      IN  S!SetRtxRids(S!SetMidForSsrc(l, RtxSsrc, 5), RtxSsrc, 8, 7)
        BY <1>11 DEF PathInit
      <3> QED BY <1>2, <1>5, <1>7, <1>9, <2>1, <3>1
    <2>3. None # 5 /\ None # 7 /\ None # 8
      BY DEF None, S!None
    <2>4. PICK m1, m2, r1, r2, q : /\ m1 = S!Put(<<>>, 1, 5) /\ r1 = S!Put(<<>>, 1, 7) /\ m2 = S!Put(m1, 3, 5)
                                   /\ r2 = S!Put(r1, 3, 8) /\ q = S!Put(<<>>, 3, 7)
      OBVIOUS
    <2>5. a = [new EXCEPT !.midBySsrc = m1]
      <3>1. a = [new EXCEPT !.midBySsrc = S!Put(new.midBySsrc, 1, 5)]
        BY <2>1, <2>3, SetMidIs
      <3> QED BY <1>6, <2>4, <3>1
    <2>6. b = [a EXCEPT !.rid = r1]
      BY <1>6, <2>1, <2>3, <2>4, <2>5, NoneOf DEF S!SetRidForSsrc, StamperFields
    <2>7. c = [b EXCEPT !.midBySsrc = m2]
      <3>1. b.midBySsrc = m1
        BY <1>6, <2>5, <2>6 DEF StamperFields
      <3>2. c = [b EXCEPT !.midBySsrc = S!Put(b.midBySsrc, 3, 5)]
        BY <2>1, <2>3, SetMidIs
      <3> QED BY <2>4, <3>1, <3>2
    <2>8. stamper = [c EXCEPT !.rid = r2, !.rrid = q]
      BY <1>6, <2>2, <2>3, <2>4, <2>5, <2>6, <2>7, NoneOf, Zenon DEF S!SetRtxRids, StamperFields
    <2>9. /\ DOMAIN stamper = StamperFields /\ stamper.extMap = ids /\ stamper.mid = 1 /\ stamper.twcc = first
          /\ stamper.midPayload = S!MidPayload(1, ids)
          /\ stamper.midBySsrc = m2 /\ stamper.rid = r2 /\ stamper.rrid = q
      BY <1>6, <2>5, <2>6, <2>7, <2>8 DEF StamperFields
    <2>10. S!Lookup(m2, 1) = 5 /\ S!Lookup(m2, 2) = None /\ S!Lookup(m2, 3) = 5
      <3>1. S!Lookup(m1, 1) = 5 /\ S!Lookup(m1, 2) = None
        BY <2>4, LookupPut, NoneOf
      <3> QED BY <2>4, <3>1, LookupPut
    <2>11. S!Lookup(r2, 1) = 7 /\ S!Lookup(r2, 2) = None /\ S!Lookup(r2, 3) = 8
      <3>1. S!Lookup(r1, 1) = 7 /\ S!Lookup(r1, 2) = None
        BY <2>4, LookupPut, NoneOf
      <3> QED BY <2>4, <3>1, LookupPut
    <2>12. S!Lookup(q, 1) = None /\ S!Lookup(q, 2) = None /\ S!Lookup(q, 3) = 7
      BY <2>4, LookupPut, NoneOf
    <2>13. \A ssrc \in Ssrcs : Says(stamper, ssrc, told.mids[ssrc], told.rids[ssrc], None)
      <3> SUFFICES ASSUME NEW ssrc \in Ssrcs PROVE Says(stamper, ssrc, told.mids[ssrc], told.rids[ssrc], None)
        OBVIOUS
      <3>1. /\ told.mids[ssrc] = IF ssrc = 1 THEN 5 ELSE None
            /\ told.rids[ssrc] = IF ssrc = 1 THEN 7 ELSE None
        BY <1>7, <1>9, <1>11
      <3> QED BY <1>9, <2>9, <2>10, <2>11, <2>12, <3>1 DEF Says
    <2>14. Says(stamper, RtxSsrc, 5, 8, 7) /\ told.mids[Primary] = 5 /\ told.rids[Primary] = 7
      BY <1>7, <1>9, <1>11, <2>9, <2>10, <2>11, <2>12 DEF Says
    <2> QED BY <1>2, <1>3, <1>6, <1>7, <1>8, <2>9, <2>13, <2>14 DEF StamperTold
  <1> QED BY <1>10, <1>11 DEF Heeded

(* Init => PathInv.                                                        *)
LEMMA FirstInv ==
    ASSUME PathInit
    PROVE  PathInv
  <1>1. mode \in Modes /\ held = {} /\ ~ stopped /\ sent = <<>> /\ rtp = {} /\ rtcp = {} /\ now = StartNow[mode]
        /\ rings = R!NoRings /\ rtxSeq = StartSeq /\ last = R!NoRequests
    BY DEF PathInit
  <1>2. ASSUME Heeded PROVE HeedInv
    <2>1. Given = {} /\ sent \in Seq(Calls) /\ Len(sent) = 0
      BY <1>1, EmptySeq DEF Given
    <2>2. HistoryInv
      BY <1>1, <1>2, <2>1, HeededFacts DEF HistoryInv
    <2>3. DOMAIN rings = {}
      BY <1>1 DEF R!NoRings
    <2>4. quiet = [n \in Numbers |-> ThrottleWindow]
      BY DEF PathInit
    <2>5. quiet \in [Numbers -> Nat] /\ Throttled(last, quiet)
      <3>1. DOMAIN last = {}
        BY <1>1 DEF R!NoRequests
      <3>2. PICK w \in Nat \ {0} : w = ThrottleWindow
        BY ThrottleFacts
      <3>3. quiet \in [Numbers -> Nat] /\ \A n \in Numbers : quiet[n] = w
        BY <2>4, <3>2
      <3>4. w >= w
        OBVIOUS
      <3> QED BY <3>1, <3>2, <3>3, <3>4 DEF Throttled, Waited
    <2>6. RepairInv
      BY <1>1, <1>2, <2>3, <2>5, HeededFacts DEF RepairInv, Kept
    <2> QED BY <1>1, <1>2, <2>1, <2>2, <2>6, FirstTold DEF HeedInv, WayInv
  <1> QED BY <1>1, <1>2 DEF PathInv

(* What stays as it was told.                                              *)
LEMMA GivenStays ==
    ASSUME UNCHANGED <<mode, now>>, NEW t, IsGiven(t)
    PROVE  IsGiven(t)'
  BY DEF IsGiven, Numbers

(* A packet that was sent stays one as long as the ids do,                 *)
LEMMA SentStays ==
    ASSUME UNCHANGED mode, stamper'.extMap = stamper.extMap, Given \subseteq Given', NEW pkt
    PROVE  (Sent(pkt) => Sent(pkt)') /\ (OnWay(pkt) => OnWay(pkt)')
  <1>1. PICK ids, theirs : ids = stamper.extMap /\ theirs = TheirIds[mode]
    OBVIOUS
  <1>2. ids = stamper'.extMap /\ theirs = TheirIds[mode']
    BY <1>1
  <1>3. Sent(pkt) => Sent(pkt)'
    BY <1>1, <1>2 DEF Sent
  <1>4. (\E t \in Given : Repeats(pkt, t, ids, theirs)) => \E t \in Given' : Repeats(pkt, t, ids, theirs)
    OBVIOUS
  <1> QED BY <1>1, <1>2, <1>3, <1>4 DEF OnWay

(* and so does the ring,                                                   *)
LEMMA KeptStays ==
    ASSUME UNCHANGED <<mode, rings, stopped>>, stamper'.extMap = stamper.extMap, Given \subseteq Given', Kept
    PROVE  Kept'
  <1>1. \A ssrc \in DOMAIN rings : \A i \in DOMAIN rings[ssrc] : Sent(rings[ssrc][i])'
    <2> SUFFICES ASSUME NEW ssrc \in DOMAIN rings, NEW i \in DOMAIN rings[ssrc] PROVE Sent(rings[ssrc][i])'
      OBVIOUS
    <2>1. PICK pkt : pkt = rings[ssrc][i]
      OBVIOUS
    <2>2. Sent(pkt)
      BY <2>1 DEF Kept
    <2>3. Sent(pkt)'
      BY <2>2, SentStays
    <2>4. pkt = rings'[ssrc][i]
      BY <2>1
    <2> QED BY <2>3, <2>4 DEF Sent
  <1> QED BY <1>1 DEF Kept

(* what was given to the sender,                                           *)
LEMMA HistoryStays ==
    ASSUME UNCHANGED <<mode, now, sent>>, HistoryInv
    PROVE  HistoryInv' /\ Given' = Given
  <1>1. Given' = Given
    BY DEF Given
  <1>2. \A t \in Given : IsGiven(t)'
    BY GivenStays DEF HistoryInv
  <1> QED BY <1>1, <1>2 DEF HistoryInv

(* A step that leaves most of it alone.                                    *)
LEMMA WayStays ==
    ASSUME UNCHANGED <<mode, now, sent>>, stamper'.extMap = stamper.extMap, HistoryInv, WayInv,
           \A pkt \in rtp' \ rtp : OnWay(pkt)
    PROVE  HistoryInv' /\ Given' = Given /\ WayInv'
  <1>1. HistoryInv' /\ Given' = Given
    BY HistoryStays
  <1>2. \A pkt \in rtp' : OnWay(pkt)
    BY DEF WayInv
  <1>3. \A pkt \in rtp' : OnWay(pkt)'
    BY <1>1, <1>2, SentStays
  <1> QED BY <1>1, <1>3 DEF WayInv

(* and what repairs the stream.                                            *)
LEMMA RepairStays ==
    ASSUME UNCHANGED <<mode, rings, stopped, rtxSeq, quiet, last>>, stamper'.extMap = stamper.extMap, Given' = Given,
           RepairInv, mode = "recovery" => rtcp' \subseteq Nacks
    PROVE  RepairInv'
  <1>1. Kept => Kept'
    BY KeptStays
  <1>2. Numbers' = Numbers
    BY DEF Numbers
  <1>3. Throttled(last, quiet) => Throttled(last, quiet)'
    OBVIOUS
  <1>4. Nacks' = Nacks
    OBVIOUS
  <1> QED BY <1>1, <1>2, <1>3, <1>4 DEF RepairInv

(* Where packets are read, PathInv is HeedInv.                             *)
LEMMA Steps ==
    ASSUME PathInv, Heeded, UNCHANGED mode, stopped' => mode = "recovery", HeedInv'
    PROVE  PathInv'
  BY DEF PathInv, Heeded, Reported

-----------------------------------------------------------------------------
(* What the receiver reads of what comes (Hear), and of a probe.           *)
LEMMA ReadIsGiven ==
    ASSUME PathInv, Heeded, NEW pkt \in rtp
    PROVE  Reading(Recovered(Arriving(pkt))) \in Given
  <1>1. StamperTold /\ HistoryInv /\ OnWay(pkt) /\ mode \in Modes
    BY DEF PathInv, HeedInv, WayInv
  <1>2. PICK i \in DOMAIN ExtMaps[mode] : stamper.extMap = ExtMaps[mode][i]
    BY <1>1 DEF StamperTold
  <1>3. /\ IsIds(stamper.extMap) /\ IsIds(TheirIds[mode]) /\ "mid" \in DOMAIN TheirIds[mode]
    BY <1>1, <1>2, KnownIds DEF Both
  <1>4. \A t \in Given : t \in Truths /\ t.ssrc \in Ssrcs /\ (mode = "recovery" => t.ssrc = Primary)
    BY <1>1 DEF HistoryInv, IsGiven
  <1>5. RtxSsrc \notin Ssrcs
    BY DEF RtxSsrc, Ssrcs, Primary, Second
  <1>6. CASE mode = "recovery"
    <2>1. Arriving(pkt) = pkt
      BY <1>6 DEF Arriving
    <2>2. stamper.extMap = TheirIds[mode]
      BY <1>1, <1>6, RecoveryIds
    <2>3. ASSUME NEW t \in Given, Fresh(pkt, t, stamper.extMap, TheirIds[mode])
          PROVE  Reading(Recovered(Arriving(pkt))) \in Given
      <3>1. pkt.ssrc = t.ssrc
        BY <2>3 DEF Fresh, SameWords
      <3>2. pkt.ssrc # RtxSsrc
        BY <1>4, <1>5, <3>1
      <3>3. Recovered(pkt) = pkt
        BY <3>2 DEF Recovered
      <3>4. t \in Truths
        BY <1>4
      <3>5. Fresh(pkt, t, TheirIds[mode], TheirIds[mode])
        BY <2>2, <2>3
      <3>6. Reading(pkt) = t
        BY <1>3, <3>4, <3>5, FreshRead
      <3> QED BY <2>1, <3>3, <3>6
    <2>4. ASSUME NEW t \in Given, Repeats(pkt, t, stamper.extMap, TheirIds[mode])
          PROVE  Reading(Recovered(Arriving(pkt))) \in Given
      <3>1. pkt.ssrc = RtxSsrc
        BY <2>4 DEF Repeats
      <3>2. Recovered(pkt) = R!ParseRtxPacket(pkt, Primary, MediaPt)
        BY <3>1 DEF Recovered
      <3>3. t \in Truths /\ t.ssrc = Primary
        BY <1>4, <1>6
      <3>4. Repeats(pkt, t, TheirIds[mode], TheirIds[mode])
        BY <2>2, <2>4
      <3>5. Reading(R!ParseRtxPacket(pkt, Primary, MediaPt)) = t
        BY <1>3, <3>3, <3>4, RepeatRead
      <3> QED BY <2>1, <3>2, <3>5
    <2> QED BY <1>1, <2>3, <2>4 DEF OnWay, Sent
  <1>7. CASE mode = "layers"
    <2>1. Arriving(pkt) = H!RemapExtensionIds(pkt, MapOf(stamper.extMap, TheirIds[mode]))
      BY <1>7, Zenon DEF Arriving, IdMap, MapOf
    <2>2. PICK t \in Given : Fresh(pkt, t, stamper.extMap, TheirIds[mode])
      <3>1. mode # "recovery"
        BY <1>7
      <3> QED BY <1>1, <3>1 DEF OnWay, Sent
    <2>3. t \in Truths
      BY <1>4
    <2>4. /\ Reading(H!RemapExtensionIds(pkt, MapOf(stamper.extMap, TheirIds[mode]))) = t
          /\ H!RemapExtensionIds(pkt, MapOf(stamper.extMap, TheirIds[mode])).ssrc = t.ssrc
      <3>1. PICK ids : ids = stamper.extMap
        OBVIOUS
      <3>2. IsIds(ids) /\ Fresh(pkt, t, ids, TheirIds[mode])
        BY <1>3, <2>2, <3>1
      <3>3. /\ Reading(H!RemapExtensionIds(pkt, MapOf(ids, TheirIds[mode]))) = t
            /\ H!RemapExtensionIds(pkt, MapOf(ids, TheirIds[mode])).ssrc = t.ssrc
        BY <1>3, <2>3, <3>2, FreshMovedRead
      <3> QED BY <3>1, <3>3
    <2>5. Arriving(pkt).ssrc # RtxSsrc /\ Reading(Arriving(pkt)) = t
      BY <1>4, <1>5, <2>1, <2>4
    <2>6. Recovered(Arriving(pkt)) = Arriving(pkt)
      BY <2>5 DEF Recovered
    <2> QED BY <2>5, <2>6
  <1> QED BY <1>6, <1>7 DEF Heeded

(* Hear: what is read is a truth that was given to the sender.             *)
LEMMA HearKeeps ==
    ASSUME PathInv, Heeded, NEW pkt \in rtp, NEW stays, Hear(pkt, stays)
    PROVE  PathInv'
  <1>1. HeedInv /\ ~ Reported
    BY DEF PathInv, Heeded, Reported
  <1>2. /\ UNCHANGED <<mode, stamper, rings, rtxSeq, last, quiet, stopped, now, rtcp, sent, told>>
        /\ rtp' \subseteq rtp
    BY DEF Hear, recoveryVars
  <1>3. PICK whole : whole = Recovered(Arriving(pkt))
    OBVIOUS
  <1>4. held' = held \/ held' = held \cup {Reading(whole)}
    BY <1>1, <1>3, Zenon DEF Hear
  <1>5. Reading(whole) \in Given
    BY <1>3, ReadIsGiven
  <1>6. HistoryInv' /\ Given' = Given /\ WayInv'
    BY <1>1, <1>2, WayStays DEF HeedInv
  <1>7. RepairInv'
    BY <1>1, <1>2, <1>6, RepairStays DEF HeedInv, RepairInv
  <1>8. StamperTold'
    BY <1>1, <1>2 DEF HeedInv, StamperTold
  <1>9. held' \subseteq Given'
    BY <1>1, <1>4, <1>5, <1>6 DEF HeedInv
  <1>10. HeedInv'
    BY <1>6, <1>7, <1>8, <1>9 DEF HeedInv
  <1> QED BY <1>2, <1>10, Steps DEF PathInv

(* Only what is left of a sequence number is written.                      *)
LEMMA SerializeSeq ==
    ASSUME NEW r, NEW q, r.padding = q.padding, r.exts = q.exts, r.csrc = q.csrc, r.marker = q.marker, r.pt = q.pt,
           r.ts = q.ts, r.ssrc = q.ssrc, r.payload = q.payload, r.seq % SeqSpace = q.seq % SeqSpace
    PROVE  H!Serialize(r) = H!Serialize(q)
  BY Zenon DEF H!Serialize

(* A probe is padding alone.                                               *)
LEMMA ProbeIsNone ==
    ASSUME rtxSeq \in Int
    PROVE  IsNone(Recovered(ProbePacket))
  <1>1. PICK pad : pad = [i \in 1 .. 4 |-> H!Octet("pad", IF i = 4 THEN 4 ELSE 0, i)]
    BY Zenon
  <1>2. \A i \in 1 .. 4 : H!Octet("pad", IF i = 4 THEN 4 ELSE 0, i) \in Plain
    BY DEF Plain, AnyOctet, Kinds, H!Octet
  <1>3. H!Octet("pad", 4, 4).v = 4
    BY DEF H!Octet
  <1>4. pad \in [1 .. 4 -> Plain] /\ pad[4].v = 4
    BY <1>1, <1>2, <1>3
  <1>5. pad \in Seq(Plain) /\ Len(pad) = 4
    <2>1. PICK k \in Nat : k = 4
      OBVIOUS
    <2>2. pad \in [1 .. k -> Plain]
      BY <1>4, <2>1
    <2> QED BY <2>1, <2>2, FcnSeq, Zenon
  <1>6. pad \in Octs
    BY <1>5, PlainSeq DEF Octs
  <1>7. PICK r : r = [padding |-> TRUE, exts |-> H!NoExts, csrc |-> <<>>, marker |-> FALSE, pt |-> RtxPt,
                      seq |-> rtxSeq % SeqSpace, ts |-> 0, ssrc |-> RtxSsrc, payload |-> pad]
    BY Zenon
  <1>8. r \in Asked
    <2>1. <<>> \in Csrcs
      BY EmptySeq DEF Csrcs
    <2>2. RtxPt \in 0 .. 127 /\ H!NoExts \in ExtSets
      BY NoExtsIn DEF RtxPt
    <2>3. RtxSsrc \in 0 .. WordSpace - 1 /\ 0 \in 0 .. WordSpace - 1
      BY SsrcsIn, WireAssumption
    <2>4. rtxSeq % SeqSpace \in 0 .. SeqSpace - 1
      BY WireAssumption, RestIn
    <2> QED BY <1>6, <1>7, <2>1, <2>2, <2>3, <2>4 DEF Asked
  <1>9. PICK pkt : pkt = H!Serialize(r)
    OBVIOUS
  <1>10. Carries(pkt, r.csrc, r.exts, r.payload) /\ pkt.p = r.padding /\ pkt.ssrc = r.ssrc
    BY <1>8, <1>9, SerializeCarries
  <1>11. r.csrc = <<>> /\ r.exts = H!NoExts /\ r.payload = pad /\ r.padding = TRUE /\ r.ssrc = RtxSsrc
    BY <1>7
  <1>12. Padded(pkt, pad)
    BY <1>4, <1>5, <1>6, <1>10, <1>11 DEF Padded
  <1>13. PICK csrc, exts : Carries(pkt, csrc, exts, pad)
    BY <1>10, <1>11
  <1>14. R!ParseRtxPacket(pkt, Primary, MediaPt) = H!NoPacket
    BY <1>12, <1>13, PaddingAlone
  <1>15. ProbePacket = pkt
    <2>1. PICK q : q = [padding |-> TRUE, exts |-> H!NoExts, csrc |-> <<>>, marker |-> FALSE, pt |-> RtxPt,
                        seq |-> rtxSeq, ts |-> 0, ssrc |-> RtxSsrc, payload |-> pad]
      BY Zenon
    <2>2. (rtxSeq % SeqSpace) % SeqSpace = rtxSeq % SeqSpace
      BY WireAssumption, RestIn, FitsWhole
    <2>3. H!Serialize(q) = H!Serialize(r)
      BY <1>7, <2>1, <2>2, SerializeSeq
    <2>4. ProbePacket = H!Serialize(q)
      BY <1>1, <2>1, Zenon DEF ProbePacket
    <2> QED BY <1>9, <2>3, <2>4
  <1>16. Recovered(pkt) = H!NoPacket
    BY <1>10, <1>11, <1>14 DEF Recovered
  <1>17. "none" \in DOMAIN H!NoPacket
    BY DEF H!NoPacket
  <1> QED BY <1>15, <1>16, <1>17 DEF IsNone

(* Probe: nothing is recovered of padding alone.                           *)
LEMMA ProbeKeeps ==
    ASSUME PathInv, Heeded, Probe
    PROVE  PathInv'
  <1>1. HeedInv /\ mode = "recovery"
    BY DEF PathInv, Probe
  <1>2. UNCHANGED <<mode, stamper, rings, rtxSeq, last, quiet, stopped, now, rtp, rtcp, sent, told>>
    BY DEF Probe, recoveryVars
  <1>3. IsNone(Recovered(ProbePacket))
    BY <1>1, ProbeIsNone DEF HeedInv, RepairInv
  <1>4. held' = held
    BY <1>3, Zenon DEF Probe
  <1>5. HistoryInv' /\ Given' = Given /\ WayInv'
    BY <1>1, <1>2, WayStays DEF HeedInv
  <1>6. RepairInv'
    BY <1>1, <1>2, <1>5, RepairStays DEF HeedInv, RepairInv
  <1>7. StamperTold'
    BY <1>1, <1>2 DEF HeedInv, StamperTold
  <1>8. HeedInv'
    BY <1>1, <1>4, <1>5, <1>6, <1>7 DEF HeedInv
  <1> QED BY <1>2, <1>8, Steps DEF PathInv

(* One call more.                                                          *)
LEMMA AppendGiven ==
    ASSUME sent \in Seq(Calls), NEW t, NEW at, [truth |-> t, at |-> at] \in Calls,
           sent' = Append(sent, [truth |-> t, at |-> at])
    PROVE  sent' \in Seq(Calls) /\ Len(sent') = Len(sent) + 1 /\ Given' = Given \cup {t}
  <1>1. PICK c \in Calls : c = [truth |-> t, at |-> at]
    OBVIOUS
  <1>2. PICK a, b : a = sent /\ a \in Seq(Calls) /\ b = sent' /\ b = Append(a, c)
    BY <1>1
  <1>3. PICK n \in Nat : n = Len(a) /\ DOMAIN a = 1 .. n
    BY LenProperties
  <1>4. b \in Seq(Calls) /\ Len(b) = n + 1
    BY <1>2, <1>3, AppendProperties
  <1>5. DOMAIN b = 1 .. n + 1
    BY <1>3, <1>4, LenProperties
  <1>6. (\A i \in 1 .. n : b[i] = a[i]) /\ b[n + 1] = c
    BY <1>2, <1>3, AppendProperties
  <1>7. c.truth = t
    BY <1>1
  <1>8. {b[i].truth : i \in DOMAIN b} = {a[i].truth : i \in DOMAIN a} \cup {t}
    <2>1. \A i \in 1 .. n + 1 : i \in 1 .. n \/ i = n + 1
      OBVIOUS
    <2>2. 1 .. n \subseteq 1 .. n + 1 /\ n + 1 \in 1 .. n + 1
      OBVIOUS
    <2>3. \A i \in DOMAIN b : b[i].truth \in {a[j].truth : j \in DOMAIN a} \cup {t}
      BY <1>3, <1>5, <1>6, <1>7, <2>1
    <2>4. \A i \in DOMAIN a : a[i].truth \in {b[j].truth : j \in DOMAIN b}
      BY <1>3, <1>5, <1>6, <2>2
    <2>5. t \in {b[j].truth : j \in DOMAIN b}
      BY <1>5, <1>6, <1>7, <2>2
    <2> QED BY <2>3, <2>4, <2>5
  <1> QED BY <1>2, <1>3, <1>4, <1>8 DEF Given

(* A packet is kept in its ring (store, retransmit.js:92-102).             *)
LEMMA StoreKept ==
    ASSUME Kept, ~stopped, UNCHANGED <<mode, stopped>>, stamper'.extMap = stamper.extMap, Given \subseteq Given',
           NEW pkt, pkt.ssrc = Primary, Sent(pkt)', rings' = R!Store(rings, pkt)
    PROVE  Kept'
  <1>1. PICK ring : ring = IF Primary \in DOMAIN rings THEN rings[Primary] ELSE <<>>
    OBVIOUS
  <1>2. PICK k, new : k = pkt.seq % RingSize /\ new = R!Put(ring, k, pkt)
    OBVIOUS
  <1>3. rings' = R!Put(rings, Primary, new)
    BY <1>1, <1>2, Zenon DEF R!Store
  <1>4. DOMAIN new = DOMAIN ring \cup {k} /\ new[k] = pkt /\ \A i \in DOMAIN ring : i # k => new[i] = ring[i]
    BY <1>2 DEF R!Put
  <1>5. DOMAIN rings \subseteq {Primary}
    BY DEF Kept
  <1>6. DOMAIN rings' = {Primary} /\ rings'[Primary] = new
    BY <1>3, <1>5 DEF R!Put
  <1>7. ASSUME NEW i \in DOMAIN ring PROVE Sent(ring[i])'
    <2>1. PICK old : old = ring[i]
      OBVIOUS
    <2>2. Primary \in DOMAIN rings /\ old = rings[Primary][i] /\ i \in DOMAIN rings[Primary]
      BY <1>1, <1>7, <2>1
    <2>3. Sent(old)
      BY <2>2 DEF Kept
    <2>4. Sent(old)'
      BY <2>3, SentStays
    <2> QED BY <2>1, <2>4
  <1>8. ASSUME NEW i \in DOMAIN new PROVE Sent(new[i])'
    <2>1. CASE i = k
      BY <1>4, <2>1
    <2>2. CASE i # k
      <3>1. i \in DOMAIN ring /\ new[i] = ring[i]
        BY <1>4, <1>8, <2>2
      <3> QED BY <1>7, <3>1
    <2> QED BY <2>1, <2>2
  <1>9. \A ssrc \in DOMAIN rings' : \A i \in DOMAIN rings'[ssrc] : Sent(rings[ssrc][i])'
    <2> SUFFICES ASSUME NEW ssrc \in DOMAIN rings', NEW i \in DOMAIN rings'[ssrc] PROVE Sent(rings[ssrc][i])'
      OBVIOUS
    <2>1. ssrc = Primary /\ i \in DOMAIN new
      BY <1>6
    <2>2. PICK one : one = new[i] /\ one = rings'[ssrc][i]
      BY <1>6, <2>1
    <2>3. Sent(new[i])'
      BY <1>8, <2>1
    <2> QED BY <2>2, <2>3 DEF Sent
  <1>10. stopped' => DOMAIN rings' = {}
    OBVIOUS
  <1> QED BY <1>6, <1>9, <1>10 DEF Kept

(* One more packet is stamped and sent.                                    *)
LEMMA SendKeeps ==
    ASSUME PathInv, Heeded, NEW ssrc \in Ssrcs, Send(ssrc)
    PROVE  PathInv'
  <1>1. /\ mode \in Modes /\ StamperTold /\ HistoryInv /\ WayInv /\ RepairInv /\ held \subseteq Given
        /\ now = StartNow[mode]
    BY DEF PathInv, HeedInv, HistoryInv
  <1>2. PICK n : n = Len(sent) + 1
    OBVIOUS
  <1>3. PICK stamped : stamped = S!Stamp(stamper, Packet(n, ssrc), Hints(n), now)
    OBVIOUS
  <1>4. PICK t : t = Truth(n, ssrc)
    OBVIOUS
  <1>5. /\ n \in Numbers /\ ~stopped /\ ssrc \in (IF mode = "layers" THEN Ssrcs ELSE {Primary})
        /\ stamper' = stamped.st
        /\ rings' = IF mode = "recovery" THEN R!Store(rings, stamped.pkt) ELSE rings
        /\ rtp' = rtp \cup {stamped.pkt} /\ sent' = Append(sent, [truth |-> t, at |-> now])
        /\ UNCHANGED <<mode, rtxSeq, last, quiet, stopped, now, rtcp, held, told>>
    BY <1>2, <1>3, <1>4, Zenon DEF Send
  <1>6. Fresh(stamped.pkt, t, stamper.extMap, TheirIds[mode])
    BY <1>1, <1>3, <1>4, <1>5, SendFresh
  <1>7. SameNames(stamper', stamper)
    <2>1. DOMAIN stamper = StamperFields /\ stamper.twcc \in Int
      BY <1>1 DEF StamperTold
    <2>2. PICK s, pkt, hints : s = stamper /\ pkt = Packet(n, ssrc) /\ hints = Hints(n)
      OBVIOUS
    <2>3. SameNames(S!Stamp(s, pkt, hints, now).st, s)
      BY <2>1, <2>2, StampSameNames
    <2> QED BY <1>3, <1>5, <2>2, <2>3
  <1>8. stamper'.extMap = stamper.extMap
    BY <1>7 DEF SameNames
  <1>9. StamperTold'
    BY <1>1, <1>5, <1>7, SameNamesTold
  <1>10. t \in Truths /\ t.ssrc = ssrc /\ t.seq = SeqNo(n) /\ t.mid = MidTold(ssrc) /\ t.rid = told.rids[ssrc]
         /\ t.time = TimeTold(now, TheirIds[mode])
    BY <1>1, <1>4, <1>5, TruthIn
  <1>11. IsGiven(t)
    <2>1. ASSUME mode = "recovery" PROVE t.ssrc = Primary /\ t.mid = 5 /\ t.rid = 7
      <3>1. ssrc = Primary
        BY <1>5, <2>1
      <3>2. told.mids[Primary] = 5 /\ told.rids[Primary] = 7
        BY <1>1, <1>5, <2>1 DEF StamperTold
      <3>3. None # 5
        BY DEF None, S!None
      <3> QED BY <1>10, <3>1, <3>2, <3>3 DEF MidTold
    <2> QED BY <1>5, <1>10, <2>1 DEF IsGiven
  <1>12. sent' \in Seq(Calls) /\ Len(sent') = n /\ Given' = Given \cup {t}
    <2>1. [truth |-> t, at |-> now] \in Calls
      <3>1. now \in Int
        BY <1>1, HeededFacts
      <3> QED BY <1>10, <3>1 DEF Calls
    <2>2. sent \in Seq(Calls)
      BY <1>1 DEF HistoryInv
    <2> QED BY <1>2, <1>5, <2>1, <2>2, AppendGiven
  <1>13. HistoryInv'
    <2>1. \A u \in Given' : IsGiven(u)'
      <3>1. \A u \in Given' : IsGiven(u)
        BY <1>1, <1>11, <1>12 DEF HistoryInv
      <3> QED BY <1>5, <3>1, GivenStays
    <2>2. n <= Len(Media[mode])
      BY <1>1, <1>5, HeededFacts DEF Numbers
    <2> QED BY <1>1, <1>5, <1>12, <2>1, <2>2 DEF HistoryInv
  <1>14. Sent(stamped.pkt)'
    <2>1. PICK pkt, ids, theirs : pkt = stamped.pkt /\ ids = stamper.extMap /\ theirs = TheirIds[mode]
      OBVIOUS
    <2>2. ids = stamper'.extMap /\ theirs = TheirIds[mode']
      BY <1>5, <1>8, <2>1
    <2>3. Fresh(pkt, t, ids, theirs) /\ t \in Given'
      BY <1>6, <1>12, <2>1
    <2>4. Sent(pkt)'
      BY <2>2, <2>3 DEF Sent
    <2> QED BY <2>1, <2>4
  <1>15. WayInv'
    <2>1. \A pkt \in rtp : OnWay(pkt)'
      BY <1>1, <1>5, <1>8, <1>12, SentStays DEF WayInv
    <2>2. OnWay(stamped.pkt)'
      BY <1>14 DEF OnWay
    <2> QED BY <1>5, <2>1, <2>2 DEF WayInv
  <1>16. RepairInv'
    <2> SUFFICES ASSUME mode' = "recovery"
                 PROVE  (/\ Kept /\ rtxSeq \in Int /\ quiet \in [Numbers -> Nat] /\ (~stopped => Throttled(last, quiet))
                         /\ rtcp \subseteq Nacks)'
      BY DEF RepairInv
    <2>1. mode = "recovery"
      BY <1>5
    <2>2. stamped.pkt.ssrc = Primary
      <3>1. ssrc = Primary
        BY <1>5, <2>1
      <3> QED BY <1>6, <1>10, <3>1 DEF Fresh, SameWords
    <2>3. Kept'
      <3>1. PICK pkt : pkt = stamped.pkt
        OBVIOUS
      <3>2. rings' = R!Store(rings, pkt) /\ pkt.ssrc = Primary
        BY <1>5, <2>1, <2>2, <3>1
      <3>3. Sent(pkt)'
        BY <1>14, <3>1
      <3>4. Kept
        BY <1>1, <2>1 DEF RepairInv
      <3> QED BY <1>5, <1>8, <1>12, <3>2, <3>3, <3>4, StoreKept
    <2>4. Numbers' = Numbers /\ Nacks' = Nacks
      BY <1>5 DEF Numbers
    <2>5. rtxSeq \in Int /\ quiet \in [Numbers -> Nat] /\ (~stopped => Throttled(last, quiet)) /\ rtcp \subseteq Nacks
      BY <1>1, <2>1 DEF RepairInv
    <2> QED BY <1>5, <2>3, <2>4, <2>5
  <1>17. HeedInv'
    BY <1>1, <1>5, <1>9, <1>12, <1>13, <1>15, <1>16 DEF HeedInv
  <1> QED BY <1>5, <1>17, Steps DEF PathInv

-----------------------------------------------------------------------------
(* A NACK is served.                                                       *)
LEMMA NackServed ==
    ASSUME PathInv, Heeded, NEW m \in rtcp, NEW sweep, OnNack(m, sweep)
    PROVE  Serving(Retransmitted(C!ParseRTCPCompound(m.words)[1].lost, sweep))
  <1>1. mode = "recovery" /\ mode \in Modes
    BY DEF PathInv, OnNack
  <1>2. /\ StamperTold /\ now = StartNow[mode] /\ (\A t \in Given : IsGiven(t))
        /\ Kept /\ rtxSeq \in Int /\ quiet \in [Numbers -> Nat] /\ (~stopped => Throttled(last, quiet)) /\ m \in Nacks
    BY <1>1 DEF PathInv, HeedInv, HistoryInv, RepairInv
  <1>3. PICK list : list = C!ParseRTCPCompound(m.words)[1].lost
    OBVIOUS
  <1>4. Len(list) \in Nat
    <2>1. MostNumbers \in Nat
      BY <1>1, HeededFacts DEF MostNumbers
    <2> QED BY <1>2, <1>3, <2>1, NackListed
  <1>5. Serving(Retransmitted(list, sweep))
    BY <1>1, <1>2, <1>4, AllServed
  <1> QED BY <1>3, <1>5

(* A NACK that arrives: what it makes the sender repeat was sent before.   *)
LEMMA NackKeeps ==
    ASSUME PathInv, Heeded, NEW m \in rtcp, NEW sweep, OnNack(m, sweep)
    PROVE  PathInv'
  <1>1. PICK r : r = Retransmitted(C!ParseRTCPCompound(m.words)[1].lost, sweep)
    OBVIOUS
  <1>2. Serving(r)
    BY <1>1, NackServed
  <1>3. /\ mode = "recovery" /\ rtcp' = rtcp \ {m} /\ last' = r.last /\ rtxSeq' = r.rtxSeq /\ stamper' = r.stamper
        /\ rtp' = rtp \cup r.pkts
        /\ quiet' = [n \in DOMAIN quiet |-> IF SeqNo(n) \in r.seqs THEN 0 ELSE quiet[n]]
        /\ UNCHANGED <<mode, rings, stopped, now, held, sent, told>>
    BY <1>1, Zenon DEF OnNack
  <1>4. HeedInv
    BY DEF PathInv
  <1>5. SameNames(stamper', stamper)
    BY <1>2, <1>3 DEF Serving
  <1>6. stamper'.extMap = stamper.extMap /\ StamperTold'
    BY <1>3, <1>4, <1>5, SameNamesTold DEF SameNames, HeedInv
  <1>7. HistoryInv' /\ Given' = Given /\ WayInv'
    <2>1. \A pkt \in r.pkts : OnWay(pkt)
      BY <1>2, <1>3 DEF Serving, Resent, OnWay
    <2> QED BY <1>3, <1>4, <1>6, <2>1, WayStays DEF HeedInv
  <1>8. quiet' \in [Numbers -> Nat] /\ quiet' = Since(quiet, r.seqs)
    <2>1. quiet \in [Numbers -> Nat]
      BY <1>3, <1>4 DEF HeedInv, RepairInv
    <2> QED BY <1>3, <2>1 DEF Since
  <1>9. ~stopped => Throttled(last', quiet')
    BY <1>2, <1>3, <1>8 DEF Serving
  <1>10. RepairInv'
    <2>1. Kept'
      BY <1>3, <1>4, <1>6, <1>7, KeptStays DEF HeedInv, RepairInv
    <2>2. rtxSeq' \in Int
      BY <1>2, <1>3 DEF Serving
    <2>3. rtcp' \subseteq Nacks'
      BY <1>3, <1>4 DEF HeedInv, RepairInv
    <2>4. Numbers' = Numbers
      BY <1>3 DEF Numbers
    <2> QED BY <1>3, <1>8, <1>9, <2>1, <2>2, <2>3, <2>4 DEF RepairInv
  <1>11. HeedInv'
    BY <1>3, <1>4, <1>6, <1>7, <1>10 DEF HeedInv
  <1> QED BY <1>3, <1>11, Steps DEF PathInv

(* Ask: a NACK is on its way.                                              *)
LEMMA AskKeeps ==
    ASSUME PathInv, Heeded, NEW m \in Nacks, Ask(m)
    PROVE  PathInv'
  <1>1. HeedInv
    BY DEF PathInv
  <1>2. /\ UNCHANGED <<mode, stamper, rings, rtxSeq, last, quiet, stopped, now, rtp, held, sent, told>>
        /\ rtcp' = rtcp \cup {m}
    BY DEF Ask, recoveryVars
  <1>3. HistoryInv' /\ Given' = Given /\ WayInv'
    BY <1>1, <1>2, WayStays DEF HeedInv
  <1>4. RepairInv'
    BY <1>1, <1>2, <1>3, RepairStays DEF HeedInv, RepairInv
  <1>5. StamperTold'
    BY <1>1, <1>2 DEF HeedInv, StamperTold
  <1>6. HeedInv'
    BY <1>1, <1>2, <1>3, <1>4, <1>5 DEF HeedInv
  <1> QED BY <1>2, <1>6, Steps DEF PathInv

(* Lose: what is on its way becomes less.                                  *)
LEMMA LoseKeeps ==
    ASSUME PathInv, Heeded, Lose
    PROVE  PathInv'
  <1>1. HeedInv
    BY DEF PathInv
  <1>2. /\ UNCHANGED <<mode, stamper, rings, rtxSeq, last, quiet, stopped, now, held, sent, told>>
        /\ rtp' \subseteq rtp /\ rtcp' \subseteq rtcp
    BY DEF Lose, recoveryVars
  <1>3. HistoryInv' /\ Given' = Given /\ WayInv'
    BY <1>1, <1>2, WayStays DEF HeedInv
  <1>4. RepairInv'
    BY <1>1, <1>2, <1>3, RepairStays DEF HeedInv, RepairInv
  <1>5. StamperTold'
    BY <1>1, <1>2 DEF HeedInv, StamperTold
  <1>6. HeedInv'
    BY <1>1, <1>2, <1>3, <1>4, <1>5 DEF HeedInv
  <1> QED BY <1>2, <1>6, Steps DEF PathInv

(* Tick: time passes for the throttle and for every packet alike.          *)
LEMMA TickKeeps ==
    ASSUME PathInv, Heeded, Tick
    PROVE  PathInv'
  <1>1. HeedInv /\ mode = "recovery"
    BY DEF PathInv, Tick
  <1>2. /\ UNCHANGED <<mode, stamper, rings, rtxSeq, stopped, now, rtp, rtcp, held, sent, told>>
        /\ last' = R!Aged(last)
        /\ quiet' = [n \in DOMAIN quiet |-> IF quiet[n] < ThrottleWindow THEN quiet[n] + 1 ELSE quiet[n]]
    BY DEF Tick
  <1>3. HistoryInv' /\ Given' = Given /\ WayInv'
    BY <1>1, <1>2, WayStays DEF HeedInv
  <1>4. quiet \in [Numbers -> Nat] /\ (~stopped => Throttled(last, quiet)) /\ Kept /\ rtxSeq \in Int /\ rtcp \subseteq Nacks
    BY <1>1 DEF HeedInv, RepairInv
  <1>5. ~stopped => Throttled(last', quiet')
    <2> SUFFICES ASSUME ~stopped PROVE Throttled(last', quiet')
      OBVIOUS
    <2>1. PICK a, q : a = last /\ q = quiet
      OBVIOUS
    <2>2. Throttled(R!Aged(a), [n \in DOMAIN q |-> IF q[n] < ThrottleWindow THEN q[n] + 1 ELSE q[n]])
      BY <1>4, <2>1, AgedThrottled
    <2> QED BY <1>2, <2>1, <2>2
  <1>6. quiet' \in [Numbers -> Nat]
    <2>1. PICK w \in Nat : w = ThrottleWindow
      BY ThrottleFacts
    <2>2. \A n \in Numbers : (IF quiet[n] < w THEN quiet[n] + 1 ELSE quiet[n]) \in Nat
      <3> SUFFICES ASSUME NEW n \in Numbers PROVE (IF quiet[n] < w THEN quiet[n] + 1 ELSE quiet[n]) \in Nat
        OBVIOUS
      <3>1. PICK x \in Nat : x = quiet[n]
        BY <1>4
      <3> QED BY <3>1
    <2>3. DOMAIN quiet = Numbers
      BY <1>4
    <2> QED BY <1>2, <2>1, <2>2, <2>3
  <1>7. Kept'
    BY <1>2, <1>3, <1>4, KeptStays
  <1>8. RepairInv'
    <2>1. Numbers' = Numbers
      BY <1>2 DEF Numbers
    <2>2. rtcp' \subseteq Nacks'
      BY <1>2, <1>4
    <2> QED BY <1>2, <1>4, <1>5, <1>6, <1>7, <2>1, <2>2 DEF RepairInv
  <1>9. StamperTold'
    BY <1>1, <1>2 DEF HeedInv, StamperTold
  <1>10. HeedInv'
    BY <1>1, <1>2, <1>3, <1>8, <1>9 DEF HeedInv
  <1> QED BY <1>2, <1>10, Steps DEF PathInv

(* clearSsrc forgets the names of one SSRC and nothing else.               *)
LEMMA ClearKeeps ==
    ASSUME NEW s, DOMAIN s = StamperFields, NEW ssrc
    PROVE  LET new == S!ClearSsrc(s, ssrc)
           IN  /\ DOMAIN new = StamperFields /\ new.twcc = s.twcc /\ new.extMap = s.extMap /\ new.mid = s.mid
               /\ new.midPayload = s.midPayload
               /\ new.midBySsrc = S!Without(s.midBySsrc, ssrc) /\ new.rid = S!Without(s.rid, ssrc)
               /\ new.rrid = S!Without(s.rrid, ssrc)
  BY DEF S!ClearSsrc, StamperFields

(* Stop: the ring is empty.                                                *)
LEMMA StopKeeps ==
    ASSUME PathInv, Heeded, Stop
    PROVE  PathInv'
  <1>1. HeedInv /\ mode = "recovery" /\ ~ stopped
    BY DEF PathInv, Stop
  <1>2. /\ UNCHANGED <<mode, rtxSeq, quiet, now, rtp, rtcp, held, sent, told>>
        /\ stopped' = TRUE /\ rings' = R!ClearRing(rings, Primary)
        /\ stamper' = S!ClearSsrc(S!ClearSsrc(stamper, Primary), RtxSsrc)
    BY DEF Stop
  <1>3. /\ DOMAIN stamper' = StamperFields /\ stamper'.twcc = stamper.twcc /\ stamper'.extMap = stamper.extMap
        /\ stamper'.mid = stamper.mid /\ stamper'.midPayload = stamper.midPayload
    <2>1. PICK a, b : a = stamper /\ b = S!ClearSsrc(a, Primary)
      OBVIOUS
    <2>2. DOMAIN a = StamperFields
      BY <1>1, <2>1 DEF HeedInv, StamperTold
    <2>3. DOMAIN b = StamperFields /\ b.twcc = a.twcc /\ b.extMap = a.extMap /\ b.mid = a.mid /\ b.midPayload = a.midPayload
      BY <2>1, <2>2, ClearKeeps
    <2>4. PICK c : c = S!ClearSsrc(b, RtxSsrc)
      OBVIOUS
    <2>5. DOMAIN c = StamperFields /\ c.twcc = b.twcc /\ c.extMap = b.extMap /\ c.mid = b.mid /\ c.midPayload = b.midPayload
      BY <2>3, <2>4, ClearKeeps
    <2> QED BY <1>2, <2>1, <2>3, <2>4, <2>5
  <1>4. StamperTold'
    BY <1>1, <1>2, <1>3 DEF HeedInv, StamperTold
  <1>5. HistoryInv' /\ Given' = Given /\ WayInv'
    BY <1>1, <1>2, <1>3, WayStays DEF HeedInv
  <1>6. DOMAIN rings' = {}
    <2>1. DOMAIN rings \subseteq {Primary}
      BY <1>1 DEF HeedInv, RepairInv, Kept
    <2> QED BY <1>2, <2>1 DEF R!ClearRing
  <1>7. RepairInv'
    <2>1. Numbers' = Numbers /\ rtcp' \subseteq Nacks' /\ rtxSeq' \in Int /\ quiet' \in [Numbers -> Nat]
      BY <1>1, <1>2 DEF HeedInv, RepairInv, Numbers
    <2> QED BY <1>2, <1>6, <2>1 DEF RepairInv, Kept
  <1>8. HeedInv'
    BY <1>1, <1>2, <1>4, <1>5, <1>7 DEF HeedInv
  <1> QED BY <1>1, <1>2, <1>8, Steps DEF PathInv

-----------------------------------------------------------------------------
(* The application renames.                                                *)
LEMMA RenamedKeeps ==
    ASSUME PathInv, Heeded, NEW st, NEW names, Renamed(st, names), StamperTold',
           rtp = {} \/ stamper'.extMap = stamper.extMap
    PROVE  PathInv'
  <1>1. HeedInv /\ mode = "layers"
    BY DEF PathInv, Renamed
  <1>2. UNCHANGED <<mode, rings, stopped, now, rtp, held, sent>>
    BY DEF Renamed, recoveryVars
  <1>3. HistoryInv' /\ Given' = Given
    BY <1>1, <1>2, HistoryStays DEF HeedInv
  <1>4. WayInv'
    <2>1. CASE rtp = {}
      BY <1>2, <2>1 DEF WayInv
    <2>2. CASE stamper'.extMap = stamper.extMap
      BY <1>1, <1>2, <2>2, WayStays DEF HeedInv
    <2> QED BY <2>1, <2>2
  <1>5. RepairInv'
    BY <1>1, <1>2 DEF RepairInv
  <1>6. HeedInv'
    BY <1>1, <1>2, <1>3, <1>4, <1>5 DEF HeedInv
  <1> QED BY <1>2, <1>6, Steps DEF PathInv

(* A name told is the name the stamper writes.                             *)
LEMMA ToldStays ==
    ASSUME StamperTold, mode = "layers", UNCHANGED <<mode, stopped>>, told' \in ToldNames,
           DOMAIN stamper' = StamperFields, stamper'.twcc \in Int, stamper'.mid = told'.mid,
           stamper'.midPayload = S!MidPayload(stamper'.mid, stamper'.extMap),
           \E i \in DOMAIN ExtMaps[mode] : stamper'.extMap = ExtMaps[mode][i],
           ~stopped => \A ssrc \in Ssrcs : Says(stamper', ssrc, told'.mids[ssrc], told'.rids[ssrc], None)
    PROVE  StamperTold'
  BY DEF StamperTold

(* TellMid: from now on packets carry the new name.                        *)
LEMMA TellMidKeeps ==
    ASSUME PathInv, Heeded, NEW mid \in Int, TellMid(mid)
    PROVE  PathInv'
  <1>1. HeedInv /\ mode = "layers" /\ StamperTold
    BY DEF PathInv, HeedInv, TellMid, Renamed
  <1>2. /\ stamper' = S!SetMid(stamper, mid) /\ told' = [told EXCEPT !.mid = mid]
        /\ UNCHANGED <<mode, stopped>>
    BY DEF TellMid, Renamed, recoveryVars
  <1>3. /\ DOMAIN stamper' = StamperFields /\ stamper'.twcc = stamper.twcc /\ stamper'.mid = mid
        /\ stamper'.midPayload = S!MidPayload(mid, stamper.extMap) /\ stamper'.extMap = stamper.extMap
        /\ stamper'.midBySsrc = stamper.midBySsrc /\ stamper'.rid = stamper.rid /\ stamper'.rrid = stamper.rrid
    BY <1>1, <1>2 DEF S!SetMid, StamperFields, StamperTold
  <1>4. told' \in ToldNames /\ told'.mid = mid /\ told'.mids = told.mids /\ told'.rids = told.rids
    BY <1>1, <1>2 DEF ToldNames, StamperTold
  <1>5. ~stopped => \A ssrc \in Ssrcs : Says(stamper', ssrc, told'.mids[ssrc], told'.rids[ssrc], None)
    BY <1>1, <1>3, <1>4 DEF StamperTold, Says
  <1>6. \E i \in DOMAIN ExtMaps[mode] : stamper'.extMap = ExtMaps[mode][i]
    BY <1>1, <1>3 DEF StamperTold
  <1>7. StamperTold'
    <2>1. stamper'.twcc \in Int
      BY <1>1, <1>3 DEF StamperTold
    <2> QED BY <1>1, <1>2, <1>3, <1>4, <1>5, <1>6, <2>1, ToldStays
  <1>8. Renamed(S!SetMid(stamper, mid), [told EXCEPT !.mid = mid])
    BY DEF TellMid
  <1> QED BY <1>3, <1>7, <1>8, RenamedKeeps

(* TellMidOf: those of one SSRC do.                                        *)
LEMMA TellMidOfKeeps ==
    ASSUME PathInv, Heeded, NEW ssrc \in Ssrcs, NEW mid \in Int, TellMidOf(ssrc, mid)
    PROVE  PathInv'
  <1>1. HeedInv /\ mode = "layers" /\ StamperTold
    BY DEF PathInv, HeedInv, TellMidOf, Renamed
  <1>2. PICK new : new = IF mid = None THEN S!Without(stamper.midBySsrc, ssrc) ELSE S!Put(stamper.midBySsrc, ssrc, mid)
    OBVIOUS
  <1>3. /\ stamper' = S!SetMidForSsrc(stamper, ssrc, mid) /\ told' = [told EXCEPT !.mids[ssrc] = mid]
        /\ UNCHANGED <<mode, stopped>>
    BY DEF TellMidOf, Renamed, recoveryVars
  <1>4. /\ DOMAIN stamper' = StamperFields /\ stamper'.twcc = stamper.twcc /\ stamper'.mid = stamper.mid
        /\ stamper'.midPayload = stamper.midPayload /\ stamper'.extMap = stamper.extMap
        /\ stamper'.midBySsrc = new /\ stamper'.rid = stamper.rid /\ stamper'.rrid = stamper.rrid
    <2>1. stamper' = [stamper EXCEPT !.midBySsrc = new]
      BY <1>1, <1>2, <1>3, NoneOf DEF S!SetMidForSsrc, StamperTold, StamperFields
    <2> QED BY <1>1, <2>1 DEF StamperTold, StamperFields
  <1>5. told' \in ToldNames /\ told'.mid = told.mid /\ told'.mids = [told.mids EXCEPT ![ssrc] = mid] /\ told'.rids = told.rids
    BY <1>1, <1>3 DEF ToldNames, StamperTold
  <1>6. ASSUME ~ stopped, NEW other \in Ssrcs
        PROVE  Says(stamper', other, told'.mids[other], told'.rids[other], None)
    <2>1. Says(stamper, other, told.mids[other], told.rids[other], None)
      BY <1>1, <1>6 DEF StamperTold
    <2>2. told'.mids[other] = IF other = ssrc THEN mid ELSE told.mids[other]
      BY <1>1, <1>5 DEF StamperTold, ToldNames
    <2>3. S!Lookup(new, ssrc) = mid /\ (other # ssrc => S!Lookup(new, other) = S!Lookup(stamper.midBySsrc, other))
      BY <1>2, LookupPut, LookupWithout
    <2> QED BY <1>4, <1>5, <2>1, <2>2, <2>3 DEF Says
  <1>7. StamperTold'
    <2>1. stamper'.twcc \in Int /\ stamper'.mid = told'.mid /\ stamper'.midPayload = S!MidPayload(stamper'.mid, stamper'.extMap)
          /\ \E i \in DOMAIN ExtMaps[mode] : stamper'.extMap = ExtMaps[mode][i]
      BY <1>1, <1>4, <1>5 DEF StamperTold
    <2> QED BY <1>1, <1>3, <1>4, <1>5, <1>6, <2>1, ToldStays
  <1>8. Renamed(S!SetMidForSsrc(stamper, ssrc, mid), [told EXCEPT !.mids[ssrc] = mid])
    BY DEF TellMidOf
  <1> QED BY <1>4, <1>7, <1>8, RenamedKeeps

(* TellRidOf: the same for the name of a layer.                            *)
LEMMA TellRidOfKeeps ==
    ASSUME PathInv, Heeded, NEW ssrc \in Ssrcs, NEW rid \in Int, TellRidOf(ssrc, rid)
    PROVE  PathInv'
  <1>1. HeedInv /\ mode = "layers" /\ StamperTold
    BY DEF PathInv, HeedInv, TellRidOf, Renamed
  <1>2. PICK new : new = IF rid = None THEN S!Without(stamper.rid, ssrc) ELSE S!Put(stamper.rid, ssrc, rid)
    OBVIOUS
  <1>3. /\ stamper' = S!SetRidForSsrc(stamper, ssrc, rid) /\ told' = [told EXCEPT !.rids[ssrc] = rid]
        /\ UNCHANGED <<mode, stopped>>
    BY DEF TellRidOf, Renamed, recoveryVars
  <1>4. /\ DOMAIN stamper' = StamperFields /\ stamper'.twcc = stamper.twcc /\ stamper'.mid = stamper.mid
        /\ stamper'.midPayload = stamper.midPayload /\ stamper'.extMap = stamper.extMap
        /\ stamper'.midBySsrc = stamper.midBySsrc /\ stamper'.rid = new /\ stamper'.rrid = stamper.rrid
    <2>1. stamper' = [stamper EXCEPT !.rid = new]
      BY <1>1, <1>2, <1>3, NoneOf DEF S!SetRidForSsrc, StamperTold, StamperFields
    <2> QED BY <1>1, <2>1 DEF StamperTold, StamperFields
  <1>5. told' \in ToldNames /\ told'.mid = told.mid /\ told'.rids = [told.rids EXCEPT ![ssrc] = rid] /\ told'.mids = told.mids
    BY <1>1, <1>3 DEF ToldNames, StamperTold
  <1>6. ASSUME ~ stopped, NEW other \in Ssrcs
        PROVE  Says(stamper', other, told'.mids[other], told'.rids[other], None)
    <2>1. Says(stamper, other, told.mids[other], told.rids[other], None)
      BY <1>1, <1>6 DEF StamperTold
    <2>2. told'.rids[other] = IF other = ssrc THEN rid ELSE told.rids[other]
      BY <1>1, <1>5 DEF StamperTold, ToldNames
    <2>3. S!Lookup(new, ssrc) = rid /\ (other # ssrc => S!Lookup(new, other) = S!Lookup(stamper.rid, other))
      BY <1>2, LookupPut, LookupWithout
    <2> QED BY <1>4, <1>5, <2>1, <2>2, <2>3 DEF Says
  <1>7. StamperTold'
    <2>1. stamper'.twcc \in Int /\ stamper'.mid = told'.mid /\ stamper'.midPayload = S!MidPayload(stamper'.mid, stamper'.extMap)
          /\ \E i \in DOMAIN ExtMaps[mode] : stamper'.extMap = ExtMaps[mode][i]
      BY <1>1, <1>4, <1>5 DEF StamperTold
    <2> QED BY <1>1, <1>3, <1>4, <1>5, <1>6, <2>1, ToldStays
  <1>8. Renamed(S!SetRidForSsrc(stamper, ssrc, rid), [told EXCEPT !.rids[ssrc] = rid])
    BY DEF TellRidOf
  <1> QED BY <1>4, <1>7, <1>8, RenamedKeeps

(* Forget: from now on packets of this SSRC carry the common name, and no  *)
(* layer.                                                                  *)
LEMMA ForgetKeeps ==
    ASSUME PathInv, Heeded, NEW ssrc \in Ssrcs, Forget(ssrc)
    PROVE  PathInv'
  <1>1. HeedInv /\ mode = "layers" /\ StamperTold
    BY DEF PathInv, HeedInv, Forget, Renamed
  <1>2. /\ stamper' = S!ClearSsrc(stamper, ssrc)
        /\ told' = [told EXCEPT !.mids[ssrc] = None, !.rids[ssrc] = None]
        /\ UNCHANGED <<mode, stopped>>
    BY DEF Forget, Renamed, recoveryVars
  <1>3. /\ DOMAIN stamper' = StamperFields /\ stamper'.twcc = stamper.twcc /\ stamper'.mid = stamper.mid
        /\ stamper'.midPayload = stamper.midPayload /\ stamper'.extMap = stamper.extMap
        /\ stamper'.midBySsrc = S!Without(stamper.midBySsrc, ssrc) /\ stamper'.rid = S!Without(stamper.rid, ssrc)
        /\ stamper'.rrid = S!Without(stamper.rrid, ssrc)
    <2>1. PICK a : a = stamper
      OBVIOUS
    <2>2. DOMAIN a = StamperFields
      BY <1>1, <2>1 DEF StamperTold
    <2> QED BY <1>2, <2>1, <2>2, ClearKeeps
  <1>4. /\ told' \in ToldNames /\ told'.mid = told.mid /\ told'.mids = [told.mids EXCEPT ![ssrc] = None]
        /\ told'.rids = [told.rids EXCEPT ![ssrc] = None]
    BY <1>1, <1>2, NoneOf, Zenon DEF ToldNames, StamperTold
  <1>5. ASSUME ~ stopped, NEW other \in Ssrcs
        PROVE  Says(stamper', other, told'.mids[other], told'.rids[other], None)
    <2>1. Says(stamper, other, told.mids[other], told.rids[other], None)
      BY <1>1, <1>5 DEF StamperTold
    <2>2. /\ told'.mids[other] = IF other = ssrc THEN None ELSE told.mids[other]
          /\ told'.rids[other] = IF other = ssrc THEN None ELSE told.rids[other]
      BY <1>1, <1>4 DEF StamperTold, ToldNames
    <2>3. S!Lookup(stamper'.midBySsrc, other) = IF other = ssrc THEN None ELSE S!Lookup(stamper.midBySsrc, other)
      BY <1>3, LookupWithout
    <2>4. S!Lookup(stamper'.rid, other) = IF other = ssrc THEN None ELSE S!Lookup(stamper.rid, other)
      BY <1>3, LookupWithout
    <2>5. S!Lookup(stamper'.rrid, other) = IF other = ssrc THEN None ELSE S!Lookup(stamper.rrid, other)
      BY <1>3, LookupWithout
    <2> QED BY <2>1, <2>2, <2>3, <2>4, <2>5 DEF Says
  <1>6. StamperTold'
    <2>1. stamper'.twcc \in Int /\ stamper'.mid = told'.mid /\ stamper'.midPayload = S!MidPayload(stamper'.mid, stamper'.extMap)
          /\ \E i \in DOMAIN ExtMaps[mode] : stamper'.extMap = ExtMaps[mode][i]
      BY <1>1, <1>3, <1>4 DEF StamperTold
    <2> QED BY <1>1, <1>2, <1>3, <1>4, <1>5, <2>1, ToldStays
  <1>7. Renamed(S!ClearSsrc(stamper, ssrc), [told EXCEPT !.mids[ssrc] = None, !.rids[ssrc] = None])
    BY DEF Forget
  <1> QED BY <1>3, <1>6, <1>7, RenamedKeeps

(* Renumber: with nothing on its way, the ids may change.                  *)
LEMMA RenumberKeeps ==
    ASSUME PathInv, Heeded, Renumber
    PROVE  PathInv'
  <1>1. HeedInv /\ mode = "layers" /\ mode \in Modes /\ rtp = {} /\ StamperTold
    BY DEF PathInv, HeedInv, Renumber
  <1>2. PICK ids : ids = ExtMaps[mode][2]
    OBVIOUS
  <1>3. stamper' = S!SetExtMap(stamper, ids) /\ told' = told /\ UNCHANGED <<mode, stopped>>
    BY <1>2 DEF Renumber, Renamed, recoveryVars
  <1>4. /\ DOMAIN stamper' = StamperFields /\ stamper'.twcc = stamper.twcc /\ stamper'.mid = stamper.mid
        /\ stamper'.midPayload = S!MidPayload(stamper.mid, ids) /\ stamper'.extMap = ids
        /\ stamper'.midBySsrc = stamper.midBySsrc /\ stamper'.rid = stamper.rid /\ stamper'.rrid = stamper.rrid
    BY <1>1, <1>3 DEF S!SetExtMap, StamperFields, StamperTold
  <1>5. ~stopped => \A ssrc \in Ssrcs : Says(stamper', ssrc, told'.mids[ssrc], told'.rids[ssrc], None)
    BY <1>1, <1>3, <1>4 DEF StamperTold, Says
  <1>6. StamperTold'
    <2>1. 2 \in DOMAIN ExtMaps[mode]
      BY <1>1, SessionsAssumption
    <2>2. /\ stamper'.twcc \in Int /\ stamper'.mid = told'.mid /\ told' \in ToldNames
          /\ stamper'.midPayload = S!MidPayload(stamper'.mid, stamper'.extMap)
          /\ \E i \in DOMAIN ExtMaps[mode] : stamper'.extMap = ExtMaps[mode][i]
      BY <1>1, <1>2, <1>3, <1>4, <2>1 DEF StamperTold
    <2> QED BY <1>1, <1>3, <1>4, <1>5, <2>2, ToldStays
  <1>7. Renamed(S!SetExtMap(stamper, ids), told)
    BY <1>2 DEF Renumber
  <1> QED BY <1>1, <1>6, <1>7, RenamedKeeps

-----------------------------------------------------------------------------
(* The sessions whose packets are not read.                                *)
LEMMA ReportedKeeps ==
    ASSUME PathInv, Reported, Next
    PROVE  PathInv'
  <1>1. mode \notin {"recovery", "layers"} /\ mode \in Modes /\ held = {} /\ ~ stopped
    BY DEF Reported, PathInv
  <1>2. UNCHANGED <<mode, held, stopped>>
    <2>1. ASSUME NEW ssrc \in Ssrcs, Send(ssrc) PROVE UNCHANGED <<mode, held, stopped>>
      BY <2>1, Zenon DEF Send
    <2>2. ASSUME NEW pkt \in rtp, NEW stays \in BOOLEAN, Hear(pkt, stays) PROVE UNCHANGED <<mode, held, stopped>>
      BY <2>2 DEF Hear, recoveryVars
    <2>3. ASSUME NEW m \in Nacks \ rtcp, Ask(m) PROVE UNCHANGED <<mode, held, stopped>>
      BY <2>3 DEF Ask, recoveryVars
    <2>4. ASSUME NEW m \in rtcp, NEW sweep \in BOOLEAN, OnNack(m, sweep) PROVE FALSE
      BY <1>1, <2>4 DEF OnNack
    <2>5. Probe \/ Tick \/ Stop \/ Lose => FALSE
      BY <1>1 DEF Probe, Tick, Stop, Lose
    <2>6. ASSUME NEW saying \in Sayings, Say(saying) PROVE UNCHANGED <<mode, held, stopped>>
      BY <2>6 DEF Say, recoveryVars
    <2>7. SendFeedback => UNCHANGED <<mode, held, stopped>>
      BY DEF SendFeedback, recoveryVars
    <2>8. ASSUME NEW m \in rtcp, NEW stays \in BOOLEAN, OnRtcp(m, stays) PROVE UNCHANGED <<mode, held, stopped>>
      BY <2>8 DEF OnRtcp, recoveryVars
    <2>9. ASSUME NEW d \in Waits, Wait(d) PROVE UNCHANGED <<mode, held, stopped>>
      BY <2>9 DEF Wait, recoveryVars
    <2>10. ResetRate => UNCHANGED <<mode, held, stopped>>
      BY DEF ResetRate, recoveryVars
    <2>11. ASSUME NEW st, NEW names, Renamed(st, names) PROVE FALSE
      BY <1>1, <2>11 DEF Renamed
    <2>12. /\ \A mid : ~ TellMid(mid)
           /\ \A ssrc, mid : ~ TellMidOf(ssrc, mid)
           /\ \A ssrc, rid : ~ TellRidOf(ssrc, rid)
           /\ (\A ssrc : ~ Forget(ssrc)) /\ ~ Renumber
      BY <2>11, Zenon DEF TellMid, TellMidOf, TellRidOf, Forget, Renumber
    <2> QED BY <2>1, <2>2, <2>3, <2>4, <2>5, <2>6, <2>7, <2>8, <2>9, <2>10, <2>12 DEF Next
  <1> QED BY <1>1, <1>2 DEF PathInv, Heeded, Reported

(* PathInv is inductive.                                                   *)
LEMMA NextKeeps ==
    ASSUME PathInv, [Next]_pathVars
    PROVE  PathInv'
  <1>1. CASE UNCHANGED pathVars
    <2>1. UNCHANGED <<mode, stamper, rings, rtxSeq, last, quiet, stopped, now, rtp, rtcp, held, sent, told>>
      BY <1>1 DEF pathVars, recoveryVars
    <2>2. ASSUME Heeded PROVE HeedInv'
      <3>1. HeedInv
        BY <2>2 DEF PathInv
      <3>2. HistoryInv' /\ Given' = Given /\ WayInv'
        BY <2>1, <3>1, WayStays DEF HeedInv
      <3>3. RepairInv'
        BY <2>1, <3>1, <3>2, RepairStays DEF HeedInv, RepairInv
      <3>4. StamperTold'
        BY <2>1, <3>1 DEF HeedInv, StamperTold
      <3> QED BY <2>1, <3>1, <3>2, <3>3, <3>4 DEF HeedInv
    <2> QED BY <2>1, <2>2 DEF PathInv, Heeded, Reported
  <1>2. CASE Next /\ Reported
    BY <1>2, ReportedKeeps
  <1>3. CASE Next /\ ~ Reported
    <2>1. Heeded
      <3>1. mode \in {"recovery", "rate", "reports", "layers"}
        BY SessionsAssumption DEF PathInv
      <3> QED BY <1>3, <3>1 DEF Heeded, Reported
    <2>2. ASSUME NEW ssrc \in Ssrcs, Send(ssrc) PROVE PathInv'
      BY <2>1, <2>2, SendKeeps
    <2>3. ASSUME Probe PROVE PathInv'
      BY <2>1, <2>3, ProbeKeeps
    <2>4. ASSUME NEW pkt \in rtp, NEW stays \in BOOLEAN, Hear(pkt, stays) PROVE PathInv'
      BY <2>1, <2>4, HearKeeps
    <2>5. ASSUME NEW m \in Nacks \ rtcp, Ask(m) PROVE PathInv'
      BY <2>1, <2>5, AskKeeps
    <2>6. ASSUME NEW m \in rtcp, NEW sweep \in BOOLEAN, OnNack(m, sweep) PROVE PathInv'
      BY <2>1, <2>6, NackKeeps
    <2>7. Tick \/ Stop \/ Lose \/ Renumber => PathInv'
      BY <2>1, TickKeeps, StopKeeps, LoseKeeps, RenumberKeeps
    <2>8. /\ \A saying : ~ Say(saying)
          /\ ~ SendFeedback
          /\ \A m, stays : ~ OnRtcp(m, stays)
          /\ \A d : ~ Wait(d)
          /\ ~ ResetRate
      <3>1. ASSUME NEW saying, Say(saying) PROVE FALSE
        <4>1. mode = "reports"
          BY <3>1, Zenon DEF Say
        <4> QED BY <1>3, <4>1 DEF Reported
      <3>2. ASSUME SendFeedback PROVE FALSE
        BY <1>3, <3>2, Zenon DEF SendFeedback
      <3>3. ASSUME NEW m, NEW stays, OnRtcp(m, stays) PROVE FALSE
        BY <1>3, <3>3, Zenon DEF OnRtcp
      <3>4. ASSUME NEW d, Wait(d) PROVE FALSE
        BY <1>3, <3>4, Zenon DEF Wait
      <3>5. ASSUME ResetRate PROVE FALSE
        BY <1>3, <3>5, Zenon DEF ResetRate
      <3> QED BY <3>1, <3>2, <3>3, <3>4, <3>5
    <2>9. ASSUME NEW mid \in {2}, TellMid(mid) PROVE PathInv'
      BY <2>1, <2>9, TellMidKeeps
    <2>10. ASSUME NEW ssrc \in Ssrcs, NEW mid \in {3, None}, TellMidOf(ssrc, mid) PROVE PathInv'
      <3>1. mid \in Int
        BY NoneOf
      <3> QED BY <2>1, <2>10, <3>1, TellMidOfKeeps
    <2>11. ASSUME NEW ssrc \in Ssrcs, NEW rid \in {6, None}, TellRidOf(ssrc, rid) PROVE PathInv'
      <3>1. rid \in Int
        BY NoneOf
      <3> QED BY <2>1, <2>11, <3>1, TellRidOfKeeps
    <2>12. ASSUME NEW ssrc \in Ssrcs, Forget(ssrc) PROVE PathInv'
      BY <2>1, <2>12, ForgetKeeps
    <2> QED BY <1>3, <2>2, <2>3, <2>4, <2>5, <2>6, <2>7, <2>8, <2>9, <2>10, <2>11, <2>12 DEF Next
  <1> QED BY <1>1, <1>2, <1>3

-----------------------------------------------------------------------------
(* A packet that appears on the RTX stream was due.                        *)
LEMMA NoStormStep ==
    ASSUME PathInv, [Next]_pathVars, NEW pkt \in rtp' \ rtp, pkt.ssrc = RtxSsrc, NEW seq \in Original(pkt)
    PROVE  quiet[Number(seq)] >= ThrottleWindow
  <1>1. rtp' # rtp
    OBVIOUS
  <1>2. Next
    BY <1>1 DEF pathVars
  <1>3. ASSUME NEW ssrc \in Ssrcs, Send(ssrc) PROVE FALSE
    <2>1. PICK n : rtp' = rtp \cup {S!Stamp(stamper, Packet(n, ssrc), Hints(n), now).pkt}
      BY <1>3, Zenon DEF Send
    <2>2. pkt = S!Stamp(stamper, Packet(n, ssrc), Hints(n), now).pkt
      BY <2>1
    <2>3. pkt.ssrc = ssrc
      BY <2>2, SentKeepsSsrc
    <2> QED BY <2>3 DEF RtxSsrc, Ssrcs, Primary, Second
  <1>4. ASSUME NEW m \in rtcp, NEW sweep \in BOOLEAN, OnNack(m, sweep)
        PROVE  quiet[Number(seq)] >= ThrottleWindow
    <2>1. PICK r : r = Retransmitted(C!ParseRTCPCompound(m.words)[1].lost, sweep)
      OBVIOUS
    <2>2. mode = "recovery" /\ rtp' = rtp \cup r.pkts
      BY <1>4, <2>1, Zenon DEF OnNack
    <2>3. Heeded
      BY <2>2 DEF Heeded
    <2>4. Serving(r)
      BY <1>4, <2>1, <2>3, NackServed
    <2>5. PICK t \in Given : Repeats(pkt, t, stamper.extMap, TheirIds[mode]) /\ Due(t)
      <3>1. pkt \in r.pkts
        BY <2>2
      <3> QED BY <2>4, <3>1 DEF Serving, Resent
    <2>6. t \in Truths /\ \E n \in Numbers : t.seq = SeqNo(n)
      BY <2>3 DEF PathInv, HeedInv, HistoryInv, IsGiven
    <2>7. PICK n \in Numbers : t.seq = SeqNo(n)
      BY <2>6
    <2>8. seq = SeqNo(n)
      <3>1. Original(pkt) = {t.seq}
        <4>1. PICK ids, theirs : ids = stamper.extMap /\ theirs = TheirIds[mode]
          OBVIOUS
        <4>2. Repeats(pkt, t, ids, theirs)
          BY <2>5, <4>1
        <4> QED BY <2>6, <4>2, RepeatsOriginal
      <3> QED BY <2>7, <3>1
    <2>9. n \in 1 .. SeqSpace /\ StartSeq \in Int
      BY <2>3, HeededFacts DEF PathInv
    <2>10. Number(seq) = n
      BY <2>8, <2>9, NumberOfSeqNo
    <2>11. quiet[n] >= ThrottleWindow
      BY <2>5, <2>7 DEF Due
    <2> QED BY <2>10, <2>11
  <1>5. ASSUME NEW other \in rtp, NEW stays \in BOOLEAN, Hear(other, stays) PROVE FALSE
    <2>1. rtp' \subseteq rtp
      BY <1>5, Zenon DEF Hear
    <2> QED BY <2>1
  <1>6. ~ Lose
    BY DEF Lose
  <1>7. /\ ~ Probe
        /\ ~ Tick
        /\ ~ Stop
        /\ ~ SendFeedback
        /\ ~ ResetRate
        /\ ~ Renumber
    BY <1>1, Zenon DEF Probe, Tick, Stop, SendFeedback, ResetRate, Renumber, Renamed
  <1>8. /\ \A m : ~ Ask(m)
        /\ \A saying : ~ Say(saying)
        /\ \A m, stays : ~ OnRtcp(m, stays)
        /\ \A d : ~ Wait(d)
    BY <1>1 DEF Ask, Say, OnRtcp, Wait
  <1>9. /\ \A mid : ~ TellMid(mid)
        /\ \A ssrc, mid : ~ TellMidOf(ssrc, mid)
        /\ \A ssrc, rid : ~ TellRidOf(ssrc, rid)
        /\ \A ssrc : ~ Forget(ssrc)
    BY <1>1, Zenon DEF TellMid, TellMidOf, TellRidOf, Forget, Renamed
  <1> QED BY <1>2, <1>3, <1>4, <1>5, <1>6, <1>7, <1>8, <1>9 DEF Next

-----------------------------------------------------------------------------
(* PathInv: each packet on its way or kept is one the sender was given, in *)
(* the words and under the names it was then told (HeedInv, WayInv,        *)
(* RepairInv), and the throttle knows how long ago it was sent again.      *)
THEOREM PathSafe == Spec => []PathInv
  <1>1. PathInit => PathInv
    BY FirstInv
  <1>2. PathInv /\ [Next]_pathVars => PathInv'
    BY NextKeeps
  <1> QED BY <1>1, <1>2, PTL DEF Spec

(* All the receiver reads was sent so: sequence number, time, payload,     *)
(* names, audio level and send time are those of one packet the            *)
(* application gave the sender, through serialize, stamp, the ring,        *)
(* buildRtxPacket, the network, parseRtxPacket, remapExtensionIds and      *)
(* parse, however NACKs, new names and reused slots of the ring fall       *)
(* between (rtp.js:83-233, 575-638, rtp_header_stamper.js:126-302,         *)
(* retransmit.js:86-314).                                                  *)
THEOREM ReceivedAsSent == Spec => []ReceivedIsSent
  <1>1. PathInv => ReceivedIsSent
    <2> SUFFICES ASSUME PathInv, NEW r \in held PROVE \E n \in DOMAIN sent : sent[n].truth = r
      BY DEF ReceivedIsSent
    <2>1. mode \in {"recovery", "rate", "reports", "layers"}
      BY SessionsAssumption DEF PathInv
    <2>2. Heeded
      BY <2>1 DEF PathInv, Reported, Heeded
    <2>3. r \in Given
      BY <2>2 DEF PathInv, HeedInv
    <2> QED BY <2>3 DEF Given
  <1> QED BY <1>1, PathSafe, PTL

(* However many NACKs arrive, no packet is sent again before the window of *)
(* NackThrottle has passed since it was sent again last                    *)
(* (retransmit.js:337-356): the clean-up of its table lets none through.   *)
THEOREM StormBarred == Spec => NoStorm
  <1>1. PathInv /\ [Next]_pathVars =>
            [\A pkt \in rtp' \ rtp :
                pkt.ssrc = RtxSsrc => \A seq \in Original(pkt) : quiet[Number(seq)] >= ThrottleWindow]_pathVars
    BY NoStormStep
  <1> QED BY <1>1, PathSafe, PTL DEF Spec, NoStorm
=============================================================================
