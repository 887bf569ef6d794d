---------------------------- MODULE NackGenerator ----------------------------
(***************************************************************************)
(* NackGenerator (src/src/retransmit.js), the receive side of loss         *)
(* recovery: it sees every arriving packet, keeps the list of the missing  *)
(* ones, and says at every poll which of them to request again.            *)
(*                                                                         *)
(* Packets are known by their extended sequence numbers.  Time is counted  *)
(* in ticks.  An entry of _missing keeps one age: the ticks since          *)
(* createdAt until it is first sent, since sentAt afterwards; sentAt is 0  *)
(* exactly while retries is 0.                                             *)
(***************************************************************************)
EXTENDS Histogram

CONSTANTS
    MaxSeq,             \* bound: the highest extended sequence number
    Keyframes,          \* the packets that begin a keyframe
    MaxPacketAge,       \* opts.maxPacketAge
    MaxNackEntries,     \* opts.maxNackEntries
    MaxNackRetries,     \* opts.maxNackRetries
    SendNackDelay,      \* opts.sendNackDelayMs, in ticks
    RttFloor,           \* 20 ms, in ticks
    Rtts,               \* the round-trip times the application reports, in ticks
    MaxAge,             \* bound: older ages are not told apart
    MaxLate,            \* bound: how far behind the highest a packet arrives
    MaxEarly,           \* bound: how far ahead of the highest a recovered one does
    Watched,            \* bound: the packets Resolved follows
    MaxJump             \* bound: how far ahead of the highest a packet arrives

ASSUME NackAssumption ==
    /\ MaxSeq \in Nat
    /\ Keyframes \subseteq 0 .. MaxSeq /\ Watched \subseteq 0 .. MaxSeq
    /\ MaxPacketAge \in Nat
    /\ MaxNackEntries \in Nat
    /\ MaxNackRetries \in Nat
    /\ SendNackDelay \in Nat
    /\ RttFloor \in Nat \ {0}
    /\ Rtts \subseteq Nat
    /\ MaxAge \in Nat /\ MaxAge >= SendNackDelay
    /\ \A r \in Rtts \cup {RttFloor} : MaxAge >= r
    /\ MaxLate \in Nat
    /\ MaxEarly \in Nat
    /\ MaxJump \in Nat

VARIABLES
    received,           \* _received, as the set of its members
    missing,            \* _missing
    keyframes,          \* _keyframes
    histogram,          \* _reorderHistogram
    highest,            \* _highestExtSeq, NoSeq before the first packet
    needKeyframe,       \* _needKeyframe
    rttMs,              \* _rttMs
    first,              \* history: the packet that started it all
    arrived,            \* history: every packet that arrived, never trimmed
    requested,          \* history: how often each packet was requested
    gaveUp              \* history: the gap an overflow gave up ends here

state   == <<received, missing, keyframes, histogram, highest, needKeyframe, rttMs>>
history == <<first, arrived, requested, gaveUp>>
nackVars == <<state, history>>

NoSeq  == -1
ExtSeq == 0 .. MaxSeq
Info   == [age : 0 .. MaxAge, retries : Nat, sendAt : Nat]
Larger(a, b) == IF a >= b THEN a ELSE b
Only(f, S) == [s \in S \cap DOMAIN f |-> f[s]]

NackInit ==
    /\ received = {} /\ missing = <<>> /\ keyframes = {}
    /\ histogram = EmptyHistogram
    /\ highest = NoSeq /\ needKeyframe = FALSE
    /\ rttMs \in Rtts
    /\ first = NoSeq /\ arrived = {} /\ requested = [s \in ExtSeq |-> 0] /\ gaveUp = NoSeq

-----------------------------------------------------------------------------
(* _evictMissingBelow.  The Map's keys are in ascending order (see         *)
(* InsertedAscending), so the prefix it drops is all that lies below.      *)
Above(m, cutoff) == Only(m, {s \in DOMAIN m : s >= cutoff})

(* _evictOld, once highest is top: what is older than maxPacketAge goes.   *)
Recent(S, top) ==
    IF top - MaxPacketAge <= 0 THEN S ELSE {s \in S : s >= top - MaxPacketAge}
RecentMissing(m, top) == Only(m, Recent(DOMAIN m, top))

(* _addMissingRange for the packets from start to last: when they do not   *)
(* fit, drop what a keyframe superseded; when they still do not fit, drop  *)
(* everything and ask for a keyframe.                                      *)
FreshAll(have, start, last) == start .. last     \* slip: received ones are not skipped
Fresh(have, start, last) == {s \in start .. last : s \notin have}
FitsAlone(m, new) == Cardinality(new) <= MaxNackEntries   \* slip: the list is not counted
Fits(m, new) == Cardinality(DOMAIN m) + Cardinality(new) <= MaxNackEntries
MakeRoom(m, new) ==
    IF Fits(m, new) \/ keyframes = {} THEN m
    ELSE Above(m, CHOOSE k \in keyframes : \A j \in keyframes : j <= k)
AddMissing(m, new) ==
    [s \in DOMAIN m \cup new |->
        IF s \in new THEN [age |-> 0, retries |-> 0, sendAt |-> s + Median(histogram)]
        ELSE m[s]]

WithKeyframe(s) == IF s \in Keyframes THEN keyframes \cup {s} ELSE keyframes

(* observePacket, which records the arrival first, whatever the packet is. *)
Record(s) ==
    /\ arrived' = arrived \cup {s}
    /\ first' = IF highest = NoSeq THEN s ELSE first
    /\ UNCHANGED <<rttMs, requested>>

ObserveFirst(s) ==
    /\ highest = NoSeq
    /\ received' = received \cup {s}
    /\ highest' = s
    /\ keyframes' = WithKeyframe(s)
    /\ Record(s)
    /\ UNCHANGED <<missing, histogram, needKeyframe, gaveUp>>

(* A packet recovered from a retransmission never moves highest.           *)
ObserveRecovered(s) ==
    /\ highest # NoSeq /\ s >= highest - MaxLate /\ s <= highest + MaxEarly
    /\ received' = received \cup {s}
    /\ missing' = Only(missing, DOMAIN missing \ {s})
    /\ keyframes' = WithKeyframe(s)
    /\ Record(s)
    /\ UNCHANGED <<histogram, highest, needKeyframe, gaveUp>>

LateHighestRegresses(s) == s        \* slip: a late packet becomes the highest
LateHighest(s) == highest

(* A late or repeated packet, a sample of the reordering distance if late. *)
ObserveLate(s) ==
    /\ highest # NoSeq /\ s <= highest /\ s >= highest - MaxLate
    /\ received' = received \cup {s}
    /\ missing' = Only(missing, DOMAIN missing \ {s})
    /\ histogram' = IF s < highest THEN HistogramAdd(histogram, highest - s) ELSE histogram
    /\ keyframes' = WithKeyframe(s)
    /\ highest' = LateHighest(s)
    /\ Record(s)
    /\ UNCHANGED <<needKeyframe, gaveUp>>

(* The missing list after a new highest packet s, and whether it overflowed.*)
ListBefore(s) == Only(missing, DOMAIN missing \ {s})
NewGapShort(s) == Fresh(received, highest + 2, s - 1)      \* slip: off by one
NewGap(s)     == Fresh(received, highest + 1, s - 1)
Overflows(s)  ==
    /\ s > highest + 1 /\ s \notin Keyframes
    /\ ~ Fits(MakeRoom(ListBefore(s), NewGap(s)), NewGap(s))
ListAfter(s) ==
    IF s = highest + 1 THEN ListBefore(s)
    ELSE IF s \in Keyframes THEN Above(ListBefore(s), s)
    ELSE IF Overflows(s) THEN <<>>
    ELSE AddMissing(MakeRoom(ListBefore(s), NewGap(s)), NewGap(s))

ObserveNew(s) ==
    /\ highest # NoSeq /\ s > highest /\ s <= highest + MaxJump
    /\ missing' = RecentMissing(ListAfter(s), s)
    /\ needKeyframe' = (needKeyframe \/ Overflows(s))
    /\ gaveUp' = IF Overflows(s) THEN s ELSE gaveUp
    /\ received' = Recent(received \cup {s}, s)
    /\ keyframes' = Recent(WithKeyframe(s), s)
    /\ highest' = s
    /\ Record(s)
    /\ UNCHANGED histogram

-----------------------------------------------------------------------------
(* buildFeedback: which entries are requested now, and which are dropped.  *)
SpentLate(e) == e.retries > MaxNackRetries      \* slip: one request too many
Spent(e) == e.retries >= MaxNackRetries

Due(e) ==
    \/ e.retries = 0 /\ e.age >= SendNackDelay /\ highest >= e.sendAt
    \/ e.retries > 0 /\ e.age >= rttMs /\ ~ Spent(e)

ExhaustedNever(e) == e.retries > MaxNackRetries \* slip: asks for a request too many
Exhausted(e) == e.retries > 0 /\ e.age >= rttMs /\ Spent(e)

BuildFeedback ==
    LET recent == RecentMissing(missing, highest)
        kept   == {s \in DOMAIN recent : ~ Exhausted(recent[s])}
        due    == {s \in DOMAIN recent : Due(recent[s])}
    IN  /\ missing' = [s \in kept |->
                        IF s \in due THEN [recent[s] EXCEPT !.age = 0, !.retries = @ + 1]
                        ELSE recent[s]]
        /\ requested' = [s \in ExtSeq |->
                            IF s \in due THEN requested[s] + 1 ELSE requested[s]]
        /\ received' = Recent(received, highest)
        /\ keyframes' = Recent(keyframes, highest)
        /\ UNCHANGED <<histogram, highest, needKeyframe, rttMs, first, arrived, gaveUp>>

UpdateRtt(ms) ==
    /\ rttMs' = Larger(RttFloor, ms)
    /\ UNCHANGED <<received, missing, keyframes, histogram, highest, needKeyframe, history>>

AcknowledgeKeyframeRequested ==
    /\ needKeyframe
    /\ needKeyframe' = FALSE
    /\ UNCHANGED <<received, missing, keyframes, histogram, highest, rttMs, history>>

Reset ==
    /\ highest # NoSeq
    /\ received' = {} /\ missing' = <<>> /\ keyframes' = {}
    /\ histogram' = EmptyHistogram
    /\ highest' = NoSeq /\ needKeyframe' = FALSE
    /\ first' = NoSeq /\ arrived' = {} /\ requested' = [s \in ExtSeq |-> 0] /\ gaveUp' = NoSeq
    /\ UNCHANGED rttMs

Tick ==
    /\ \E s \in DOMAIN missing : missing[s].age < MaxAge
    /\ missing' = [s \in DOMAIN missing |->
                    [missing[s] EXCEPT !.age = IF @ < MaxAge THEN @ + 1 ELSE @]]
    /\ UNCHANGED <<received, keyframes, histogram, highest, needKeyframe, rttMs, history>>

NackNext ==
    \/ \E s \in ExtSeq :
          ObserveFirst(s) \/ ObserveRecovered(s) \/ ObserveLate(s) \/ ObserveNew(s)
    \/ BuildFeedback
    \/ \E ms \in Rtts : UpdateRtt(ms)
    \/ AcknowledgeKeyframeRequested
    \/ Reset
    \/ Tick

NackSpec == NackInit /\ [][NackNext]_nackVars

(* Time passes and the application polls.                                  *)
FairNackSpec == NackSpec /\ WF_nackVars(Tick) /\ WF_nackVars(BuildFeedback)

-----------------------------------------------------------------------------
NackTypeOK ==
    /\ received \subseteq ExtSeq /\ keyframes \subseteq Keyframes
    /\ DOMAIN missing \subseteq ExtSeq
    /\ \A s \in DOMAIN missing : missing[s] \in Info
    /\ HistogramExact(histogram)
    /\ highest \in ExtSeq \cup {NoSeq}
    /\ needKeyframe \in BOOLEAN

(* "Both paths bound memory in the face of catastrophic loss" (657): the   *)
(* missing list never holds more than maxNackEntries packets.              *)
BoundedMissing == Cardinality(DOMAIN missing) <= MaxNackEntries

(* A packet that arrived is never on the list, by whatever path it came    *)
(* and however often it is trimmed from _received; and every packet on the *)
(* list lies below the highest one (577-646, 781-806).                     *)
NeverNackReceived ==
    \A s \in DOMAIN missing : s \notin arrived /\ s < highest

(* A packet is requested at most maxNackRetries times (once, if that is 0),*)
(* because nothing that left the list ever comes back to it (843-897).     *)
NackBudget == \A s \in ExtSeq : requested[s] <= Larger(1, MaxNackRetries)

(* No packet is given up in silence: one that did not arrive, sent after   *)
(* the first that did, is still on the list, or was requested as often as  *)
(* allowed, or is older than maxPacketAge, or precedes a received keyframe,*)
(* or was dropped by an overflow that asked for a keyframe (611-737).      *)
NoSilentLoss ==
    \A s \in ExtSeq :
        first < s /\ s < highest /\ s \notin arrived
            => \/ s \in DOMAIN missing
               \/ requested[s] >= Larger(1, MaxNackRetries)
               \/ s < highest - MaxPacketAge
               \/ \E k \in arrived \cap Keyframes : s < k
               \/ s < gaveUp

(* "_missing is in ascending extSeq order ... seqs above the previous      *)
(* high-water mark" (763-766), what lets _evictMissingBelow stop early.    *)
InsertedAscending ==
    [][\A s \in DOMAIN missing' \ DOMAIN missing : \A t \in DOMAIN missing : t < s]_nackVars

(* A packet whose turn has come does not stay on the list: it arrives, or  *)
(* its requests run out, or it is superseded.                              *)
Resolved ==
    \A s \in Watched :
        (s \in DOMAIN missing /\ missing[s].sendAt <= highest) ~> (s \notin DOMAIN missing)

(* "Packets below it are useless to the decoder ... we also evict any      *)
(* existing missing entries below the keyframe" (621-626): while the       *)
(* newest packet is a keyframe, nothing on the list precedes it.           *)
NoneBelowKeyframe == highest \in Keyframes => \A s \in DOMAIN missing : highest < s
=============================================================================
