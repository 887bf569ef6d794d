----------------------------- MODULE JitterBuffer -----------------------------
(***************************************************************************)
(* JitterBuffer (src/src/jitter_buffer.js): packets arrive out of order,   *)
(* are sorted by sequence number, wait for the missing ones and leave in   *)
(* order; what does not come in time is reported lost.                     *)
(*                                                                         *)
(* The code runs on one thread, but _flush calls the application back in   *)
(* the middle of its loop.  The flush is therefore modelled iteration by   *)
(* iteration, with the callback as a phase of its own ("output") in which  *)
(* the application may call back in (Reentrant).                           *)
(*                                                                         *)
(* Time is counted in ticks.  An entry keeps its age instead of its        *)
(* insertTime: now - insertTime is all the code looks at.                  *)
(***************************************************************************)
EXTENDS Integers, Sequences, FiniteSets

CONSTANTS
    SeqMod,             \* 2^16
    LateWindow,         \* 128: behind by more than this is "too old"
    ResyncThreshold,    \* RESYNC_THRESHOLD, 8
    MaxLossEvents,      \* MAX_LOSS_EVENTS_PER_GAP, 512
    ScanLimit,          \* 256: how far _findNextAvailable looks ahead first
    EmitFloor,          \* 64: the least emit budget of a flush
    MaxSize,            \* opts.maxSize
    Latencies,          \* the latencies the application sets, in ticks
    Rtts,               \* the round-trip times the application sets, in ticks
    RttSafety,          \* opts.rttSafetyMs, in ticks
    MaxAge,             \* bound: older ages are not told apart
    Stream,             \* the sequence numbers of the packets, in sending order
    Restart,            \* the first packet after the sender restarts its numbers
    Copies,             \* how many copies of each packet the network carries
    MaxReorder,         \* bound: how far a packet overtakes the oldest one
    MaxLosses,          \* bound: packets the network loses
    MaxCalls,           \* bound: calls that change settings, reset or close
    Reentrant           \* the calls the application makes from its callback

ASSUME JitterAssumption ==
    /\ SeqMod \in Nat \ {0} /\ SeqMod % 2 = 0
    /\ LateWindow \in Nat \ {0} /\ LateWindow < SeqMod \div 2
    /\ ResyncThreshold \in Nat \ {0}
    /\ MaxLossEvents \in Nat \ {0}
    /\ ScanLimit \in Nat \ {0}
    /\ EmitFloor \in Nat \ {0}
    /\ MaxSize \in Nat \ {0}
    /\ Latencies \subseteq Nat
    /\ Rtts \subseteq Nat
    /\ RttSafety \in Nat
    /\ MaxAge \in Nat
    /\ \A l \in Latencies, r \in Rtts : MaxAge >= l /\ MaxAge >= 2 * r + RttSafety
    /\ Stream \in Seq(0 .. SeqMod - 1)
    /\ Copies \in [DOMAIN Stream -> Nat]
    /\ Reentrant \subseteq {"push", "reset", "close"}

VARIABLES
    buffer,             \* _buffer: seq -> the packet and its age
    count,              \* _count
    nextSeq,            \* _nextSeq, NoSeq before the first packet
    oldStreak,          \* _oldStreak
    emittedAny,         \* _emittedAny
    timer,              \* whether _timer is set
    latency, rtt,       \* _latency, _rttMs
    phase,              \* "idle", "flush" (in _flush), "output" (in the callback)
    emitted,            \* the local emitted of _flush
    net,                \* the copies of each packet still in the network
    losses, calls,      \* how much of the bounds was used
    base,               \* history: where this epoch of the playout began
    out,                \* history: the packets emitted in this epoch, in order
    lost,               \* history: the positions reported by onLoss
    skipped,            \* history: the positions of the gap events
    heard               \* history: every packet ever emitted

settings == <<timer, latency, rtt>>
history  == <<base, out, lost, skipped, heard>>
core     == <<buffer, count, nextSeq, oldStreak, emittedAny>>
vars == <<core, settings, phase, emitted, net, losses, calls, history>>

NoSeq   == -1
Positions == 0 .. SeqMod - 1
Packets == DOMAIN Stream
Half    == SeqMod \div 2
Min2(a, b) == IF a <= b THEN a ELSE b
Max2(a, b) == IF a >= b THEN a ELSE b

(* _seqDiff: the signed distance from b to a.                              *)
SeqDiff(a, b) ==
    LET d == (a - b) % SeqMod
    IN  IF d > Half THEN d - SeqMod ELSE d

(* The k positions from s on.                                              *)
Run(s, k) == {(s + i) % SeqMod : i \in 0 .. k - 1}

Forward(s) == (s - nextSeq) % SeqMod

(* _effectiveLatency *)
EffectiveLatency == IF rtt > 0 THEN Max2(latency, 2 * rtt + RttSafety) ELSE latency

(* _findEarliest: the buffered position closest ahead of nextSeq.          *)
Earliest(buf, n) ==
    CHOOSE s \in DOMAIN buf :
        \A t \in DOMAIN buf : (s - n) % SeqMod <= (t - n) % SeqMod

(* _findNextAvailable: the linear scan, then the full one.                 *)
NextAvailable ==
    LET near == {i \in 1 .. Min2(ScanLimit, MaxSize + 1) :
                    (nextSeq + i) % SeqMod \in DOMAIN buffer}
    IN  IF near # {}
        THEN (nextSeq + (CHOOSE i \in near : \A j \in near : i <= j)) % SeqMod
        ELSE Earliest(buffer, nextSeq)

MaxEmit == Max2(EmitFloor, MaxSize)

JitterInit ==
    /\ buffer = <<>> /\ count = 0 /\ nextSeq = NoSeq
    /\ oldStreak = 0 /\ emittedAny = FALSE
    /\ timer = TRUE /\ latency \in Latencies \ {0} /\ rtt = 0
    /\ phase = "idle" /\ emitted = 0
    /\ net = Copies /\ losses = 0 /\ calls = 0
    /\ base = NoSeq /\ out = <<>> /\ lost = {} /\ skipped = {} /\ heard = {}

-----------------------------------------------------------------------------
ReportedOneShort(gapLen) ==     \* slip: the last lost position is not reported
    Min2(gapLen - 1, MaxLossEvents)
Reported(gapLen) == Min2(gapLen, MaxLossEvents)

(* _declareGapAndSkip, from position n to position end: the losses it      *)
(* reports, the positions of its gap event, and the new nextSeq.           *)
DeclareGap(n, end) ==
    LET gapLen == SeqDiff(end, n)
    IN  /\ lost' = lost \cup Run(n, Reported(gapLen))
        /\ skipped' = skipped \cup (IF gapLen > MaxLossEvents THEN Run(n, gapLen) ELSE {})
        /\ nextSeq' = end

OverCapacityLate(held) == held > MaxSize + 1     \* slip: one packet too many
OverCapacity(held) == held > MaxSize

(* _store at playout position n, with _forceAdvance when over capacity:    *)
(* skip to the earliest packet, then flush.                                *)
Store(n, seq, id) ==
    LET stored == [s \in DOMAIN buffer \cup {seq} |->
                      IF s = seq THEN [id |-> id, age |-> 0] ELSE buffer[s]]
        held   == IF seq \in DOMAIN buffer THEN count ELSE count + 1
    IN  /\ buffer' = stored
        /\ count' = held
        /\ \/ /\ ~ OverCapacity(held)
              /\ nextSeq' = n
              /\ UNCHANGED <<phase, emitted, lost, skipped>>
           \/ /\ OverCapacity(held)
              /\ phase = "idle"
              /\ DeclareGap(n, Earliest(stored, n))
              /\ phase' = "flush" /\ emitted' = 0

(* What push compares a packet with: the first packet sets the position.   *)
Playout(seq) == IF nextSeq = NoSeq THEN seq ELSE nextSeq
Behind(seq)  == SeqDiff(Playout(seq), seq)
NewBase(seq) == IF base = NoSeq THEN seq ELSE base

StreakOverLate == oldStreak >= ResyncThreshold  \* slip: compared before counting
StreakOver == oldStreak + 1 >= ResyncThreshold

PushTooOld(id) ==
    /\ Behind(Stream[id]) > LateWindow
    /\ ~ StreakOver
    /\ oldStreak' = oldStreak + 1
    /\ UNCHANGED <<buffer, count, nextSeq, emittedAny, phase, emitted, history>>

PushResyncDrops(id) ==      \* slip: the streak is forgotten, not acted upon
    /\ Behind(Stream[id]) > LateWindow
    /\ StreakOver
    /\ oldStreak' = 0
    /\ UNCHANGED <<buffer, count, nextSeq, emittedAny, phase, emitted, history>>

(* A run of packets that all look too old: _resyncTo and start afresh.     *)
PushResync(id) ==
    LET seq == Stream[id]
    IN  /\ Behind(seq) > LateWindow
        /\ StreakOver
        /\ buffer' = [s \in {seq} |-> [id |-> id, age |-> 0]]
        /\ count' = 1 /\ nextSeq' = seq
        /\ oldStreak' = 0 /\ emittedAny' = FALSE
        /\ base' = seq /\ out' = <<>> /\ lost' = {} /\ skipped' = {}
        /\ UNCHANGED <<phase, emitted, heard>>

MayRewindAlways == TRUE     \* slip: rewinds after something was emitted
MayRewind == ~ emittedAny

PushLateStores(id) ==       \* slip: a late packet is stored all the same
    /\ Behind(Stream[id]) \in 1 .. LateWindow
    /\ ~ MayRewind
    /\ oldStreak' = 0
    /\ Store(nextSeq, Stream[id], id)
    /\ UNCHANGED <<emittedAny, base, out, heard>>

PushLate(id) ==
    /\ Behind(Stream[id]) \in 1 .. LateWindow
    /\ ~ MayRewind
    /\ oldStreak' = 0
    /\ UNCHANGED <<buffer, count, nextSeq, emittedAny, phase, emitted, history>>

(* Nothing was emitted yet: the stream began on a reordered packet.        *)
PushRewind(id) ==
    LET seq == Stream[id]
    IN  /\ Behind(seq) \in 1 .. LateWindow
        /\ MayRewind
        /\ oldStreak' = 0
        /\ base' = seq
        /\ Store(seq, seq, id)
        /\ UNCHANGED <<emittedAny, out, heard>>

PushAhead(id) ==
    LET seq == Stream[id]
    IN  /\ Behind(seq) <= 0
        /\ oldStreak' = 0
        /\ base' = NewBase(seq)
        /\ Store(Playout(seq), seq, id)
        /\ UNCHANGED <<emittedAny, out, heard>>

(* The network hands a copy of packet id to push, or loses it.             *)
Arriving(id) ==
    /\ net[id] > 0
    /\ \A j \in Packets : net[j] > 0 => id <= j + MaxReorder
    /\ phase = "idle" \/ (phase = "output" /\ "push" \in Reentrant)
    /\ net' = [net EXCEPT ![id] = @ - 1]
    /\ UNCHANGED <<settings, losses, calls>>

Push(id) ==
    /\ Arriving(id)
    /\ \/ PushTooOld(id)
       \/ PushResync(id)
       \/ PushLate(id)
       \/ PushRewind(id)
       \/ PushAhead(id)

Lose(id) ==
    /\ net[id] > 0 /\ losses < MaxLosses
    /\ phase = "idle"
    /\ net' = [net EXCEPT ![id] = @ - 1]
    /\ losses' = losses + 1
    /\ UNCHANGED <<core, settings, phase, emitted, calls, history>>

-----------------------------------------------------------------------------
WaitedEnoughNear ==         \* slip: only the linear scan, no full one
    /\ count > 0
    /\ \E i \in 1 .. Min2(ScanLimit, MaxSize + 1) :
          (nextSeq + i) % SeqMod \in DOMAIN buffer
    /\ buffer[NextAvailable].age >= EffectiveLatency

(* A missing packet was waited for long enough.                            *)
WaitedEnough == count > 0 /\ buffer[NextAvailable].age >= EffectiveLatency

(* The timer fires; a flush that finds nothing to do changes nothing.      *)
FlushTimer ==
    /\ phase = "idle" /\ timer
    /\ nextSeq \in DOMAIN buffer \/ WaitedEnough
    /\ phase' = "flush" /\ emitted' = 0
    /\ UNCHANGED <<core, settings, net, losses, calls, history>>

(* One turn of _flush's loop: the packet at nextSeq leaves the buffer and  *)
(* the application is called ...                                           *)
EmitBegin ==
    /\ phase = "flush" /\ emitted < MaxEmit
    /\ nextSeq \in DOMAIN buffer
    /\ LET id == buffer[nextSeq].id
       IN  /\ out' = Append(out, id)
           /\ heard' = heard \cup {id}
    /\ buffer' = [s \in DOMAIN buffer \ {nextSeq} |-> buffer[s]]
    /\ count' = count - 1
    /\ emittedAny' = TRUE
    /\ phase' = "output"
    /\ UNCHANGED <<nextSeq, oldStreak, settings, emitted, net, losses, calls,
                   base, lost, skipped>>

(* ... and returns.                                                        *)
EmitEnd ==
    /\ phase = "output"
    /\ nextSeq' = (nextSeq + 1) % SeqMod
    /\ emitted' = emitted + 1
    /\ phase' = "flush"
    /\ UNCHANGED <<buffer, count, oldStreak, emittedAny, settings, net, losses,
                   calls, history>>

SkipGap ==
    /\ phase = "flush" /\ emitted < MaxEmit
    /\ nextSeq \notin DOMAIN buffer
    /\ WaitedEnough
    /\ DeclareGap(nextSeq, NextAvailable)
    /\ UNCHANGED <<buffer, count, oldStreak, emittedAny, settings, phase, emitted,
                   net, losses, calls, base, out, heard>>

FlushEnd ==
    /\ phase = "flush"
    /\ \/ emitted >= MaxEmit
       \/ nextSeq \notin DOMAIN buffer /\ ~ WaitedEnough
    /\ phase' = "idle" /\ emitted' = 0
    /\ UNCHANGED <<core, settings, net, losses, calls, history>>

-----------------------------------------------------------------------------
(* The application's other calls, from outside or from the callback.       *)
MayCall(what) ==
    /\ calls < MaxCalls
    /\ phase = "idle" \/ (phase = "output" /\ what \in Reentrant)
    /\ calls' = calls + 1

(* reset, which the application makes before the restarted stream.         *)
Reset ==
    /\ MayCall("reset")
    /\ \A id \in Packets : id >= Restart => net[id] = Copies[id]
    /\ buffer' = <<>> /\ count' = 0 /\ nextSeq' = NoSeq
    /\ oldStreak' = 0 /\ emittedAny' = FALSE
    /\ base' = NoSeq /\ out' = <<>> /\ lost' = {} /\ skipped' = {}
    /\ UNCHANGED <<settings, phase, emitted, net, losses, heard>>

Close ==
    /\ MayCall("close")
    /\ timer' = FALSE
    /\ buffer' = <<>> /\ count' = 0
    /\ UNCHANGED <<nextSeq, oldStreak, emittedAny, latency, rtt, phase, emitted,
                   net, losses, history>>

SetLatency(ms) ==
    /\ MayCall("setLatency")
    /\ latency' = ms
    /\ UNCHANGED <<core, timer, rtt, phase, emitted, net, losses, history>>

SetRtt(ms) ==
    /\ MayCall("setRtt")
    /\ rtt' = ms
    /\ UNCHANGED <<core, timer, latency, phase, emitted, net, losses, history>>

Tick ==
    /\ phase = "idle"
    /\ \E s \in DOMAIN buffer : buffer[s].age < MaxAge
    /\ buffer' = [s \in DOMAIN buffer |-> [buffer[s] EXCEPT !.age = Min2(@ + 1, MaxAge)]]
    /\ UNCHANGED <<count, nextSeq, oldStreak, emittedAny, settings, phase, emitted,
                   net, losses, calls, history>>

JitterNext ==
    \/ \E id \in Packets : Push(id) \/ Lose(id)
    \/ FlushTimer \/ EmitBegin \/ EmitEnd \/ SkipGap \/ FlushEnd
    \/ Reset \/ Close
    \/ \E ms \in Latencies : SetLatency(ms)
    \/ \E ms \in Rtts : SetRtt(ms)
    \/ Tick

JitterSpec == JitterInit /\ [][JitterNext]_vars

(* Time passes, the timer fires, a flush runs to its end, and every packet *)
(* arrives or is lost.                                                     *)
FairSpec ==
    /\ JitterSpec
    /\ WF_vars(Tick)
    /\ WF_vars(FlushTimer)
    /\ WF_vars(EmitBegin \/ EmitEnd \/ SkipGap \/ FlushEnd)
    /\ WF_vars(\E id \in Packets : Push(id))

-----------------------------------------------------------------------------
JitterTypeOK ==
    /\ DOMAIN buffer \subseteq Positions
    /\ \A s \in DOMAIN buffer : buffer[s] \in [id : Packets, age : 0 .. MaxAge]
    /\ nextSeq \in Positions \cup {NoSeq}
    /\ oldStreak \in 0 .. ResyncThreshold - 1
    /\ emittedAny \in BOOLEAN /\ timer \in BOOLEAN
    /\ phase \in {"idle", "flush", "output"}
    /\ emitted \in 0 .. MaxEmit
    /\ out \in Seq(Packets) /\ lost \cup skipped \subseteq Positions

(* "Memory stays bounded no matter what the network does" (jitter_buffer.js*)
(* :154-156): the counter is the number of entries, and between calls      *)
(* there are at most maxSize of them, the forced flush included.           *)
Capacity ==
    /\ count = Cardinality(DOMAIN buffer)
    /\ phase = "idle" => count <= MaxSize

(* Within an epoch (until a resync or a reset) packets numbered by one run *)
(* of the sender leave in the order they were sent, and none leaves twice: *)
(* late packets, duplicates, rewinds and forced flushes included (105-147, *)
(* 175-245).                                                               *)
Ordered ==
    \A j, k \in DOMAIN out :
        j < k /\ (out[j] < Restart <=> out[k] < Restart) => out[j] < out[k]

(* The epoch's account: every position the playout has passed was either   *)
(* emitted or reported, as a loss or in a gap event, and never both: no    *)
(* position is passed over in silence (214-232).                           *)
Accounted ==
    base # NoSeq =>
        LET cursor   == IF phase = "output" THEN nextSeq + 1 ELSE nextSeq
            played   == {Stream[out[k]] : k \in DOMAIN out}
            reported == lost \cup skipped
        IN  /\ Run(base, (cursor - base) % SeqMod) = played \cup reported
            /\ played \cap reported = {}

(* No entry is left behind the playout position, where no flush would ever *)
(* reach it ("storing it would just leak an unreachable entry", 140-143).  *)
NoneStranded ==
    \A s \in DOMAIN buffer :
        SeqDiff(s, nextSeq) >= (IF phase = "output" THEN 1 ELSE 0)

(* After reset the next packet is the first of a new stream (298-300): no  *)
(* position is expected before it arrives.                                 *)
FreshAfterReset == phase = "idle" /\ base = NoSeq => nextSeq = NoSeq

(* What is buffered leaves: the buffer empties again and again while the   *)
(* timer runs.                                                             *)
Drains == []<>(count = 0 \/ ~ timer)

(* "Auto-resyncs when the stream jumps instead of dying silently" (8-9):   *)
(* after the sender restarted its numbers, its packets are heard again.    *)
HeardAfterRestart == <>(~ timer \/ \E id \in heard : id >= Restart)
=============================================================================
