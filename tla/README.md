# Verification of rtp-packet

TLA+ models, TLC runs and machine-checked proofs for
[rtp-packet](../src/README.md), an RTP/RTCP stack in JavaScript. The models are
translated from the code in `src/src/`; line numbers in comments are lines of
those files. The repository has no tests of its own, so the properties come from
what the code's comments and the library's README promise and from what the
code relies on.

## The system

The library is a set of classes an application wires together. Nothing in it
does I/O: the application feeds packets in and takes packets out by return
value or callback. It runs on one thread; concurrency enters through the
**network** (loss, reordering, duplication, delay), through **time** (timers,
polls, ages), through **callbacks** that run in the middle of a method and may
call back in, and through **wrapping counters** that both ends must extend in
the same way from partial information.

| Component | State it keeps | Operations | What makes it hard | What makes it correct |
|---|---|---|---|---|
| SRTP (`srtp.js`, `SrtpSession`) | per SSRC: the sender's highest index; the receiver's highest index and a 128-bit replay bitmap in four words | `encryptRtp`, `decryptRtp` | the 32-bit rollover counter is never sent, each end derives it from 16 bits and its own past; packets straddle wraparounds late or early | same index at both ends; no replay; no false reject; exact window |
| SRTCP (`srtp.js`) | one 31-bit send index per session, a replay window per SSRC | `encryptRtcp`, `decryptRtcp` | an index shared by streams, late and doubled datagrams | each datagram is acted on once, none of those within its window refused |
| `JitterBuffer` (`jitter_buffer.js`) | buffer by sequence number, count, next position, streak of old packets, timer | `push`, timer flush, `setLatency`, `setRtt`, `close`, `reset` | reordering, gaps, jumps of the stream, capacity, wraparound, callbacks in the middle of a flush | order, each position emitted or reported once, bounded, drains, recovers from a jump |
| `NackGenerator`, `Histogram` (`retransmit.js`) | arrivals, list of missing packets with ages and retries, keyframes, reordering histogram, highest packet | `observePacket`, `buildFeedback`, `updateRtt`, `acknowledgeKeyframeRequested`, `reset` | arrivals, recoveries, polls and trimming interleave; overflow; retries | never requests what arrived, bounded requests, bounded list, nothing lost in silence |
| `SenderBuffer`, `RtxStream`, `NackThrottle` (`retransmit.js`) | rings of sent packets, RTX sequence number, time of the last answer per packet | `store`, `get`, `buildRtx`, `shouldRespond` | stale slots, races with the next request | right packet, at most once per round trip |
| `RtpForwarder` (`forward.js`) | sequence and timestamp offsets, last output, pending switch | `switchSource`, `forward` | reordering around a source switch | one continuous output stream |
| RED (`red.js`) | frames of the past; timestamps already delivered | `packetize`, `depacketize` | loss and reordering beyond the redundancy, bounded history | each frame delivered once |
| FlexFEC (`flexfec.js`) | current group; media window and pending repair packets | `protect`, `flush`, `addMediaPacket`, `addFecPacket` | chains of recoveries, stale repair packets, wraparound | recovers exactly the lost packet |
| Bandwidth (`bandwidth.js`) | arrivals since the last report; trend filters | `onPacket`, `buildFeedback`, `parseTransportCC`, `BandwidthEstimator` | wrapping numbers, reports that overlap | what is reported is what arrived |
| DTMF (`dtmf.js`) | current event, last end timestamp | `packetize`, `depacketize` | repeated end packets | one event reported once |
| Codecs (`h264.js`, `h265.js`, `vp8.js`, `vp9.js`, `av1.js`, `opus.js`, `g711.js`, `g722.js`, `aac.js`) | fragments of the current unit | `packetize`, `depacketize` | loss in the middle of a fragmented unit | no spliced frame |
| `RtpHeaderStamper` (`rtp_header_stamper.js`), extensions (`rtp.js`) | the names of each SSRC, the negotiated ids, a transport-wide counter | `stamp`, the setters, `setHeaderExtension`, `remapExtensionIds` | names and ids change between packets; a retransmission is stamped twice; headers are rewritten in place | the receiver reads the names, level and time the sender meant |
| RTP, RTCP (`rtp.js`, `rtcp.js`), `index.js` | none | builders and parsers, the factories | padding, compound packets, bitmasks, run-lengths | what is parsed is what was built |

The components meet at the application: `NackGenerator` sees each arriving
packet before it is pushed to `JitterBuffer`; its requests reach the sender as
RTCP, pass `NackThrottle`, are served from `SenderBuffer` and come back through
`RtxStream`, which `observePacket` sees as recovered; `JitterBuffer.setRtt` and
`NackGenerator.updateRtt` take the same round-trip time, so that a packet is
declared lost only after a request had time to be answered; `decryptRtp` stands
before everything on the receive side. Only data passes between them: no class
holds a reference to another's state. That is why each component has a module of
its own, and three more compose them over a network: `SrtpStream` (protected
media), `PayloadPath` (a frame from the encoder to the decoder, for every codec)
and `ControlPath` (what a receiver sends back and what the sender does with it).

## Modules

| Module | Models |
|---|---|
| `SrtpIndex` | the arithmetic of `srtp.js`: the sender's rollover counter (`SenderRoc`), the receiver's guess (`GuessRoc`), the bitmap operations (`Mark`, `ShiftLeft`, `ReplayFresh`, `ReplayMark`) |
| `ReplayFilter` | abstract: each index is handed over at most once, and never from behind the window |
| `SrtpReceiver` | `decryptRtp` and its `_recvState` entry against an arbitrary network; implements `ReplayFilter` |
| `SrtpStream` | `encryptRtp`, a network that loses, reorders and duplicates, and `SrtpReceiver` |
| `JitterBuffer` | `JitterBuffer`, the flush loop iteration by iteration |
| `Histogram` | `Histogram`: circular buffer and buckets |
| `NackGenerator` | `NackGenerator` with its `Histogram` |
| `OneStream` | abstract: one continuous stream, on unbounded numbers |
| `RtpForwarder` | `RtpForwarder` and a consumer that extends what it receives; implements `OneStream` |
| `RtpPayload` | packets as the packetizers make them and what they share (`rtp.js`: `splitPayload`, timestamps, argument checks of a depacketizer, key frame types) |
| `Vp8Payload`, `Vp9Payload`, `Av1Payload` | packetizer, depacketizer and the two peeks of each codec |
| `NalUnits` | the splitting of an encoder's buffer into NAL units, shared by H.264 and H.265 |
| `H264Payload`, `H265Payload` | single units, aggregation, fragmentation, and their reassembly |
| `AacPayload`, `AudioPayload`, `DtmfPayload` | AAC; Opus, G.711 and G.722; tones |
| `RedPayload`, `FlexFec` | redundancy: frames repeated in later packets; exclusive ors of groups |
| `PayloadPath` | the ten modules above paired by name, a network and the application between them |
| `RtpHeader` | `serialize`, `parse`, padding, and the block of header extensions with every function that reads, adds or renames one |
| `RtpHeaderStamper` | `RtpHeaderStamper` |
| `Retransmit` | `SenderBuffer`, `RtxStream` and the RTX functions, `NackThrottle` |
| `Rtcp` | the builders and parsers of RTCP messages, the NACK masks, the chunks and deltas of transport-wide feedback |
| `SrtcpSession` | `encryptRtcp`, `decryptRtcp`, the windows of each SSRC (on `SrtpIndex`) |
| `TransportCc` | `TransportCCFeedbackGenerator` and `BandwidthEstimator` |
| `Wire` | what goes over the wire: the three modules of media (`RtpHeader`, `RtpHeaderStamper`, `Retransmit`) and `Rtcp`, over one sequence space |
| `ControlPath` | `Wire`, `SrtcpSession` and `TransportCc` around a network |
| `SrtpIndexProofs`, `SrtpProofs`, `WireProofs`, `ControlPathProofs`, `JitterBufferProofs`, `NackGeneratorProofs`, `RtpForwarderProofs`, `PayloadPathProofs` | theorems |
| `MC*` | small instances for TLC |

In each model module a definition whose comment begins with "slip:" is not part
of the model. It is the definition that follows it, changed as a plausible
programming error would change it; exchanging the two is how each property is
shown to be able to fail.

### Correspondence with the code

**SRTP.** `recvMax` and `replay` are `st.maxIndex` and `st.replay` of one SSRC;
a missing entry is `recvMax = -1`, which is also what the code stores before its
first check. The bitmap is kept word by word, a word as the set of its 1 bits,
so that the carries of `_bitmapShiftLeft` are really modelled. Its loop writes
from the highest word down and so reads only words not written yet; the model
states the result of the loop. Cryptography is modelled by what it decides: the
tag covers the packet and the rollover counter, so a packet protected with index `i`
verifies exactly when it is `intact` and the receiver guessed `i`. Damaged packets
arrive in any order among the others; that nothing of the entry moves before
the tag was verified is checked, not assumed. `deliveries` is a history variable.
`SrtpStream` adds the sender's `maxIndex` and the set of protected packets; an
application packet has a number, of which the code sees the last 16 bits.

**JitterBuffer.** A call is one action, except that `_flush` is a loop with a
callback in it: `FlushTimer` (or a `Store` over capacity, through
`_forceAdvance`) begins it, each turn is `EmitBegin` and `EmitEnd`, or
`SkipGap`, and `FlushEnd` ends it. Between `EmitBegin` and `EmitEnd` the
application's callback runs (`phase = "output"`); `Reentrant` names what it may
call. Otherwise nothing interleaves with a flush, as on one thread. `insertTime`
is an age in ticks, saturated at `MaxAge`: beyond the largest latency ages are
not told apart. `_timer` is a Boolean; a timer that finds nothing to do is a
stutter. The stream is a fixed sequence of packets with 16-bit numbers reduced
to 5 bits, of which the network carries copies; histories record what was
emitted and reported since the last resync or reset.

**NackGenerator.** Packets are their extended sequence numbers, as in the code;
the mask to 16 bits on output is left out. `received` is the set behind the flat
ranges, `missing` the Map; its insertion order is not kept, since
`InsertedAscending` shows it is the order of the keys. An entry keeps one age,
since `createdAt` until it is sent and since `sentAt` afterwards. `sentAt` is 0
exactly when `retries` is, for clocks that are not at 0. `Date.now` and the time
given to `buildFeedback` are one clock. `arrived`, `requested`, `first` and
`gaveUp` are histories.

**RtpForwarder.** `forward` is three actions, by what it finds: nothing forwarded
yet (`ForwardFirst`), a pending switch (`ForwardSwitched`), or neither
(`ForwardNext`); the first two store offsets (`Rebase`), all three end in `Emit`.
`None` stands for `null`; `_seqOffset` and `_lastOutSeq` are null together. A
source is a stretch of packets from any number on, so that switching back to an
earlier producer is one more stretch. After `switchSource` only the new source is
forwarded, as the method's comment asks ("the NEXT packet comes from a different
source"). The consumer (`heard`) extends sequence numbers and timestamps relative
to the furthest packet it has, like any RTP receiver, and this unbounded view is
what is compared with `OneStream`. `_forwarded`, the null returns for packets that
are not RTP and the bytes copied through are left out.

**Payloads.** An operator `Packetize(st, chunk)` or `Depacketize(st, pkt, open)`
stands for a method: it returns the object's new fields, the packets or outputs
in order, and whether `error` was called; `PayloadPath` applies them. An octet of media
is a cell that says which frame and place it came from, so that a property can
tell a frame from one put together of two; the fields of a payload descriptor are
a record. What a parser does with lengths is kept: the MTU, sizes that just fit, the
bits of AAC's headers, the lengths of AVCC in octets of base `OctetBase`. A frame
of the stream is given to the packetizer only when few packets are on their way:
the two ends share no state, so nothing else is lost by that. `Stray` feeds
what is no frame's packet: padding-only probes and malformed payloads.
The codecs of video, AAC and DTMF get their packets in order with gaps, as
`JitterBuffer` hands them over (`Ordered`); `opus`, `g711`, `g722`, `red` and `flexfec`
also see them late, and most twice. In a FlexFEC packet a value under exclusive or
is the set of the bits it has, over opaque identities of the packets' octets.

**Headers.** A packet is its fixed fields, the extension block and the payload octet by
octet (`Octet(what, n, i)`), so that the header is really rewritten: blocks are
padded to four octets, edited in place when they can be, and rebuilt when not.
`Serialize` keeps of each field the low bits it has room for (the masks of `rtp.js:109-113`) and builds no packet from
extensions that `writeExtensions` would throw a `RangeError` for. Ids of 16 and more, which it
masks to four bits, are outside of the instances and of the theorems.
The send time is a count of `TickRate` ticks a second since 1900 (`Epoch`), of which the
extension keeps the low bits, and a reader gets seconds, a fraction. The code computes the
count in doubles, where it is off by less than a tick.
`Stamp` takes and returns the stamper's state with the packet.

**RTCP.** A message is the list of its words; a compound packet is concatenated and taken
apart again by the length in each header. The fields inside a word stay apart, except where
the code does arithmetic on them: the masks of a NACK, the exponent of REMB, the
symbols, chunks and deltas of transport-wide feedback. Where the code's `|` and `>>` convert
to signed 32 bits (the halving of a REMB's bitrate, the delta of an arrival), `ToInt32` does, on words of
`WordSpace` values. `BlpBits`, `SmallMax`,
`LargeMax`, `VectorLen` and `MaxRun` are the capacities of those fields.

**ControlPath.** One session has one of four modes, which share nothing but the sender:
`recovery`, `rate`, `reports` (feedback with other reports, over SRTCP) and
`layers` (names and ids that change, rewritten at a hop). What is not the library's is
any choice: which missing packets a receiver asks for and when (the policy is
`NackGenerator`, which has a model of its own), when it reports, what the network
does. `held` is a set, so that a second copy of a media packet adds nothing; a NACK
delivered twice is one asked for again. `Renumber` waits until no packet is on its
way, as two ends that agree on new ids do. A peer's SRTCP counts per session or per
SSRC, and may leave reports unencrypted: `decryptRtcp` accepts both
outside of GCM. `Counting` says which, and whether the session was made with replay protection.

**Estimator.** The slope that `BandwidthEstimator` fits in binary floating point is an exact
fraction here; what it is compared with is exact in both.

## What is checked

| Run | Instance | States | Shows |
|---|---|---|---|
| `srtp_receiver` | 12 sequence numbers, 2 words of 2 bits, indices 0..18, any packet intact or damaged | 471k | `WindowExact`, `NoReplay`, `NoFalseReject`, and `FilterSpec`, the refinement of `ReplayFilter` |
| `srtp_stream` | 16 sequence numbers, first packet 12, last index 21 | 29k | `SenderInSync`, `LateStraddleDecrypts`; `ReceiverKeepsUp` on a network without loss |
| `srtp_late_wrap` | late packets across a wraparound | | `LateStraddleDecrypts` fails: see Findings |
| `jitter` | 7 packets: wraparound, gap of three, a duplicate, a restart; one loss, one call | 352k | `Capacity`, `Ordered`, `Accounted`, `NoneStranded`, `Drains`, `HeardAfterRestart` |
| `jitter_reset` | the same, `reset` from the callback | | `FreshAfterReset` fails: see Findings |
| `nack` | 7 packets, one keyframe, list of 2, age 4, 2 requests | 103k | `BoundedMissing`, `NeverNackReceived`, `NackBudget`, `NoSilentLoss`, `InsertedAscending`, `Resolved` |
| `nack_keyframe` | the same | | `NoneBelowKeyframe` fails: see Findings |
| `forwarder` | 4 sources of 3 packets, 8 sequence numbers, 32 timestamps | 50k | `NoReuse`, `TimeAdvances`, and `OneStreamSpec`, the refinement of `OneStream` |
| `forwarder_reorder` | the same, reordered at the switch | | `NoReuse` fails: see Findings |
| `media` | 15 streams, one for each codec and option, of 2 to 6 frames; loss, reordering, duplicates, probes, one reset or close | 850k | `IntactSurvives`, `NothingTwice`, `InSendingOrder`, `RedundancyHeals`, `NothingInvented`, `PeekAgrees`, `NoFalseAlarm` |
| `avcc` | H.264 units whose first length is in 256..511, in octets of two bits | | `AvccSurvives` fails: see Findings |
| `control` | four modes of 2 to 3 packets; loss, duplicates, at most two feedback messages, calls that reconfigure or reset | 137k | `ReceivedIsSent`, `FeedbackOnce`, `FeedbackFaithful`, `NoStorm`, `EventuallyRecovered`, `EstimateTracksDelay` |

**Bounds.** They are constants marked "bound:" and stop the environment, not the
code: the number of packets, how far they are reordered, how many are lost, how
often the application calls. They are chosen so that the interesting cases
happen. SRTP: the indices cover more than a full sequence space and the window
(4) is smaller than half of it (6), so that late, early, straddling, replayed
and too-old packets all occur, packets exactly half the space
ahead too (as far behind is outside of the window), and shifts of less
than a word, of a word, across words and beyond the window. `RocMod` does not come into play (a counter of 2^32
wraps takes 2^48 packets). JitterBuffer: the stream wraps, its gap of three is longer
than the linear search (2), than the loss report (2) and within the late window
(3); the restart is behind every position by more than that; capacity is 3.
NackGenerator: a gap of three overflows the list, the keyframe splits the
stream, age 4 trims within it, the histogram overwrites its samples. RtpForwarder: the output and the second source's input
wrap, in both number spaces; 12 packets cover the sequence space of 8, three
packets per source allow a late one after the furthest, before a switch.

`media`: sequence numbers (16, from 15) and microseconds (from 35, timestamps
modulo 64) wrap within the stream; the MTU of 6 makes frames of one packet, of exactly one
and of several; a group of FlexFEC is 3 frames, a frame of RED is carried by 2 more
packets, and up to two frames are lost in either; packets overtake each
other by one place. RED's `HistorySize` is
`Redundancy + 1 + 2 * MaxReorder`: with less, a frame would be forgotten while
copies of it can still arrive (the code's 64 leaves that room).
`control`: 8 sequence numbers from 6 on, a ring of 2, so that the third packet takes the
first one's slot across the wraparound; the throttle's window is 2 ticks and its sweep runs in
between; masks of one bit, chunks of 2 and runs of 3 make lists of more than one entry,
chunk and run; a gap of 3 ms does not fit a large delta (11 quanta of 250 us), which exercises
the code's "reported lost" case; `MaxBps` is just above the start, so that growth
saturates; the backoff threshold is 0 and the drain threshold -1, because the delays
are a few ms. A receiver's windows are 2 wide, one step of reordering within and one beyond.
Words of 20 bits (`WordSpace`) hold every SSRC, time and bitrate of the run. A second is 10 ms and 4 ticks,
the extension's counter 2 bits, so that a tick is more than a millisecond and no count of ticks fits the counter.

**Fairness.** `ControlPath`: time passes, the network loses only what `MaxLost` allows
and then delivers (`HeardAbout`, `TakenAbout`, one fairness condition per packet, since a
condition on all would let one wait behind the others for ever), and the receiver
goes on asking for what it misses (`AskedFor`), which is `NackGenerator`'s part. `PayloadPath`
states none. `SrtpStream`: weak fairness of sending new packets and of each
packet's arrival, for `ReceiverKeepsUp` only; it describes a reliable network
and an application that keeps sending. JitterBuffer: time passes, `setInterval`
fires while the timer is set, a flush in progress runs to its end (one thread),
and the network delivers or loses each copy. `Drains` and `HeardAfterRestart`
except a closed buffer, whose timer never fires again. NackGenerator: time
passes and the application polls ("must be called periodically", 822).

**Deadlock** is not checked: every instance ends when its packets are used up, or when
`close` or `Stop` was called.

## What is proved

TLAPS checks these for every value of the constants that satisfies the modules'
assumptions, the code's own included.

* `SrtpIndexProofs`: lemmas about the arithmetic of `SrtpIndex`, used by the three
  modules below that rest on it. `ShiftSeen` (shifting words with carries moves every bit
  by `n` positions), `MarkSeen` and, under both, `Position` (a position names one bit
  of one word); `GuessCorrect`: the guess is the true counter for every index less than
  half the sequence space away from the highest one, and of the two that are
  exactly half away for the one of the same rollover (`Near`).
* `SrtpProofs`, of `SrtpReceiver`: `NeverReplayed`, `WindowAlwaysExact`, `ImplementsFilter`,
  `NeverFalselyRejected`, `ReceiverTypes`. `NoReplay` alone is not inductive: that an
  index is handed over once follows from its bit, so the invariant is
  `RecvTypeOK /\ WindowExact /\ NoReplay`.
  `ImplementsFilter` follows from the invariant with `top` mapped to `recvMax`.
* `SrtpProofs`, of `SrtpStream`: `SenderStaysInSync` and `LateStraddlersDecrypt`, under the
  assumption `~ LateOverWrap` that the finding below shows to be needed; the first rests on
  `SenderCorrect`, which argues in quarters of the sequence space, the second on the
  first and `GuessCorrect`. `StreamTypes` needs no assumption.
  `StreamHasReceiver` shows that the composition's receiver is an
  `SrtpReceiver`, so `StreamNeverReplays` follows.
* `ControlPathProofs`: `FeedbackActedOnOnce`, `FeedbackWindowsExact`. What was acted on is a
  set of pairs of SSRC and index (`acted`), what the code keeps is a highest index and a bitmap for
  each SSRC; `FeedbackOnce` is inductive only together with `WindowsExact`, which says
  that the two agree within each window, and `Indexed`, which says that every index
  counted or on its way is a natural number. The proof covers both ways a peer counts (`Counting`), unencrypted
  reports, and sessions without replay protection, which refuse nothing and promise no more.

  `ReceivedAsSent` and `StormBarred` state `ReceivedIsSent` and `NoStorm`. Neither is inductive:
  what is read was sent earlier, under names that may have been replaced since. `PathInv` (`PathSafe`) follows a packet on every
  way it can take. `StamperTold`: the stamper writes what the application told it last, for each
  SSRC. `HistoryInv`: each call is on record with what it meant at the time. `WayInv`: every
  packet on its way is one of these (`Fresh`: it carries the meaning of some call) or, on
  the RTX stream, repeats one (`Repeats`: it carries that packet behind its original
  number, stamped with names of its own, of which the receiver prefers the repaired layer). `RepairInv`:
  a slot of the ring is empty or holds a packet that was sent, and the throttle's table
  bounds from below the time since each packet was sent again (`Throttled`), through its sweep too, since
  what a sweep forgets is older than the window. That a slot answers only for its own number is
  `GetSent`; that a number names one packet is `SeqNoOnce`. One NACK is served as a fold over the
  numbers it names; `ServingStep` is one turn of it, and `NackServed` the whole. What a packet means is
  read off its octets only through the lemmas of `WireProofs`.
* `WireProofs`: the algebra of a packet's octets. `Carries(pkt, csrc, exts, rest)` says that a
  packet consists of its sources, of a block whose elements are exactly the extensions `exts`, and of
  `rest`. Every function of the code that touches a packet has a theorem in these terms:
  `SerializeCarries`, `SetCarries` (a block is rebuilt), `RemapCarries` (ids are renamed in place),
  `StampCarries`, `BuildCarries` and `UnwrapCarries` (RTX), and `ParseReads` and `ReadReads`, which take the
  meaning off again; so `ParseSerialize` and `RtxRestores` are short. Their packets have fields
  that fit the header, as the sessions' do, so that the masks of `serialize` change nothing (`FitsWhole`, `CsrcWhole`). Below them is the
  scan of a block, a recursive function of the position: `ScanRuns` shows that it is well defined, `ScanFinds`
  that it finds the extensions of data that `Fits`, each at its place and nothing else, although what
  it looks at next depends on the octet it has read. Order and padding inside a block are free, as the
  functions change both; ids are of the one-byte form. The module also has what the
  loop of retransmission needs of a NACK, whatever numbers it was built from: it is one message, it is read
  once (`OneMessage`), and what is read off it is a finite list of numbers (`NackNumbersListed`).
* `JitterBufferProofs`: `MemoryStaysBounded` and `JitterTypes`, for any stream, capacity and
  calls in the callback. `Capacity` says more than the code checks: a push may leave one
  packet too many, and the flush it begins must not end before it has emitted
  one. `JitterInv` adds what makes that so: while the buffer is over capacity, the
  flush is one a push began and has emitted nothing yet, and the position it
  skipped to is buffered. That `_forceAdvance` skips to a buffered position rests
  on `EarliestBuffered`.

  `PlayoutIsOrdered`, `NoEntryIsStranded` and `EpochIsAccounted` are about a
  stream the code sees only modulo 2^16. `PlayoutInv(P)` places it on a line: `P` gives
  each packet its unwrapped number, and there is a place `c` for the playout position, with
  everything emitted behind it in order and everything buffered ahead (`Sorted`),
  and a place `b` where the epoch began, such that the places from `b` to `c` are those
  played and those reported, and no place both (`Accounts`). Neither `c` nor `b` can be computed
  from the code's state, so the invariant says that they exist. Its hypotheses:
  `Unwraps(P)` (the sender numbers its packets in order; a restart begins anywhere),
  `Timely(P)` on each step (a packet pushed lies within half the number space
  of those buffered and of the one emitted last, the condition under which `seqDiff` means
  anything, and none is pushed after `close`), and `Reentrant \subseteq {"close"}` (the callback
  may close the buffer, not push into it or reset it: the finding about `reset`
  below shows that order is lost then). `EpochIsAccounted` also needs `Short(P)`: the account is a set
  of sequence numbers, so the stream may not use one twice. The streams of the
  runs satisfy all of them up to `close`; runs without the hypotheses check the
  same invariants where TLC can reach.
* `NackGeneratorProofs`: `NackTypes`, `MissingStaysBounded`, `ArrivedIsNeverListed`,
  `ListIsAscending`, `RequestsAreBudgeted`, `LossIsNeverSilent`.
  The list is filled in from `_received`, which is trimmed;
  the invariant adds that every arrival above the highest packet is still in it
  (`NackInv`). Only `ObserveNew` puts anything on the list (`GapListed`); every
  other step is covered by `FewerListed`. That a packet is requested no more than
  `maxNackRetries` times needs more than the counter of its entry: an entry that is dropped
  loses its count, so nothing above the highest packet may have been requested, and what left
  the list may not come back. `LossIsNeverSilent` follows each way an entry can leave
  the list (arrival, retries, age, keyframe, overflow) to the reason the property names.
* `RtpForwarderProofs`: `ForwardsOneStream`, `NumbersNeverReused`,
  `TimeNeverGoesBack`, under the assumption `~ ReorderAtSwitch` that the finding
  below shows to be needed, and `ForwarderIsTyped` without it. `NoReuse` is not inductive:
  that the next packet gets a
  number of its own follows from where the code's offsets take it. `ForwarderInv`
  therefore ties three views together: the code's remembered numbers are those of
  the furthest packet heard (`Last`), its offsets take the source's first packet
  where the consumer heard it, and all others of that source lie around it, those
  of earlier sources before it (`Anchored`). `Rebased` (the two wrapped
  subtractions cancel), `Carried` and `Landed` (distances survive the offset) and
  `SignedClose` (a wrapped difference is the difference, below half the space) are
  the arithmetic; `EmitPlaces` is the step all three kinds of `forward` share.
* `PayloadPathProofs`: `RecoveryInventsNothing`. With FlexFEC, whatever is lost, late,
  doubled or reset, all the decoder emits was sent, bit for bit: `NothingInvented` for
  that codec, for every size of a group and of the two windows. The invariant
  `FecInv` says where each packet comes from: the encoder's group is the end of the stream
  so far (`Burst`), each packet on its way is one of the stream or the
  repair of a burst of it, and the decoder keeps and has emitted originals
  only, no two with one number. A bit is set in an exclusive or when an odd number of
  members has it (`InXorAll`), so a burst without one member and the others, in
  whatever order the decoder has them, leave that member (`XorExact`); that the mask names
  the burst's numbers and no others (`RepairOf`) makes what `_tryRecover` builds the
  original (`RecoveryIsExact`). The loop of `_tryRecoverAll` is a recursive function:
  that it exists (`LoopRuns`) and what each turn keeps (`TurnKeeps`) are
  inductions over sets of natural numbers (`Induct`). Its hypothesis `FecBound`, a stream
  no longer than the sequence space, is what the hazard at `flexfec.js:230` asks for: past
  it a waiting repair names packets of another cycle.

Assumptions: `SrtpAssumption` (the sequence space is a multiple of 4 and at least
twice the window), `ReceiverAssumption`, `StreamAssumption` (skips and lateness
below a quarter of the sequence space), `JitterAssumption`, `NackAssumption` (limits are natural
numbers), `ForwarderAssumption` (a source is shorter than half of either number
space, a jump than half the timestamps), `ControlAssumption` (what the modules of
`ControlPath` need of their constants, among it that the ring's
size divides the sequence space, as 512 does) and `PathAssumption` (a group of FlexFEC fits
its mask, which `flexfec.js:48` sees to), `WireAssumption` (number spaces are not empty, clocks tick) and
`SessionsAssumption`, which says what the sessions of `ControlPath` are: one of the four
modes; media no longer than the sequence space, so that a number names one
packet, its numbers and SSRCs within a word; ids of the one-byte form, distinct, on both ends, and on both ends one for each name that is
told (`Understood`); with recovery the same ids on both ends, since a retransmission is read as the
session negotiated it. Each is evaluated by TLC on its run. The theorems about a packet are for
at most 15 sources, what its four bits can count.

Only model-checked:

* Liveness (`ReceiverKeepsUp`, `Drains`, `HeardAfterRestart`, `Resolved`,
  `EventuallyRecovered`) is beyond the prover, which does not reason about
  fairness and ENABLED; so is what a recursive definition (`Median`) computes
  for every input.
* `FeedbackFaithful` and `EstimateTracksDelay` of `ControlPath`
  compare what was parsed with what was built, through the chunks and deltas
  of `Rtcp`: each is an induction over the words of a message, as the theorems of
  `WireProofs` are over the octets of a block, of a longer format.
* `PayloadPath`, but for `NothingInvented` of FlexFEC: it takes a proof for each codec of what
  its parser makes of its packetizer's octets, and for `RedundancyHeals`
  one that the loop of `_tryRecoverAll` ends within the turns `TryRecoverAll` allows it.

## Findings

* **A packet protected late across a rollover is lost, and the sender's counter
  is wrong from then on** (`srtp_late_wrap`; `srtp.js:238`). `encryptRtp` knows
  only forward wraps. After packet 65535, 0 was protected, protecting 65534 late
  (a server that relays in arrival order does) gives it the new counter: an index
  a whole sequence space too high, which also becomes `maxIndex`. The file's
  header (15-16) says late packets that straddle a wraparound are decrypted with
  the correct counter.
* **`reset` from the output callback does not reset the position**
  (`jitter_reset`; `jitter_buffer.js:193`). `_flush` advances `_nextSeq` after the
  callback: from -1 to 0.
* **A keyframe in sequence evicts nothing** (`nack_keyframe`;
  `retransmit.js:627`). The comment (621-625) says entries below a keyframe are
  useless and evicted; the code does so only when the keyframe also opens a gap.
* **Reordering at a source switch reuses a sequence number** (`forwarder_reorder`;
  `forward.js:108`). The offset is set by whichever packet of the new source
  arrives first; the one before it, arriving second, gets the number of the old
  source's last packet, which the consumer (or its SRTP replay window) drops as a
  duplicate. The README (837-839) calls `switchSource` reorder-safe.

* **Some AVCC buffers are split as Annex-B** (`avcc`; `h264.js:385`). The README (213) and
  the comment of `_splitNALUs` (367-372) say the framing is detected. A first NAL unit
  of 256 to 511 octets has the length 00 00 01 xx, one of a single octet 00 00 00 01: both
  are taken for a start code. `h265.js` has the same splitter (454-463).

Seen while modelling, and outside of the runs:

* A fragment of H.264 or H.265 in progress survives the end of its access unit
  when its last packet is lost, and the last fragment of a later unit is appended to it; the
  comment (`h264.js:174-178`) says such a unit is discarded. VP8, VP9, AV1 and AAC
  can join what is left of two frames in the same way. `IntactSurvives` and
  `InSendingOrder` say what does hold: frames that arrived whole are not affected, and no
  octet is used twice or out of order.
* `_splitAnnexB` returns only the last octets of a buffer without any start code, where the
  comment (`h264.js:373-376`) promises the whole buffer as one unit.
* DTMF: an end packet delayed past the end of the next tone is emitted again (README 297); a
  payload given as a bare buffer has the timestamp 0 for every event.
* FlexFEC: a repair packet that outlives a wraparound of sequence numbers recovers garbage.
* VP9: `TL0PICIDX`, which follows the layer octet in the non-flexible mode, is not skipped.
* `_parseNackEntries` does not reduce `pid + bit + 1` to 16 bits (`rtcp.js:576`).
* Transport-wide feedback: the reference time is clamped where the format lets it wrap
  (`bandwidth.js:67`); an arrival too far from the one before is reported lost, and the delta
  after it is relative to the one left out (`EstimateTracksDelay` exempts such reports,
  `FeedbackFaithful` describes them); a late packet that lowers a report's base makes
  the report repeat earlier ones as not received, and a copy that arrives after its report is a new
  arrival.
* `buildREMB` of 2^31 bit/s or more: the comment (`rtcp.js:158`) says `bitrate = mantissa × 2^exp`, but
  `mantissa >>= 1` (162) first converts to a signed 32-bit integer. The halving ends at once on a
  negative number, of which 18 bits are sent: 3 Gbit/s is read back as 24,064 bit/s. The model
  does the same; `FeedbackFaithful` is about bitrates a signed word holds.
* An arrival more than 2^31 us after the one before it is not "reported as not received"
  (`rtcp.js:258`): `deltaUs | 0` wraps first (246), and a small delta can come out. The model does the same;
  no run waits that long.
* The cumulative loss of a receiver report, a signed field, is parsed unsigned; the SRTCP index
  wraps at 2^31 without a guard.

## What is not modelled, and the plan

Next, in this order:

1. **Proofs**: the chunks and deltas of `Rtcp`, for `FeedbackFaithful`;
   `NothingTwice` of DTMF and Opus; that `_tryRecoverAll` ends, and with it
   `RedundancyHeals` of FlexFEC.
2. **Compositions**: `NackGenerator` in place of `ControlPath`'s arbitrary receiver, and
   `JitterBuffer` in front of `PayloadPath`'s depacketizers, on streams that are
   short enough for TLC.

Left out for good: key derivation, ciphers and tags (pure functions of bytes);
the G.711 and G.722 sample conversions, which the library leaves to the application;
`generateSDP` and other texts; `readVideoOrientation`; the NTP clock; the rounding of
floating-point numbers in `BandwidthEstimator`; FlexFEC's `setGroupSize` and malformed repair
headers; argument checks that throw, but for the `RangeError` of `writeExtensions`.

In `JitterBuffer` the loss callback is modelled as returning without calling
back in, and a `push` from the output callback that exceeds the capacity (it
would start a flush within a flush) is not modelled.
