----------------------------- MODULE TransportCc -----------------------------
(***************************************************************************)
(* Congestion feedback (src/src/bandwidth.js): the receiver's              *)
(* TransportCCFeedbackGenerator, which reports when packets arrived, and   *)
(* the sender's BandwidthEstimator, which compares the arrivals with its   *)
(* own record of when they were sent.                                      *)
(*                                                                         *)
(* Times are whole milliseconds.  The estimator's trend, a binary double   *)
(* in the code, is an exact fraction <<numerator, denominator>> here.      *)
(***************************************************************************)
EXTENDS Integers, Sequences, FiniteSets
LOCAL INSTANCE SequencesExt
LOCAL INSTANCE FiniteSetsExt
LOCAL INSTANCE TLC

CONSTANTS
    SeqSpace,           \* 2^16
    FbMod,              \* 2^8, of the feedback counter
    UsPerMs,            \* 1000
    RefUnit,            \* 64 ms
    MinBps, MaxBps, StartBps,
    RembFloor,          \* 10 kbit/s
    HistoryMax,         \* 2048 packets
    BackoffMs, DrainMs, \* 5 and -3 ms: the thresholds of the trend
    MinWindowMs,        \* 10 ms
    BitsPerByteMs       \* 8000: bits per byte, milliseconds per second

(* Assumed by ControlPath.                                                 *)
TransportCcAssumption ==
    /\ SeqSpace \in Nat \ {0} /\ SeqSpace % 2 = 0 /\ UsPerMs \in Nat \ {0} /\ RefUnit \in Nat \ {0}
    /\ 0 < MinBps /\ MinBps <= StartBps /\ StartBps <= MaxBps
    /\ HistoryMax \in Nat \ {0} /\ DrainMs < BackoffMs

AtLeast(a, b) == IF a >= b THEN a ELSE b
NotMore(a, b) == IF a <= b THEN a ELSE b

-----------------------------------------------------------------------------
(* The generator: arrival times by transport-wide number, first one wins.  *)
NoArrivals == <<>>
Generator == [fb |-> 0, arrivals |-> NoArrivals]

RecordArrival(g, seq, now) ==
    [g EXCEPT !.arrivals = @ @@ ((seq % SeqSpace) :> now)]

(* The arrivals in order.  A gap of more than half of the space is the     *)
(* wrap: what is before it in plain order comes after what is behind it.   *)
InOrder(arrivals) ==
    LET seqs == SetToSortSeq(DOMAIN arrivals, <)
        gap(i) == seqs[i] - seqs[i - 1]
        steps == 2 .. Len(seqs)
        wide  == {i \in steps : \A j \in steps : gap(i) >= gap(j)}
    IN  IF steps # {} /\ gap(Min(wide)) > SeqSpace \div 2
        THEN LET at == Min(wide)
             IN  SubSeq(seqs, at, Len(seqs)) \o [i \in 1 .. at - 1 |-> seqs[i] + SeqSpace]
        ELSE seqs

(* One status for each number from the lowest to the highest that arrived, *)
(* with the time since the arrival before it, or since the reference.      *)
FeedbackOf(g) ==
    LET order == InOrder(g.arrivals)
        time(seq) == g.arrivals[seq % SeqSpace]
        ref   == (time(order[1]) \div RefUnit) * RefUnit
        n     == NotMore(order[Len(order)] - order[1] + 1, SeqSpace - 1)
        status(seq) ==
            LET k == SelectInSeq(order, LAMBDA s : s = seq)
            IN  IF k = 0 THEN [received |-> FALSE, us |-> 0]
                ELSE [received |-> TRUE,
                      us |-> (time(seq) - (IF k = 1 THEN ref ELSE time(order[k - 1]))) * UsPerMs]
    IN  [base |-> order[1], refMs |-> ref, fb |-> g.fb,
         packets |-> [i \in 1 .. n |-> status(order[1] + i - 1)]]
AfterFeedback(g) == [fb |-> (g.fb + 1) % FbMod, arrivals |-> NoArrivals]
ResetGenerator(g) == Generator

-----------------------------------------------------------------------------
(* The estimator: what was sent lately, and the trend of the delay.        *)
Estimator == [bps |-> StartBps, remb |-> 0, history |-> <<>>, order |-> <<>>, trend |-> <<0, 1>>]
ResetEstimator(e) == Estimator

RecordSend(e, seq, now, size) ==
    LET order == Append(e.order, seq)
        history == (seq :> [at |-> now, size |-> size]) @@ e.history
    IN  IF Len(order) > HistoryMax
        THEN [e EXCEPT !.order = Tail(order),
                       !.history = [s \in DOMAIN history \ {order[1]} |-> history[s]]]
        ELSE [e EXCEPT !.order = order, !.history = history]

ObserveRemb(e, bps) ==
    IF bps < RembFloor THEN e
    ELSE LET target == AtLeast(NotMore(bps, MaxBps), MinBps)
         IN  [e EXCEPT !.remb = bps, !.bps = (e.bps + target + 1) \div 2]

(* The delay gradients of a report, in microseconds: for each packet       *)
(* received with its time whose sending, and that of the one before it of  *)
(* that kind, are still on record.                                         *)
GradientsMixedUnits(e, packets) ==     \* slip: the send times stay in milliseconds
    LET got == SelectSeq(packets, LAMBDA p : p.received /\ p.timed)
        Known(i) == got[i].seq \in DOMAIN e.history
        Sent(i) == e.history[got[i].seq].at
    IN  [i \in {j \in 2 .. Len(got) : Known(j) /\ Known(j - 1)} |-> got[i].us - (Sent(i) - Sent(i - 1))]

Gradients(e, packets) ==
    LET got == SelectSeq(packets, LAMBDA p : p.received /\ p.timed)
        Known(i) == got[i].seq \in DOMAIN e.history
        Sent(i) == e.history[got[i].seq].at
    IN  [i \in {j \in 2 .. Len(got) : Known(j) /\ Known(j - 1)} |->
            got[i].us - (Sent(i) - Sent(i - 1)) * UsPerMs]

(* 0.6 of the trend before and 0.4 of the mean gradient, in microseconds.  *)
Trend(trend, total, pairs) ==
    <<3 * trend[1] * pairs + 2 * total * trend[2], 5 * trend[2] * pairs>>

(* Twice what was sent over the report's window; no cap for a short one.   *)
ProbeCap(e, packets) ==
    LET known == {i \in DOMAIN packets : packets[i].seq \in DOMAIN e.history}
        Rec(i) == e.history[packets[i].seq]
        window == Max({Rec(i).at : i \in known}) - Min({Rec(i).at : i \in known})
        bytes  == MapThenSumSet(LAMBDA i : Rec(i).size, known)
    IN  IF window <= MinWindowMs \/ bytes = 0 THEN MaxBps
        ELSE (2 * bytes * BitsPerByteMs + window \div 2) \div window

Percent(bps, n) == (bps * n + 50) \div 100
Decision(bps, trend) ==
    IF trend[1] > BackoffMs * UsPerMs * trend[2] THEN Percent(bps, 95)
    ELSE IF trend[1] < DrainMs * UsPerMs * trend[2] THEN Percent(bps, 102)
    ELSE Percent(bps, 101)

ObserveTransportCC(e, report) ==
    LET gradients == Gradients(e, report.packets)
        pairs == DOMAIN gradients
        trend == Trend(e.trend, MapThenSumSet(LAMBDA i : gradients[i], pairs), Cardinality(pairs))
        probed == NotMore(Decision(e.bps, trend), AtLeast(e.bps, ProbeCap(e, report.packets)))
        capped == IF e.remb > 0 THEN NotMore(probed, e.remb) ELSE probed
    IN  IF Len(report.packets) < 2 \/ pairs = {} THEN e
        ELSE [e EXCEPT !.trend = trend, !.bps = NotMore(AtLeast(capped, MinBps), MaxBps)]
=============================================================================
