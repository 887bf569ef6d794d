------------------------------ MODULE RedPayload ------------------------------
(***************************************************************************)
(* REDPacketizer and REDDepacketizer (src/src/red.js): every packet        *)
(* carries the newest frame and copies of the frames before it.  A payload *)
(* is [blocks], in wire order, each [off, data, primary].                  *)
(***************************************************************************)
EXTENDS RtpPayload
LOCAL INSTANCE SequencesExt

CONSTANTS
    Redundancy,         \* opts.redundancy
    MaxTsOffset,        \* 2^14 - 1
    MaxBlockLen,        \* 2^10 - 1
    HistorySize         \* opts.historySize

Packetizer(seq) == [seq |-> seq, history |-> <<>>, sentFirst |-> FALSE]
Newest(s, n) == SubSeq(s, IF Len(s) > n THEN Len(s) - n + 1 ELSE 1, Len(s))

(* _do: the newest frames that fit the fields of a redundant header, then  *)
(* the frame itself; and the history moves on.                             *)
Offset(h, ts) == (ts - h.ts) % TsMod
FitsHeader(h, ts) == Offset(h, ts) <= MaxTsOffset /\ Len(h.data) <= MaxBlockLen
Blocks(s, data, ts) ==
    LET usable == SelectSeq(Newest(s.history, Redundancy), LAMBDA h : FitsHeader(h, ts))
    IN  [j \in DOMAIN usable |-> [off |-> Offset(usable[j], ts), data |-> usable[j].data,
                                  primary |-> FALSE]]
            \o <<[off |-> 0, data |-> data, primary |-> TRUE]>>
Packetize(s, chunk) ==
    LET ts   == UsToRtp(chunk.us)
        keep == IF Redundancy > 1 THEN Redundancy ELSE 1
    IN  [st   |-> [seq |-> NextSeq(s.seq), sentFirst |-> TRUE,
                   history |-> Newest(Append(s.history, [ts |-> ts, data |-> chunk.data]), keep)],
         pkts |-> <<MakePacket(s.seq, [blocks |-> Blocks(s, chunk.data, ts)], ts, ~s.sentFirst)>>]

-----------------------------------------------------------------------------
(* The field _seen, as the sequence of its keys.                           *)
Depacketizer == <<>>

(* The order of the output: a signed difference of timestamps.             *)
Earlier(a, b) == (b.ts - a.ts) % TsMod \in 1 .. TsMod \div 2
InOrder(s) == SortSeq(s, Earlier)

Unseen(d, pkt) ==
    LET at(b) == (pkt.ts - b.off) % TsMod
        new   == SelectSeq(pkt.payload.blocks, LAMBDA b : at(b) \notin Range(d))
    IN  InOrder([j \in DOMAIN new |-> [data |-> new[j].data, ts |-> at(new[j]),
                                       recovered |-> ~new[j].primary]])

Depacketize(d, pkt, open) ==
    IF ~open \/ pkt.payload = NoPayload THEN Keep(d)
    ELSE IF pkt.payload.blocks = <<>> THEN Refuse(d)
    ELSE LET new == Unseen(d, pkt)
         IN  Emit(Newest(d \o [j \in DOMAIN new |-> new[j].ts], HistorySize), new)
=============================================================================
