---------------------------- MODULE MCPayloadPath ----------------------------
(* A few frames of each codec: key and delta, one packet and several, one  *)
(* that just fits the MTU of six octets and one that does not.             *)
EXTENDS PayloadPath

Frame(size, key, tid, step) == [size |-> size, key |-> key, tid |-> tid, step |-> step]
Audio3 == [size : {1}, marker : {TRUE}, step : {1}] \cup [size : {3}, marker : {FALSE}, step : {2, 3}]
Unit(type, size) == [type |-> type, size |-> size]
Access(stap, nalus, framing) == [stap |-> stap, nalus |-> nalus, framing |-> framing, step |-> 1]

MCShapes == [
    vp8    |-> {Frame(5, TRUE, 0, 1), Frame(6, FALSE, 0, 2), Frame(11, FALSE, 0, 1)},
    vp8pid |-> {Frame(2, FALSE, 0, 1), Frame(3, TRUE, 0, 1), Frame(5, FALSE, 0, 1)},
    vp8svc |-> {Frame(3, TRUE, 0, 1), Frame(4, FALSE, 1, 1)},
    vp9    |-> {Frame(3, TRUE, 0, 1), Frame(4, FALSE, 0, 1), Frame(7, TRUE, 0, 1)},
    vp9svc |-> {Frame(3, TRUE, 0, 1), Frame(4, FALSE, 1, 1)},
    av1    |-> {Frame(5, TRUE, 0, 1), Frame(6, FALSE, 0, 1), Frame(11, TRUE, 0, 1)},
    h264   |-> {Access(<<Unit(7, 1), Unit(8, 1)>>, <<Unit(5, 9)>>, "none"),
                Access(<<>>, <<Unit(1, 5)>>, "annexb3"), Access(<<>>, <<Unit(1, 6), Unit(1, 2)>>, "annexb"),
                Access(<<>>, <<Unit(1, 7), Unit(1, 2)>>, "avcc")},
    h265   |-> {Access(<<Unit(32, 1), Unit(33, 1)>>, <<Unit(19, 7)>>, "annexb"),
                Access(<<>>, <<Unit(1, 6), Unit(1, 1)>>, "avcc")},
    aac    |-> {[aus |-> <<n>>, step |-> 1] : n \in {0, 2, 3, 5, 7}} \cup {[aus |-> <<2, 3>>, step |-> 4]},
    opus   |-> Audio3,
    g711   |-> [size : {6}, marker : {TRUE}, step : {4}] \cup [size : {7, 13}, marker : {FALSE}, step : {6}],
    g722   |-> [size : {6}, marker : {FALSE}, step : {4}] \cup [size : {13}, marker : {TRUE}, step : {9}],
    red    |-> {[size |-> 3, marker |-> FALSE, step |-> 1], [size |-> 4, marker |-> FALSE, step |-> 2]},
    dtmf   |-> [tone : {1, 11}, updates : {1}, delta : {2}, step : {3}]
                 \cup {[tone |-> 1, updates |-> 2, delta |-> 3, step |-> 6]},
    flexfec |-> [step : {1}, len : {{0}}, last : {FALSE}] \cup {[step |-> 2, len |-> {0, 1}, last |-> TRUE]}]

(* Access units whose first length is more than 255 and less than 512, in  *)
(* octets of two bits.                                                     *)
MCAvccShapes == [h264 |-> {Access(<<>>, <<Unit(1, n)>>, "avcc") : n \in {2, 4}}]

MCMaxFrames ==
    [c \in DOMAIN MCShapes |-> CASE c = "red" -> 6 [] c = "flexfec" -> 4
                                 [] c \in {"g711", "g722", "dtmf"} -> 2 [] OTHER -> 3]
MCMaxReorder ==
    [c \in DOMAIN MCShapes |-> IF c \in {"opus", "g711", "g722", "red", "flexfec", "dtmf"} THEN 1 ELSE 0]
MCMaxLost == [c \in DOMAIN MCShapes |-> IF c \in {"red", "flexfec"} THEN 2 ELSE 4]
MCMaxDups == [c \in DOMAIN MCShapes |-> IF c \in {"opus", "g711", "flexfec", "dtmf"} THEN 1 ELSE 0]
=============================================================================
