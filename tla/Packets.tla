------------------------------- MODULE Packets -------------------------------
(***************************************************************************)
(* Reading a WSJT-X datagram (wsjtx/protocol.py).  A datagram is a header  *)
(* and the fields of its type, of which at most one has an odd value, cut  *)
(* after any byte.  Values are only what the reader tells apart; a text    *)
(* that is neither empty nor null is one byte long.                        *)
(*                                                                         *)
(* A Decode says the time of day only; its date comes from the time of     *)
(* receipt.  Time is in ticks, Day of them a day.                          *)
(***************************************************************************)
EXTENDS Integers, Sequences

CONSTANT Day   \* ticks of a day

ASSUME PacketsAssumption == Day \in Nat \ {0} /\ Day % 2 = 0

VARIABLES packet,  \* the datagram: its type, its odd field, the bytes that came, the time of
                   \* day that it says and when it was received
          parsed   \* what parse_packet makes of it, <<>>: not yet

packetVars == <<packet, parsed>>

-----------------------------------------------------------------------------
\* The bytes of a field with the value.
Size(kind, value) ==
    CASE kind \in {"u8", "bool"}         -> 1
      [] kind \in {"u32", "i32", "time", "type"} -> 4
      [] kind \in {"u64", "f64"}         -> 8
      [] kind = "text" -> IF value \in {"null", "empty"} THEN 4 ELSE 5

\* The values that a field can have besides the usual one.
Odd(kind) ==
    CASE kind = "type"                -> {}
      [] kind = "bool"                -> {"invalid"}
      [] kind \in {"u8", "u32", "i32"} -> {"greatest"}
      [] kind = "u64"                 -> {"zero", "greatest"}
      [] kind = "f64"                 -> {"not finite"}
      [] kind = "time"                -> {"next day"}
      [] kind = "text"                -> {"null", "empty", "invalid", "too long"}

\* The fields of each type, in the order in which they are read; a field that is
\* not required can be missing at the end.
Must(name, kind) == [name |-> name, kind |-> kind, required |-> TRUE]

Can(name, kind) == [name |-> name, kind |-> kind, required |-> FALSE]

Layout ==
    [heartbeat |-> <<Can("max_schema", "u32"), Can("version", "text"), Can("revision", "text")>>,
     status |-> <<
        Must("dial_frequency_hz", "u64"), Must("mode", "text"), Can("dx_call", "text"),
        Can("report", "text"), Can("tx_mode", "text"), Can("tx_enabled", "bool"),
        Can("transmitting", "bool"), Can("decoding", "bool"), Can("rx_df", "u32"),
        Can("tx_df", "u32"), Can("de_call", "text"), Can("de_grid", "text"),
        Can("dx_grid", "text"), Can("tx_watchdog", "bool"), Can("sub_mode", "text"),
        Can("fast_mode", "bool"), Can("special_op_mode", "u8"),
        Can("frequency_tolerance", "u32"), Can("tr_period", "u32"),
        Can("configuration_name", "text"), Can("tx_message", "text")>>,
     decode |-> <<
        Must("is_new", "bool"), Must("time_ms", "time"), Must("snr", "i32"), Must("dt", "f64"),
        Must("df", "u32"), Must("mode", "text"), Must("message", "text"),
        Can("low_confidence", "bool"), Can("off_air", "bool")>>,
     clear |-> <<Can("window", "u8")>>,
     close |-> <<>>,
     unknown |-> <<>>]

Types == DOMAIN Layout

\* Magic, schema, type and the instance id, which is one byte long.
Header == <<Must("magic", "u32"), Must("schema", "u32"), Must("type", "type"), Must("id", "text")>>

Fields(type) == Header \o Layout[type]

\* The fields that the encoders of the simulator and the tests write.
Written == [heartbeat |-> 3, status |-> 16, decode |-> 9, clear |-> 0, close |-> 0]

Value(p, i) == IF i = p.odd THEN p.value ELSE "usual"

\* Where each field begins, and where the last one ends.
Begin(p) ==
    LET begin[i \in 1..Len(Fields(p.type)) + 1] ==
            IF i = 1 THEN 0 ELSE begin[i - 1] + Size(Fields(p.type)[i - 1].kind, Value(p, i - 1))
    IN begin

End(p) == Begin(p)[Len(Fields(p.type)) + 1]

-----------------------------------------------------------------------------
\* _qtime_to_datetime: the day of the receipt, or the one before or after it.
Dated(received, time) ==
    LET today == (received \div Day) * Day + time
    IN IF today - received > Day \div 2 THEN today - Day
       ELSE IF today - received < -(Day \div 2) THEN today + Day
       ELSE today

\* What the reader and parse_packet refuse in a field that is there.
Refused(f, value) ==
    \/ value \in {"invalid", "not finite", "too long", "next day"}
    \/ value = "greatest" /\ f.name \in {"magic", "schema", "dial_frequency_hz"}
    \/ f.required /\ value \in {"null", "empty"}

\* (mutant) What is cut is taken for missing.
MissingWhenCut(f, left) == ~f.required /\ left < Size(f.kind, "usual")

\* reader.remaining
Missing(f, left) == ~f.required /\ left = 0

\* A dial frequency of zero is none.
FieldValue(f, value) == IF f.name = "dial_frequency_hz" /\ value = "zero" THEN "missing" ELSE value

\* _Reader.take
Taken(r, f, value) == r.at + Size(f.kind, value)

Short(left, size) == left < size

\* The reader after the field i: the bytes it took, what it got, or an error.
Read(p, r, i) ==
    LET f     == Fields(p.type)[i]
        value == Value(p, i)
        left  == p.length - r.at
    IN IF r.bad THEN r
       ELSE IF Missing(f, left) THEN [r EXCEPT !.got = Append(@, "missing")]
       ELSE IF Short(left, Size(f.kind, value)) \/ Refused(f, value) THEN [r EXCEPT !.bad = TRUE]
       ELSE [r EXCEPT !.at = Taken(r, f, value), !.got = Append(@, FieldValue(f, value))]

Unread == [at |-> 0, got |-> <<>>, bad |-> FALSE]

\* parse_packet; an error is raised if the reader is bad.
ParsePacket(p) ==
    LET n == Len(Fields(p.type))
        reader[i \in 0..n] == IF i = 0 THEN Unread ELSE Read(p, reader[i - 1], i)
    IN reader[n]

-----------------------------------------------------------------------------
\* A usual Decode comes whole, with any time; any other packet is cut anywhere.
PacketsInit ==
    /\ parsed = <<>>
    /\ \E t \in Types : \E i \in 0..Len(Fields(t)) :
       \E v \in IF i = 0 THEN {"usual"} ELSE Odd(Fields(t)[i].kind) :
       LET p == [type |-> t, odd |-> i, value |-> v, length |-> 0, time |-> 0, received |-> Day]
       IN \/ \E n \in 0..End(p) : packet = [p EXCEPT !.length = n]
          \/ /\ t = "decode" /\ i = 0
             /\ \E time \in 0..Day - 1, received \in Day..2 * Day - 1 :
                   packet = [p EXCEPT !.length = End(p), !.time = time, !.received = received]

Parse ==
    /\ parsed = <<>>
    /\ LET r == ParsePacket(packet)
       IN parsed' = <<[at |-> r.at, bad |-> r.bad, got |-> IF r.bad THEN <<>> ELSE r.got,
                       dated |-> Dated(packet.received, packet.time)]>>
    /\ UNCHANGED packet

PacketsNext == Parse

Done     == parsed # <<>>
Accepted == Done /\ ~parsed[1].bad

PacketsTypeOK ==
    /\ packet.length \in 0..End(packet)
    /\ Done => parsed[1].at \in 0..packet.length
    /\ Accepted => Len(parsed[1].got) = Len(Fields(packet.type))

-----------------------------------------------------------------------------
\* A datagram that was cut is refused, unless it ends after a whole field and has
\* all that are required; the encoders end theirs like that.
CutIsRefused ==
    LET fields == Fields(packet.type)
    IN Accepted => \E n \in 4..Len(fields) :
          /\ packet.length = Begin(packet)[n + 1]
          /\ \A i \in n + 1..Len(fields) : ~fields[i].required

\* What is accepted is what was sent, field by field, and no field has the value
\* of another; beyond the cut they are missing, and no dial frequency is zero.
NothingShifted ==
    Accepted => \A i \in 1..Len(parsed[1].got) :
        LET sent == Value(packet, i) IN
        parsed[1].got[i] =
            IF Begin(packet)[i] >= packet.length \/ (Fields(packet.type)[i].kind = "u64" /\ sent = "zero")
            THEN "missing" ELSE sent

\* What the encoders write is read, every field of it.
WrittenIsRead ==
    Done /\ packet.odd = 0 /\ packet.type \in DOMAIN Written
         /\ packet.length = Begin(packet)[Written[packet.type] + 5]
    => ~parsed[1].bad /\ parsed[1].at = packet.length

\* The date is that of the nearest moment with the time of day, also when it is
\* received on the other side of midnight.
NearestDay ==
    Accepted =>
        /\ parsed[1].dated % Day = packet.time
        /\ 2 * (parsed[1].dated - packet.received) \in -Day..Day

\* A datagram is read as what was sent or refused: no cut shifts a value into another
\* field, nothing that the encoders write is lost, and midnight changes no date.
ReadAsSent == CutIsRefused /\ NothingShifted /\ WrittenIsRead /\ NearestDay
=============================================================================
