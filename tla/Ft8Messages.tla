----------------------------- MODULE Ft8Messages -----------------------------
(***************************************************************************)
(* What a message of FT8 says: who transmits, who is called and where the  *)
(* transmitter is (ft8/message.py, ft8/callsign.py).  A message is a few   *)
(* tokens; a token is of a class that the regular expressions tell apart.  *)
(***************************************************************************)
EXTENDS Naturals, Sequences, FiniteSets

CONSTANTS Callsigns,  \* tokens that look like a callsign
          Locators,   \* tokens that look like a grid: two letters, two digits
          None,
          MaxTokens   \* bound: tokens of a message

VARIABLES message,  \* the tokens
          reading   \* what parse_ft8_message makes of them, <<>>: not yet

messageVars == <<message, reading>>

Hidden  == "<...>"
Words   == {"CQ", "DX", "POTA", "JA", "RR73", "RRR", "73", "-10", "R-10", "599", "garbled"}
Tokens  == Callsigns \cup Locators \cup {Hidden} \cup Words

\* A token has one class: looks_like_callsign refuses grids, <...> and the words.
ASSUME MessagesAssumption ==
    /\ MaxTokens \in Nat
    /\ Callsigns \cap (Locators \cup {Hidden} \cup Words) = {}
    /\ Hidden \notin Locators

-----------------------------------------------------------------------------
\* looks_like_callsign, and the token that hides one
CallLike(token) == token \in Callsigns \cup {Hidden}

\* _call_or_none
CallOrNone(token) == IF token \in Callsigns THEN token ELSE None

\* (mutant) The sign-off has the form of a grid.
GridLikeByForm(token) == token \in Locators \cup {"RR73"}

\* is_grid_like
GridLike(token) == token \in Locators

\* The token after CQ that is not a callsign: letters, digits, or four of both.
Directive(token) == token \in Locators \cup {"CQ", "DX", "POTA", "JA", "RR73", "RRR", "73", "599"}

\* The transmitter and the grid after it, in what follows CQ and its directive.
Parsed(type, tx, rx, grid) == [type |-> type, tx |-> tx, rx |-> rx, grid |-> grid]

RestOfCq(rest) == IF rest # <<>> /\ ~CallLike(rest[1]) /\ Directive(rest[1]) THEN Tail(rest) ELSE rest

CqType(rest) ==
    IF RestOfCq(rest) = rest THEN "cq"
    ELSE CASE rest[1] = "DX"   -> "cq_dx"
           [] rest[1] = "POTA" -> "cq_pota"
           [] OTHER            -> "cq_directed"

\* _parse_cq
ParseCq(tokens) ==
    LET rest == RestOfCq(Tail(tokens))
    IN Parsed(CqType(Tail(tokens)),
              IF rest # <<>> THEN CallOrNone(rest[1]) ELSE None,
              None,
              IF Len(rest) >= 2 /\ GridLike(rest[2]) THEN rest[2] ELSE None)

\* _parse_exchange: the type and the grid of what follows the two callsigns.
ExchangeType(rest) ==
    IF rest = <<>> \/ GridLike(rest[1]) THEN "grid_exchange"
    ELSE CASE rest[1] = "RR73" -> "rr73"
           [] rest[1] = "RRR"  -> "rrr"
           [] rest[1] = "73"   -> "73"
           [] rest[1] = "-10"  -> "report"
           [] rest[1] = "R-10" -> "r_report"
           [] rest[1] = "599"  -> "contest"
           [] OTHER            -> "unknown"

ExchangeGrid(rest) ==
    IF rest # <<>> /\ GridLike(rest[1]) THEN rest[1]
    ELSE IF ExchangeType(rest) = "contest" /\ Len(rest) > 1 /\ GridLike(rest[2]) THEN rest[2]
    ELSE None

\* (mutant) The transmitter comes first.
ParseExchangeSwapped(tokens) ==
    LET rest == SubSeq(tokens, 3, Len(tokens))
    IN Parsed(ExchangeType(rest), CallOrNone(tokens[1]), CallOrNone(tokens[2]), ExchangeGrid(rest))

ParseExchange(tokens) ==
    LET rest == SubSeq(tokens, 3, Len(tokens))
    IN Parsed(ExchangeType(rest), CallOrNone(tokens[2]), CallOrNone(tokens[1]), ExchangeGrid(rest))

\* Anything else: free text with one callsign in it.
ParseFree(tokens) ==
    LET calls == {i \in 1..Len(tokens) : CallLike(tokens[i])}
    IN IF Cardinality(calls) = 1
       THEN Parsed("free_text", CallOrNone(tokens[CHOOSE i \in calls : TRUE]), None, None)
       ELSE Parsed("unknown", None, None, None)

\* _parse
ParseMessage(tokens) ==
    IF tokens = <<>> THEN Parsed("unknown", None, None, None)
    ELSE IF tokens[1] = "CQ" THEN ParseCq(tokens)
    ELSE IF Len(tokens) >= 2 /\ CallLike(tokens[1]) /\ CallLike(tokens[2]) THEN ParseExchange(tokens)
    ELSE ParseFree(tokens)

-----------------------------------------------------------------------------
MessagesInit ==
    /\ \E n \in 0..MaxTokens : message \in [1..n -> Tokens]
    /\ reading = <<>>

ReadMessage ==
    /\ reading = <<>> /\ reading' = <<ParseMessage(message)>>
    /\ UNCHANGED message

MessagesNext == ReadMessage

MessagesTypeOK ==
    reading # <<>> =>
        /\ {reading[1].tx, reading[1].rx} \subseteq Callsigns \cup {None}
        /\ reading[1].grid \in Locators \cup {None}

At(token) == {i \in 1..Len(message) : message[i] = token}

-----------------------------------------------------------------------------
\* A grid is said by the station that transmits: it comes after its callsign, and
\* no other callsign between them.
GridOfTransmitter ==
    reading # <<>> /\ reading[1].grid # None /\ reading[1].tx # None =>
        \E i \in At(reading[1].tx), j \in At(reading[1].grid) :
            i < j /\ \A k \in i + 1..j - 1 : ~CallLike(message[k])

\* The transmitter is heard, not the station it calls: whoever is called comes
\* first, nobody is by a CQ, and a CQ is not made by its directive.
TransmitterHeard ==
    reading # <<>> =>
        /\ reading[1].rx # None => message[1] = reading[1].rx /\ reading[1].tx \in {CallOrNone(message[2])}
        /\ message # <<>> /\ message[1] = "CQ" =>
              /\ reading[1].rx = None
              /\ \A i \in 2..Len(message) :
                    (message[i] \in Callsigns /\ i = 2) \/
                    (i = 3 /\ message[i] \in Callsigns /\ Directive(message[2]))
                        => reading[1].tx = message[i]

\* What a message says is said of the right station: the call that is stored is the
\* transmitter's, and so is the grid.
SaidByTransmitter == GridOfTransmitter /\ TransmitterHeard
=============================================================================
