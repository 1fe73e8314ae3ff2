----------------------------- MODULE UdpSenders -----------------------------
(***************************************************************************)
(* The receivers that the ingestor remembers (ingest.py, handle_datagram   *)
(* to _receiver_status).  A Decode does not carry the dial frequency; it   *)
(* is taken from the last Status of the same receiver, which is remembered *)
(* for a bounded number of receivers and forgotten when it may not hold    *)
(* any more: after a Close, from another address, or after 120 seconds.    *)
(*                                                                         *)
(* One worker handles the datagrams in the order of arrival (UdpService),  *)
(* each with the wall clock of its arrival, so that a datagram is handled  *)
(* in one step.                                                            *)
(***************************************************************************)
EXTENDS Naturals, Sequences, FiniteSets

CONSTANTS Receivers,    \* instance_ids that are not empty
          NoId,         \* the empty instance_id
          NoReceiver,   \* the instance_id of a ReceiverStatus that nobody sent
          Addresses,    \* where datagrams come from
          Nowhere,      \* not an address
          Dials,        \* dial frequencies of Status
          Unknown,      \* no dial frequency
          MaxSenders,   \* 64 receivers are remembered
          MaxAge,       \* 120 s, in ticks
          MaxTime       \* bound: the wall clock

ASSUME UdpSendersAssumption ==
    /\ NoId \notin Receivers /\ NoReceiver \notin Receivers \cup {NoId}
    /\ Unknown \notin Dials /\ Nowhere \notin Addresses
    /\ MaxSenders \in Nat \ {0} /\ MaxAge \in Nat /\ MaxTime \in Nat

VARIABLES statuses,   \* receiver_statuses, in the order of insertion
          addresses,  \* _sender_addresses, in the order of insertion
          current,    \* whose status receiver_status is
          wall,       \* the wall clock, which may be set
          said,       \* (history) the last Status of each receiver, until Close
          row         \* (history) what the step stored: a Decode and its dial frequency

rememberedVars == <<statuses, addresses, current>>
sendersVars == <<rememberedVars, wall, said, row>>

Ids     == Receivers \cup {NoId}
Never   == MaxTime + 1
Silence == [addr |-> Nowhere, dial |-> Unknown, at |-> Never]
NoRow   == [id |-> NoId, addr |-> Nowhere, dial |-> Unknown]

SendersTypeOK ==
    /\ statuses \in Seq([id : Ids, dial : Dials \cup {Unknown}, at : 0..Never])
    /\ addresses \in Seq([id : Receivers, addr : Addresses])
    /\ current \in Ids \cup {NoReceiver}
    /\ wall \in 0..MaxTime
    /\ said \in [Ids -> [addr : Addresses, dial : Dials, at : 0..MaxTime] \cup {Silence}]
    /\ row \in [id : Ids, addr : Addresses \cup {Nowhere}, dial : Dials \cup {Unknown}]

SendersInit ==
    /\ statuses = <<>> /\ addresses = <<>> /\ current = NoReceiver
    /\ wall \in 0..MaxTime
    /\ said = [id \in Ids |-> Silence]
    /\ row = NoRow

-----------------------------------------------------------------------------
\* Dictionaries, in the order of insertion.
Has(dict, id)      == \E i \in 1..Len(dict) : dict[i].id = id
Entry(dict, id)    == dict[CHOOSE i \in 1..Len(dict) : dict[i].id = id]
Others(dict, ids)  == {i \in 1..Len(dict) : dict[i].id \notin ids}
Nth(places, n)     == CHOOSE i \in places : Cardinality({j \in places : j <= i}) = n
Without(dict, ids) ==
    [n \in 1..Cardinality(Others(dict, ids)) |-> dict[Nth(Others(dict, ids), n)]]
Put(dict, entry)   ==
    IF Has(dict, entry.id)
    THEN [i \in 1..Len(dict) |-> IF dict[i].id = entry.id THEN entry ELSE dict[i]]
    ELSE Append(dict, entry)

\* (mutant) A receiver that sends from elsewhere is still the same.
MovedNever(id, addr) == {}

\* The receiver itself, where it sends from elsewhere than before.
Moved(id, addr) ==
    IF Has(addresses, id) /\ Entry(addresses, id).addr # addr THEN {id} ELSE {}

\* The oldest entry, where there is no room for another.
Oldest(dict, id) ==
    IF ~Has(dict, id) /\ Len(dict) >= MaxSenders THEN {Head(dict).id} ELSE {}

\* A status too old, or from the future of a clock that was set back.
Stale(id) ==
    /\ Has(statuses, id)
    /\ LET at == Entry(statuses, id).at IN
       at # Never /\ (wall < at \/ wall > at + MaxAge)

\* (mutant) _forget_status leaves receiver_status as it is.
KeepCurrent(ids) == current

\* _forget_status: receiver_status is nobody's when its receiver is forgotten.
CurrentWithout(ids) == IF current \in ids THEN NoReceiver ELSE current

\* What handle_datagram forgets before the message is handled.
Displaced(id, addr) ==
    IF id = NoId THEN {}
    ELSE Moved(id, addr) \cup Oldest(Without(addresses, Moved(id, addr)), id)

\* ... and what it remembers of the sender.
Heard(id, addr, forgotten) ==
    addresses' = IF id = NoId THEN Without(addresses, forgotten)
                 ELSE Put(Without(addresses, forgotten), [id |-> id, addr |-> addr])

-----------------------------------------------------------------------------
\* _receiver_status, for a message that may be the receiver's first: room is
\* made, and the sender of this very message keeps its address.
Remembered(id, addr, status) ==
    LET displaced == Displaced(id, addr)
        room      == Oldest(Without(statuses, displaced), id)
        left      == Without(statuses, displaced \cup room)
    IN /\ statuses' = IF status.at = Never /\ Has(left, id) THEN left ELSE Put(left, status)
       /\ Heard(id, addr, displaced \cup room)
       /\ current' = id

\* A heartbeat makes the receiver known, without a status.
Heartbeat(id, addr) ==
    /\ IF id = NoId THEN UNCHANGED rememberedVars
       ELSE Remembered(id, addr, [id |-> id, dial |-> Unknown, at |-> Never])
    /\ row' = NoRow
    /\ UNCHANGED <<wall, said>>

\* _apply_status
Status(id, addr, dial) ==
    /\ Remembered(id, addr, [id |-> id, dial |-> dial, at |-> wall])
    /\ said' = [said EXCEPT ![id] = [addr |-> addr, dial |-> dial, at |-> wall]]
    /\ row' = NoRow
    /\ UNCHANGED wall

\* A Close forgets the receiver.
CloseMessage(id, addr) ==
    /\ LET forgotten == Displaced(id, addr) \cup {id} IN
       /\ statuses' = Without(statuses, forgotten)
       /\ addresses' = Without(addresses, forgotten)
       /\ current' = CurrentWithout(forgotten)
    /\ said' = [said EXCEPT ![id] = Silence]
    /\ row' = NoRow
    /\ UNCHANGED wall

\* A Decode of the live signal gets the dial frequency of a status that holds;
\* one that does not hold is forgotten.
Decode(id, addr) ==
    /\ LET displaced == Displaced(id, addr)
           stale     == id \notin displaced /\ Stale(id)
           forgotten == displaced \cup (IF stale THEN {id} ELSE {})
           left      == Without(statuses, forgotten)
       IN /\ statuses' = left
          /\ IF stale THEN addresses' = Without(addresses, forgotten)
                      ELSE Heard(id, addr, displaced)
          /\ current' = CurrentWithout(forgotten)
          /\ row' = [id |-> id, addr |-> addr,
                     dial |-> IF Has(left, id) THEN Entry(left, id).dial ELSE Unknown]
    /\ UNCHANGED <<wall, said>>

\* Clear, or a Decode played back or off the air: only the sender is noted.
OtherMessage(id, addr) ==
    /\ LET displaced == Displaced(id, addr) IN
       /\ statuses' = Without(statuses, displaced)
       /\ Heard(id, addr, displaced)
       /\ current' = CurrentWithout(displaced)
    /\ row' = NoRow
    /\ UNCHANGED <<wall, said>>

\* Time passes, or the clock is set.
SetClock == wall' \in 0..MaxTime /\ row' = NoRow /\ UNCHANGED <<rememberedVars, said>>

SendersNext ==
    \/ \E id \in Ids, addr \in Addresses :
          \/ Heartbeat(id, addr) \/ CloseMessage(id, addr)
          \/ Decode(id, addr) \/ OtherMessage(id, addr)
          \/ \E dial \in Dials : Status(id, addr, dial)
    \/ SetClock

SendersSpec == SendersInit /\ [][SendersNext]_sendersVars

-----------------------------------------------------------------------------
\* A Decode gets the dial frequency of the last Status of its receiver, sent
\* from the same address at most 120 s before by the wall clock, or none: never
\* that of another receiver, of one that has closed, or of one since replaced.
DialFromItsReceiver ==
    [][(row'.id # NoId /\ row'.dial # Unknown) =>
          LET last == said[row'.id] IN
          /\ last.addr = row'.addr
          /\ last.dial = row'.dial
          /\ last.at <= wall /\ wall <= last.at + MaxAge]_sendersVars

\* However many identifiers arrive, 64 are remembered.
SendersBounded == Len(statuses) <= MaxSenders /\ Len(addresses) <= MaxSenders

\* The status that is shown is one that is remembered, and a status that is
\* remembered has the address that would reveal another sender of its name.
CurrentIsRemembered ==
    /\ current # NoReceiver => Has(statuses, current)
    /\ \A id \in Receivers : Has(statuses, id) => Has(addresses, id)

\* The two tables stay bounded and consistent with each other and with the status that
\* is shown, whichever of them gives up an entry first.
SendersConsistent == SendersBounded /\ CurrentIsRemembered
=============================================================================
