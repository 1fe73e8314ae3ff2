---------------------------- MODULE NetworkDedupe ----------------------------
(***************************************************************************)
(* Retransmitted Decodes (wsjtx/dedupe.py, NetworkDedupe, as ingest_raw of *)
(* ingest.py uses it): a Decode that repeats one stored a moment ago is    *)
(* suppressed.  The keys seen are in a deque, with the time of arrival, to *)
(* expire them, and in a set, to look them up.                             *)
(*                                                                         *)
(* One worker handles the Decodes in the order of arrival (UdpService),    *)
(* each with the monotonic clock of its arrival, so that a Decode is       *)
(* handled in one step.  A key is what _key tells apart: the fingerprint   *)
(* without the dial frequency.                                             *)
(***************************************************************************)
EXTENDS Naturals, Sequences

CONSTANTS Keys,
          Window,      \* dedupe.window_seconds, in ticks
          MaxClock,     \* bound: the clock
          MaxDecodes   \* bound: Decodes that arrive

ASSUME NetworkDedupeAssumption ==
    Window \in Nat /\ MaxClock \in Nat /\ MaxDecodes \in Nat

VARIABLES seen,     \* _seen: times and keys, the oldest first
          keys,     \* _keys
          now,      \* the monotonic clock
          decodes   \* (history) every Decode and what became of it

dedupeVars == <<seen, keys, now, decodes>>

DedupeTypeOK ==
    /\ seen \in Seq([at : 0..MaxClock, key : Keys])
    /\ keys \subseteq Keys
    /\ now \in 0..MaxClock
    /\ decodes \in Seq([key : Keys, at : 0..MaxClock,
                        result : {"stored", "failed", "suppressed"}])

DedupeInit == seen = <<>> /\ keys = {} /\ now = 0 /\ decodes = <<>>

\* (mutant) A Decode of exactly the window's age is expired too.
ExpiredAtEdge(entry) == entry.at + Window <= now

\* The entry has left the window.
Expired(entry) == entry.at + Window < now

\* _expire: entries go from the left up to the first one in the window.
Expire ==
    CHOOSE n \in 0..Len(seen) :
        /\ \A i \in 1..n : Expired(seen[i])
        /\ n < Len(seen) => ~Expired(seen[n + 1])

Kept     == SubSeq(seen, Expire + 1, Len(seen))
KeptKeys == keys \ {seen[i].key : i \in 1..Expire}

\* (mutant) A Decode is remembered although it was not stored.
RememberUnstored(key, stored) ==
    /\ seen' = Append(Kept, [at |-> now, key |-> key])
    /\ keys' = KeptKeys \cup {key}

\* remember, of a Decode that was stored.
Remember(key, stored) ==
    IF stored
    THEN /\ seen' = Append(Kept, [at |-> now, key |-> key])
         /\ keys' = KeptKeys \cup {key}
    ELSE seen' = Kept /\ keys' = KeptKeys

Record(key, result) ==
    decodes' = Append(decodes, [key |-> key, at |-> now, result |-> result])

\* ingest_raw: a repetition is suppressed; another Decode gets a row, after up to
\* three attempts, or none.  Looking up and remembering both expire first.
IngestOnce(key) ==
    /\ Len(decodes) < MaxDecodes
    /\ \/ /\ key \in KeptKeys
          /\ seen' = Kept /\ keys' = KeptKeys
          /\ Record(key, "suppressed")
       \/ /\ key \notin KeptKeys
          /\ \E stored \in BOOLEAN :
                /\ Remember(key, stored)
                /\ Record(key, IF stored THEN "stored" ELSE "failed")
    /\ UNCHANGED now

Tick == now < MaxClock /\ now' = now + 1 /\ UNCHANGED <<seen, keys, decodes>>

DedupeNext == Tick \/ \E key \in Keys : IngestOnce(key)

DedupeSpec == DedupeInit /\ [][DedupeNext]_dedupeVars

-----------------------------------------------------------------------------
Rows == {i \in 1..Len(decodes) : decodes[i].result = "stored"}

\* Rows of one Decode lie more than the window apart: a retransmission inside
\* the window never has a row of its own.
OneRowInWindow ==
    \A i, j \in Rows :
        i < j /\ decodes[i].key = decodes[j].key => decodes[j].at > decodes[i].at + Window

\* A Decode is suppressed for a row that is there, at most the window before: a
\* failed store never hides the retransmission that could still be stored, and
\* suppressed ones do not prolong the window.
SuppressedForRow ==
    \A j \in 1..Len(decodes) : decodes[j].result = "suppressed" =>
        \E i \in Rows : /\ i < j
                        /\ decodes[i].key = decodes[j].key
                        /\ decodes[j].at <= decodes[i].at + Window

\* The deque and the set hold the same keys, each once and in the order of time,
\* so that expiring from the left leaves nothing behind.
DedupeConsistent ==
    /\ keys = {seen[i].key : i \in 1..Len(seen)}
    /\ \A i, j \in 1..Len(seen) :
          i < j => seen[i].key # seen[j].key /\ seen[i].at <= seen[j].at
=============================================================================
