---------------------------- MODULE IngestProofs ----------------------------
(***************************************************************************)
(* Proofs about what happens to a datagram on its way to a row: it is read *)
(* as it was sent (Packets), of the repetitions inside a window one is     *)
(* stored (NetworkDedupe), a row has the dial frequency of its own         *)
(* receiver (UdpSenders), the summaries of its station are those of the    *)
(* rows (Stations), its call and its grid are of the station that          *)
(* transmitted (Ft8Messages), and its country is by the rule that says     *)
(* most of the part that decides (CountryLookup).  The parts share no      *)
(* state; at the end what holds of each, and of the pages and the report   *)
(* (ReportProofs), is put together for the specification of MCIngest.      *)
(***************************************************************************)
EXTENDS MCIngest, ReportProofs

-----------------------------------------------------------------------------
(***************************************************************************)
(* The suppression of repetitions.                                         *)
(***************************************************************************)
DedupeEntry == [at : 0..MaxClock, key : Keys]
DedupeFate  == [key : Keys, at : 0..MaxClock, result : {"stored", "failed", "suppressed"}]

\* Every row of the window is remembered, and only rows are.
RowsRemembered ==
    \A i \in Rows : decodes[i].at + Window >= now =>
        \E n \in 1..Len(seen) : seen[n].key = decodes[i].key /\ seen[n].at = decodes[i].at

OnlyRowsRemembered ==
    \A n \in 1..Len(seen) : \E i \in Rows :
        decodes[i].key = seen[n].key /\ decodes[i].at = seen[n].at

\* Nothing comes from the future of the monotonic clock.
ClockAhead ==
    /\ \A n \in 1..Len(seen) : seen[n].at <= now
    /\ \A i \in 1..Len(decodes) : decodes[i].at <= now

DedupeInv ==
    /\ DedupeTypeOK /\ DedupeConsistent /\ ClockAhead
    /\ RowsRemembered /\ OnlyRowsRemembered
    /\ OneRowInWindow /\ SuppressedForRow

\* Entries go from the left as long as they have left the window: as they are in the
\* order of time, all that have left it go, and no other.
LEMMA ExpireTakesTheExpired ==
    ASSUME DedupeInv
    PROVE  /\ Expire \in 0..Len(seen)
           /\ \A i \in 1..Len(seen) : i <= Expire <=> Expired(seen[i])
<1> DEFINE Stops == {n \in 0..Len(seen) : n < Len(seen) => ~Expired(seen[n + 1])}
<1>1. seen \in Seq(DedupeEntry) /\ Len(seen) \in Nat /\ now \in Nat /\ Window \in Nat
    BY NetworkDedupeAssumption DEF DedupeInv, DedupeTypeOK, DedupeEntry
<1>2. \A i \in 1..Len(seen) : seen[i].at \in Nat
    <2>1. \A i \in 1..Len(seen) : seen[i] \in DedupeEntry
        BY <1>1, ElementOfSeq
    <2> QED BY <2>1 DEF DedupeEntry
<1>3. Stops \subseteq Nat /\ Len(seen) \in Stops
    BY <1>1
<1>4. PICK n \in Stops : \A m \in Stops : n <= m
    <2> HIDE DEF Stops
    <2> QED BY <1>3, LeastNumber
<1>5. n \in 0..Len(seen) /\ (n < Len(seen) => ~Expired(seen[n + 1]))
    OBVIOUS
<1>6. \A i \in 1..n : Expired(seen[i])
    <2> SUFFICES ASSUME NEW i \in 1..n, ~Expired(seen[i]) PROVE FALSE
        OBVIOUS
    <2>1. i - 1 \in 0..Len(seen) /\ (i - 1) + 1 = i /\ i - 1 < n
        BY <1>1, <1>5
    <2>2. i - 1 \in Stops
        BY <2>1
    <2> QED BY <1>4, <2>1, <2>2
<1>7. /\ Expire \in 0..Len(seen)
      /\ \A i \in 1..Expire : Expired(seen[i])
      /\ Expire < Len(seen) => ~Expired(seen[Expire + 1])
    BY <1>5, <1>6 DEF Expire
<1>8. ASSUME NEW i \in 1..Len(seen), i > Expire PROVE ~Expired(seen[i])
    <2>1. Expire + 1 \in 1..Len(seen) /\ Expire + 1 <= i /\ ~Expired(seen[Expire + 1])
        BY <1>1, <1>7, <1>8
    <2>2. seen[Expire + 1].at <= seen[i].at
        <3>1. CASE Expire + 1 = i
            BY <3>1, <1>2, <2>1
        <3>2. CASE Expire + 1 < i
            BY <3>2, <2>1 DEF DedupeInv, DedupeConsistent
        <3> QED BY <3>1, <3>2, <2>1, <1>7
    <2> QED BY <1>1, <1>2, <2>1, <2>2 DEF Expired
<1> QED BY <1>1, <1>7, <1>8

\* What is kept are the entries of the window.
LEMMA KeptIsTheWindow ==
    ASSUME DedupeInv
    PROVE  /\ Kept \in Seq(DedupeEntry)
           /\ Len(Kept) = Len(seen) - Expire
           /\ \A i \in 1..Len(Kept) : i + Expire \in 1..Len(seen) /\ Kept[i] = seen[i + Expire]
           /\ \A n \in 1..Len(seen) :
                 ~Expired(seen[n]) => n - Expire \in 1..Len(Kept) /\ Kept[n - Expire] = seen[n]
           /\ KeptKeys = {Kept[i].key : i \in 1..Len(Kept)}
<1>1. seen \in Seq(DedupeEntry) /\ Len(seen) \in Nat
    BY DEF DedupeInv, DedupeTypeOK, DedupeEntry
<1>2. Expire \in 0..Len(seen) /\ \A i \in 1..Len(seen) : i <= Expire <=> Expired(seen[i])
    BY ExpireTakesTheExpired
<1>3. /\ Kept \in Seq(DedupeEntry)
      /\ Len(Kept) = Len(seen) - Expire
      /\ \A i \in 1..Len(Kept) : Kept[i] = seen[i + Expire]
    <2>1. Expire + 1 \in 1..Len(seen) + 1 /\ Len(seen) \in Expire..Len(seen)
        BY <1>1, <1>2
    <2>2. \A i \in 1..Len(seen) - Expire : seen[(Expire + 1) + i - 1] = seen[i + Expire]
        BY <1>1, <1>2
    <2> HIDE DEF DedupeEntry
    <2> QED BY <1>1, <1>2, <2>1, <2>2, SubSeqProperties DEF Kept
<1>4. \A i \in 1..Len(Kept) : i + Expire \in 1..Len(seen)
    BY <1>1, <1>2, <1>3
<1>5. ASSUME NEW n \in 1..Len(seen), ~Expired(seen[n])
      PROVE  n - Expire \in 1..Len(Kept) /\ Kept[n - Expire] = seen[n]
    <2>1. n > Expire /\ n - Expire \in 1..Len(Kept) /\ (n - Expire) + Expire = n
        BY <1>1, <1>2, <1>3, <1>5
    <2> QED BY <2>1, <1>3
<1>6. KeptKeys = {Kept[i].key : i \in 1..Len(Kept)}
    <2>1. keys = {seen[i].key : i \in 1..Len(seen)}
        BY DEF DedupeInv, DedupeConsistent
    <2>2. ASSUME NEW key \in KeptKeys PROVE key \in {Kept[i].key : i \in 1..Len(Kept)}
        <3>1. PICK n \in 1..Len(seen) : seen[n].key = key /\ n \notin 1..Expire
            BY <2>1 DEF KeptKeys
        <3>2. ~Expired(seen[n])
            BY <1>1, <1>2, <3>1
        <3> QED BY <3>1, <3>2, <1>5
    <2>3. ASSUME NEW i \in 1..Len(Kept) PROVE Kept[i].key \in KeptKeys
        <3>1. i + Expire \in 1..Len(seen) /\ Kept[i] = seen[i + Expire]
            BY <1>3, <1>4
        <3>2. \A n \in 1..Expire : n \in 1..Len(seen) /\ n < i + Expire
            BY <1>1, <1>2, <1>3
        <3>3. \A n \in 1..Expire : seen[n].key # seen[i + Expire].key
            BY <3>1, <3>2 DEF DedupeInv, DedupeConsistent
        <3> QED BY <2>1, <3>1, <3>3 DEF KeptKeys
    <2> QED BY <2>2, <2>3
<1> QED BY <1>3, <1>4, <1>5, <1>6

LEMMA WindowOfRows ==
    ASSUME DedupeInv
    PROVE  /\ \A i \in Rows : decodes[i].at + Window >= now =>
                \E n \in 1..Len(Kept) : Kept[n].key = decodes[i].key /\ Kept[n].at = decodes[i].at
           /\ \A n \in 1..Len(Kept) : \E i \in Rows :
                /\ decodes[i].key = Kept[n].key /\ decodes[i].at = Kept[n].at
                /\ decodes[i].at + Window >= now
           /\ \A i, j \in 1..Len(Kept) :
                i < j => Kept[i].key # Kept[j].key /\ Kept[i].at <= Kept[j].at
           /\ \A n \in 1..Len(Kept) : Kept[n].at <= now
<1>1. Len(seen) \in Nat /\ now \in Nat /\ Window \in Nat /\ \A n \in 1..Len(seen) : seen[n].at \in Nat
    <2>1. seen \in Seq(DedupeEntry) /\ now \in Nat
        BY DEF DedupeInv, DedupeTypeOK, DedupeEntry
    <2>2. \A n \in 1..Len(seen) : seen[n] \in DedupeEntry
        BY <2>1, ElementOfSeq
    <2> QED BY <2>1, <2>2, NetworkDedupeAssumption DEF DedupeEntry
<1>2. ASSUME NEW i \in Rows, decodes[i].at + Window >= now
      PROVE  \E n \in 1..Len(Kept) : Kept[n].key = decodes[i].key /\ Kept[n].at = decodes[i].at
    <2>1. PICK n \in 1..Len(seen) : seen[n].key = decodes[i].key /\ seen[n].at = decodes[i].at
        BY <1>2 DEF DedupeInv, RowsRemembered
    <2>2. ~Expired(seen[n])
        <3>1. seen[n].at \in Nat /\ seen[n].at + Window >= now
            BY <1>1, <1>2, <2>1
        <3> QED BY <1>1, <3>1 DEF Expired
    <2>3. n - Expire \in 1..Len(Kept) /\ Kept[n - Expire] = seen[n]
        BY <2>2, KeptIsTheWindow
    <2> QED BY <2>1, <2>3
<1>3. ASSUME NEW n \in 1..Len(Kept)
      PROVE  /\ Kept[n].at <= now
             /\ \E i \in Rows : /\ decodes[i].key = Kept[n].key /\ decodes[i].at = Kept[n].at
                               /\ decodes[i].at + Window >= now
    <2>1. n + Expire \in 1..Len(seen) /\ Kept[n] = seen[n + Expire]
        BY KeptIsTheWindow
    <2>2. ~Expired(seen[n + Expire])
        BY <1>1, <2>1, KeptIsTheWindow, ExpireTakesTheExpired
    <2>3. PICK i \in Rows :
              decodes[i].key = seen[n + Expire].key /\ decodes[i].at = seen[n + Expire].at
        BY <2>1 DEF DedupeInv, OnlyRowsRemembered
    <2> QED BY <1>1, <2>1, <2>2, <2>3 DEF Expired, DedupeInv, ClockAhead
<1>4. ASSUME NEW i \in 1..Len(Kept), NEW j \in 1..Len(Kept), i < j
      PROVE  Kept[i].key # Kept[j].key /\ Kept[i].at <= Kept[j].at
    <2>1. /\ i + Expire \in 1..Len(seen) /\ Kept[i] = seen[i + Expire]
          /\ j + Expire \in 1..Len(seen) /\ Kept[j] = seen[j + Expire]
        BY KeptIsTheWindow
    <2>2. i + Expire < j + Expire
        BY <1>4, ExpireTakesTheExpired
    <2> QED BY <2>1, <2>2 DEF DedupeInv, DedupeConsistent
<1> QED BY <1>2, <1>3, <1>4

\* A Decode that is looked up in what is kept has a row in the window, or none.
LEMMA LookedUp ==
    ASSUME DedupeInv, NEW key
    PROVE  key \in KeptKeys <=> \E i \in Rows : decodes[i].key = key /\ decodes[i].at + Window >= now
<1>1. ASSUME key \in KeptKeys
      PROVE  \E i \in Rows : decodes[i].key = key /\ decodes[i].at + Window >= now
    <2>1. PICK n \in 1..Len(Kept) : Kept[n].key = key
        BY <1>1, KeptIsTheWindow
    <2> QED BY <2>1, WindowOfRows
<1>2. ASSUME NEW i \in Rows, decodes[i].key = key, decodes[i].at + Window >= now
      PROVE  key \in KeptKeys
    <2>1. PICK n \in 1..Len(Kept) : Kept[n].key = decodes[i].key
        BY <1>2, WindowOfRows
    <2> QED BY <1>2, <2>1, KeptIsTheWindow
<1> QED BY <1>1, <1>2

LEMMA DedupeRecorded ==
    ASSUME DedupeInv, NEW key \in Keys, NEW result \in {"stored", "failed", "suppressed"},
           Record(key, result)
    PROVE  /\ decodes' \in Seq(DedupeFate) /\ Len(decodes') = Len(decodes) + 1
           /\ Len(decodes) \in Nat
           /\ \A i \in 1..Len(decodes) : i \in 1..Len(decodes') /\ decodes'[i] = decodes[i]
           /\ decodes'[Len(decodes')] = [key |-> key, at |-> now, result |-> result]
           /\ \A i \in 1..Len(decodes') : i \in 1..Len(decodes) \/ i = Len(decodes')
           /\ Rows' = IF result = "stored" THEN Rows \cup {Len(decodes')} ELSE Rows
<1> DEFINE fate == [key |-> key, at |-> now, result |-> result]
<1>1. decodes \in Seq(DedupeFate) /\ fate \in DedupeFate
    BY DEF DedupeInv, DedupeTypeOK, DedupeFate
<1>2. decodes' = Append(decodes, fate)
    BY DEF Record
<1>3. /\ decodes' \in Seq(DedupeFate) /\ Len(decodes') = Len(decodes) + 1 /\ Len(decodes) \in Nat
      /\ \A i \in 1..Len(decodes) : decodes'[i] = decodes[i]
      /\ decodes'[Len(decodes')] = fate
    <2> HIDE DEF fate
    <2> QED BY <1>1, <1>2, AppendProperties DEF DedupeFate
<1>4. /\ \A i \in 1..Len(decodes) : i \in 1..Len(decodes')
      /\ \A i \in 1..Len(decodes') : i \in 1..Len(decodes) \/ i = Len(decodes')
    BY <1>3
<1>5. Rows' = IF result = "stored" THEN Rows \cup {Len(decodes')} ELSE Rows
    <2>1. decodes'[Len(decodes')].result = result /\ Len(decodes') \in 1..Len(decodes')
        BY <1>3
    <2> QED BY <1>3, <1>4, <2>1 DEF Rows
<1> QED BY <1>3, <1>4, <1>5

\* What is remembered after a Decode: the entries of the window, and the Decode itself
\* when it was stored.
LEMMA DedupeRemembers ==
    ASSUME DedupeInv, NEW key \in Keys, NEW stored \in BOOLEAN,
           Remember(key, stored), UNCHANGED now, key \notin KeptKeys \/ ~stored
    PROVE  /\ seen' \in Seq(DedupeEntry) /\ keys' \subseteq Keys
           /\ Len(Kept) \in Nat
           /\ Len(seen') = IF stored THEN Len(Kept) + 1 ELSE Len(Kept)
           /\ \A n \in 1..Len(Kept) : n \in 1..Len(seen') /\ seen'[n] = Kept[n]
           /\ stored => seen'[Len(seen')] = [at |-> now, key |-> key]
           /\ DedupeConsistent'
           /\ \A n \in 1..Len(seen') : seen'[n].at <= now
<1> DEFINE entry == [at |-> now, key |-> key]
<1>1. Kept \in Seq(DedupeEntry) /\ KeptKeys \subseteq Keys
    BY KeptIsTheWindow DEF DedupeInv, DedupeTypeOK, KeptKeys
<1>2. Len(Kept) \in Nat
    BY <1>1
<1>3. CASE ~stored
    <2>1. seen' = Kept /\ keys' = KeptKeys
        BY <1>3 DEF Remember
    <2>2. KeptKeys = {Kept[n].key : n \in 1..Len(Kept)}
        BY KeptIsTheWindow
    <2>3. /\ \A i, j \in 1..Len(Kept) :
                i < j => Kept[i].key # Kept[j].key /\ Kept[i].at <= Kept[j].at
          /\ \A n \in 1..Len(Kept) : Kept[n].at <= now
        BY WindowOfRows
    <2>4. DedupeConsistent'
        <3> HIDE DEF entry
        <3>1. /\ keys' = {seen'[n].key : n \in 1..Len(seen')}
              /\ \A i, j \in 1..Len(seen') :
                    i < j => seen'[i].key # seen'[j].key /\ seen'[i].at <= seen'[j].at
            BY <2>1, <2>2, <2>3
        <3> QED BY <3>1 DEF DedupeConsistent
    <2> QED BY <1>1, <1>2, <1>3, <2>1, <2>3, <2>4
<1>4. CASE stored
    <2>1. seen' = Append(Kept, entry) /\ keys' = KeptKeys \cup {key} /\ entry \in DedupeEntry
        BY <1>4 DEF Remember, DedupeInv, DedupeTypeOK, DedupeEntry
    <2>2. /\ seen' \in Seq(DedupeEntry) /\ Len(seen') = Len(Kept) + 1
          /\ \A n \in 1..Len(Kept) : seen'[n] = Kept[n]
          /\ seen'[Len(seen')] = entry
        <3> HIDE DEF entry
        <3> QED BY <1>1, <2>1, AppendProperties DEF DedupeEntry
    <2>3. /\ \A n \in 1..Len(Kept) : n \in 1..Len(seen')
          /\ \A n \in 1..Len(seen') : n \in 1..Len(Kept) \/ n = Len(seen')
          /\ Len(seen') \in 1..Len(seen')
        BY <1>2, <2>2
    <2>4. \A n \in 1..Len(seen') : seen'[n].at <= now
        <3>1. now <= now
            BY NetworkDedupeAssumption DEF DedupeInv, DedupeTypeOK
        <3> QED BY <2>2, <2>3, <3>1, WindowOfRows
    <2>5. keys' = {seen'[n].key : n \in 1..Len(seen')}
        BY <2>1, <2>2, <2>3, KeptIsTheWindow
    <2>6. ASSUME NEW i \in 1..Len(seen'), NEW j \in 1..Len(seen'), i < j
          PROVE  seen'[i].key # seen'[j].key /\ seen'[i].at <= seen'[j].at
        <3>1. i \in 1..Len(Kept)
            BY <1>2, <2>2, <2>6
        <3>2. CASE j \in 1..Len(Kept)
            BY <2>2, <2>6, <3>1, <3>2, WindowOfRows
        <3>3. CASE j = Len(seen')
            <4>1. Kept[i].key \in KeptKeys /\ key \notin KeptKeys
                BY <1>4, <3>1, KeptIsTheWindow
            <4> QED BY <2>2, <3>1, <3>3, <4>1, WindowOfRows
        <3> QED BY <2>3, <3>2, <3>3
    <2>7. DedupeConsistent'
        BY <2>5, <2>6 DEF DedupeConsistent
    <2> QED BY <1>1, <1>2, <1>4, <2>1, <2>2, <2>3, <2>4, <2>7
<1> QED BY <1>3, <1>4

LEMMA DedupeIngest ==
    ASSUME DedupeInv, NEW key \in Keys, IngestOnce(key)
    PROVE  DedupeInv'
<1> DEFINE Fate(result) ==
        /\ Record(key, result)
        /\ result = "suppressed" <=> key \in KeptKeys
        /\ Remember(key, result = "stored")
<1>1. now' = now /\ now \in 0..MaxClock /\ now \in Nat /\ Window \in Nat
    BY NetworkDedupeAssumption DEF IngestOnce, DedupeInv, DedupeTypeOK
<1>2. PICK result \in {"stored", "failed", "suppressed"} : Fate(result)
    <2>1. CASE key \in KeptKeys
        <3>1. Fate("suppressed")
            BY <2>1 DEF IngestOnce, Remember
        <3> QED BY <3>1
    <2>2. CASE key \notin KeptKeys
        <3>1. PICK stored \in BOOLEAN :
                  Remember(key, stored) /\ Record(key, IF stored THEN "stored" ELSE "failed")
            BY <2>2 DEF IngestOnce
        <3>2. CASE stored
            BY <2>2, <3>1, <3>2
        <3>3. CASE ~stored
            BY <2>2, <3>1, <3>3
        <3> QED BY <3>2, <3>3
    <2> QED BY <2>1, <2>2
<1>3. /\ Record(key, result)
      /\ result = "suppressed" <=> key \in KeptKeys
      /\ Remember(key, result = "stored")
    BY <1>2
<1> HIDE DEF Fate
<1>4. /\ decodes' \in Seq(DedupeFate) /\ Len(decodes') = Len(decodes) + 1 /\ Len(decodes) \in Nat
      /\ \A i \in 1..Len(decodes) : i \in 1..Len(decodes') /\ decodes'[i] = decodes[i]
      /\ decodes'[Len(decodes')] = [key |-> key, at |-> now, result |-> result]
      /\ \A i \in 1..Len(decodes') : i \in 1..Len(decodes) \/ i = Len(decodes')
      /\ Rows' = IF result = "stored" THEN Rows \cup {Len(decodes')} ELSE Rows
    BY <1>3, DedupeRecorded
<1>5. /\ seen' \in Seq(DedupeEntry) /\ keys' \subseteq Keys
      /\ Len(Kept) \in Nat
      /\ Len(seen') = IF result = "stored" THEN Len(Kept) + 1 ELSE Len(Kept)
      /\ \A n \in 1..Len(Kept) : n \in 1..Len(seen') /\ seen'[n] = Kept[n]
      /\ result = "stored" => seen'[Len(seen')] = [at |-> now, key |-> key]
      /\ DedupeConsistent'
      /\ \A n \in 1..Len(seen') : seen'[n].at <= now
    BY <1>1, <1>3, DedupeRemembers
<1>6. Rows \subseteq 1..Len(decodes) /\ \A i \in Rows : decodes'[i] = decodes[i] /\ decodes[i].at \in Nat
    <2>1. Rows \subseteq 1..Len(decodes) /\ decodes \in Seq(DedupeFate)
        BY DEF Rows, DedupeInv, DedupeTypeOK, DedupeFate
    <2>2. \A i \in Rows : decodes[i] \in DedupeFate
        BY <2>1, ElementOfSeq
    <2> QED BY <1>4, <2>1, <2>2 DEF DedupeFate
<1>7. DedupeTypeOK' /\ ClockAhead'
    <2>1. DedupeTypeOK'
        BY <1>1, <1>4, <1>5 DEF DedupeTypeOK, DedupeEntry, DedupeFate
    <2>2. \A i \in 1..Len(decodes') : decodes'[i].at <= now
        BY <1>1, <1>4 DEF DedupeInv, ClockAhead
    <2> QED BY <1>1, <1>5, <2>1, <2>2 DEF ClockAhead
<1>8. RowsRemembered'
    <2> SUFFICES ASSUME NEW i \in Rows', decodes'[i].at + Window >= now
                 PROVE  \E n \in 1..Len(seen') :
                            seen'[n].key = decodes'[i].key /\ seen'[n].at = decodes'[i].at
        BY <1>1 DEF RowsRemembered
    <2>1. CASE i \in Rows
        <3>1. PICK n \in 1..Len(Kept) : Kept[n].key = decodes[i].key /\ Kept[n].at = decodes[i].at
            BY <1>6, <2>1, WindowOfRows
        <3> QED BY <1>5, <1>6, <2>1, <3>1
    <2>2. CASE i \notin Rows
        <3>1. result = "stored" /\ i = Len(decodes')
            BY <1>4, <2>2
        <3>2. Len(seen') \in 1..Len(seen')
            BY <1>5, <3>1
        <3> QED BY <1>4, <1>5, <3>1, <3>2
    <2> QED BY <2>1, <2>2
<1>9. OnlyRowsRemembered'
    <2> SUFFICES ASSUME NEW n \in 1..Len(seen')
                 PROVE  \E i \in Rows' : decodes'[i].key = seen'[n].key /\ decodes'[i].at = seen'[n].at
        BY DEF OnlyRowsRemembered
    <2>1. CASE n \in 1..Len(Kept)
        <3>1. PICK i \in Rows : decodes[i].key = Kept[n].key /\ decodes[i].at = Kept[n].at
            BY <2>1, WindowOfRows
        <3>2. seen'[n] = Kept[n]
            BY <1>5, <2>1
        <3> QED BY <1>4, <1>6, <3>1, <3>2
    <2>2. CASE n \notin 1..Len(Kept)
        <3>1. result = "stored" /\ n = Len(seen')
            BY <1>5, <2>2
        <3>2. Len(decodes') \in Rows' /\ decodes'[Len(decodes')].key = key /\ decodes'[Len(decodes')].at = now
            BY <1>4, <3>1
        <3>3. seen'[n].key = key /\ seen'[n].at = now
            BY <1>5, <3>1
        <3> QED BY <3>2, <3>3
    <2> QED BY <2>1, <2>2
<1>10. OneRowInWindow'
    <2> SUFFICES ASSUME NEW i \in Rows', NEW j \in Rows', i < j, decodes'[i].key = decodes'[j].key
                 PROVE  decodes'[j].at > decodes'[i].at + Window
        BY DEF OneRowInWindow
    <2>1. i \in Rows
        BY <1>4, <1>6
    <2>2. CASE j \in Rows
        BY <1>6, <2>1, <2>2 DEF DedupeInv, OneRowInWindow
    <2>3. CASE j \notin Rows
        <3>1. result = "stored" /\ j = Len(decodes')
            BY <1>4, <2>3
        <3>2. decodes'[j].key = key /\ decodes'[j].at = now /\ key \notin KeptKeys
            BY <1>3, <1>4, <3>1
        <3>3. ~(decodes[i].at + Window >= now)
            BY <1>6, <2>1, <3>2, LookedUp
        <3> QED BY <1>1, <1>6, <2>1, <3>2, <3>3
    <2> QED BY <2>2, <2>3
<1>11. SuppressedForRow'
    <2> SUFFICES ASSUME NEW j \in 1..Len(decodes'), decodes'[j].result = "suppressed"
                 PROVE  \E i \in Rows' : /\ i < j /\ decodes'[i].key = decodes'[j].key
                                         /\ decodes'[j].at <= decodes'[i].at + Window
        BY DEF SuppressedForRow
    <2>1. Rows \subseteq Rows'
        BY <1>4
    <2>2. CASE j \in 1..Len(decodes)
        <3>1. PICK i \in Rows : /\ i < j /\ decodes[i].key = decodes[j].key
                                /\ decodes[j].at <= decodes[i].at + Window
            BY <1>4, <2>2 DEF DedupeInv, SuppressedForRow
        <3> QED BY <1>4, <1>6, <2>1, <2>2, <3>1
    <2>3. CASE j = Len(decodes')
        <3>1. key \in KeptKeys /\ decodes'[j].key = key /\ decodes'[j].at = now
            BY <1>3, <1>4, <2>3
        <3>2. PICK i \in Rows : decodes[i].key = key /\ decodes[i].at + Window >= now
            BY <3>1, LookedUp
        <3>3. i < j
            BY <1>4, <1>6, <2>3
        <3> QED BY <1>1, <1>6, <2>1, <3>1, <3>2, <3>3
    <2> QED BY <1>4, <2>2, <2>3
<1> QED BY <1>5, <1>7, <1>8, <1>9, <1>10, <1>11 DEF DedupeInv

LEMMA DedupeTick ==
    ASSUME DedupeInv, Tick
    PROVE  DedupeInv'
<1>1. UNCHANGED <<seen, keys, decodes>> /\ now' = now + 1 /\ now \in Nat /\ Window \in Nat
    BY NetworkDedupeAssumption DEF Tick, DedupeInv, DedupeTypeOK
<1>2. /\ \A n \in 1..Len(seen) : seen[n].at \in Nat
      /\ \A i \in 1..Len(decodes) : decodes[i].at \in Nat
    <2>1. seen \in Seq(DedupeEntry) /\ decodes \in Seq(DedupeFate)
        BY DEF DedupeInv, DedupeTypeOK, DedupeEntry, DedupeFate
    <2>2. /\ \A n \in 1..Len(seen) : seen[n] \in DedupeEntry
          /\ \A i \in 1..Len(decodes) : decodes[i] \in DedupeFate
        BY <2>1, ElementOfSeq
    <2> QED BY <2>2 DEF DedupeEntry, DedupeFate
<1>3. DedupeTypeOK'
    BY <1>1, NetworkDedupeAssumption DEF Tick, DedupeInv, DedupeTypeOK
<1>4. ClockAhead'
    BY <1>1, <1>2 DEF DedupeInv, ClockAhead
<1>5. Rows' = Rows /\ \A i \in Rows : i \in 1..Len(decodes)
    BY <1>1 DEF Rows
<1>6. RowsRemembered'
    <2> SUFFICES ASSUME NEW i \in Rows, decodes[i].at + Window >= now + 1
                 PROVE  \E n \in 1..Len(seen) :
                            seen[n].key = decodes[i].key /\ seen[n].at = decodes[i].at
        BY <1>1, <1>5 DEF RowsRemembered
    <2>1. decodes[i].at + Window >= now
        BY <1>1, <1>2, <1>5
    <2> QED BY <2>1 DEF DedupeInv, RowsRemembered
<1>7. OnlyRowsRemembered' /\ OneRowInWindow' /\ SuppressedForRow' /\ DedupeConsistent'
    <2>1. OnlyRowsRemembered'
        BY <1>1, <1>5 DEF DedupeInv, OnlyRowsRemembered
    <2>2. OneRowInWindow'
        BY <1>1, <1>5 DEF DedupeInv, OneRowInWindow
    <2>3. SuppressedForRow'
        BY <1>1, <1>5 DEF DedupeInv, SuppressedForRow
    <2>4. DedupeConsistent'
        BY <1>1 DEF DedupeInv, DedupeConsistent
    <2> QED BY <2>1, <2>2, <2>3, <2>4
<1> QED BY <1>3, <1>4, <1>6, <1>7 DEF DedupeInv

LEMMA DedupeStep == DedupeInv /\ [DedupeNext]_dedupeVars => DedupeInv'
<1> SUFFICES ASSUME DedupeInv, [DedupeNext]_dedupeVars PROVE DedupeInv'
    OBVIOUS
<1>1. CASE Tick
    BY <1>1, DedupeTick
<1>2. ASSUME NEW key \in Keys, IngestOnce(key) PROVE DedupeInv'
    BY <1>2, DedupeIngest
<1>3. CASE UNCHANGED dedupeVars
    BY <1>3 DEF dedupeVars, DedupeInv, DedupeTypeOK, DedupeConsistent, ClockAhead, Rows,
                RowsRemembered, OnlyRowsRemembered, OneRowInWindow, SuppressedForRow
<1> QED BY <1>1, <1>2, <1>3 DEF DedupeNext

LEMMA DedupeStarts == DedupeInit => DedupeInv
BY NetworkDedupeAssumption
   DEF DedupeInit, DedupeInv, DedupeTypeOK, DedupeConsistent, ClockAhead, Rows,
       RowsRemembered, OnlyRowsRemembered, OneRowInWindow, SuppressedForRow

\* wsjtx/dedupe.py: the deque remembers every row of the window, in the order of time, and
\* nothing else.
THEOREM DedupeInvariant == DedupeSpec => []DedupeInv
BY DedupeStarts, DedupeStep, PTL DEF DedupeSpec

\* wsjtx/dedupe.py: rows of one Decode are more than the window apart, however many
\* Decodes come, whichever of their stores fail, and whenever entries are expired.
THEOREM RetransmissionHasNoRow == DedupeSpec => []OneRowInWindow
BY DedupeInvariant, PTL DEF DedupeInv

\* A Decode that is suppressed repeats a row of the window; a failed store suppresses
\* nothing.
THEOREM OnlyRowsSuppress == DedupeSpec => []SuppressedForRow
BY DedupeInvariant, PTL DEF DedupeInv

-----------------------------------------------------------------------------
(***************************************************************************)
(* The receivers that are remembered.                                      *)
(***************************************************************************)
\* Every id has one entry at most.
Distinct(dict) == \A i, j \in 1..Len(dict) : dict[i].id = dict[j].id => i = j

StatusEntry  == [id : Ids, dial : Dials \cup {Unknown}, at : 0..Never]
AddressEntry == [id : Receivers, addr : Addresses]

\* What is remembered of a receiver's dial frequency is what it said last, from the
\* address that is remembered.
DialsSaid ==
    \A id \in Ids : Has(statuses, id) =>
        LET entry == Entry(statuses, id) IN
        /\ entry.at = Never => entry.dial = Unknown
        /\ id # NoId /\ entry.dial # Unknown =>
              said[id] = [addr |-> Entry(addresses, id).addr, dial |-> entry.dial, at |-> entry.at]

SendersInv ==
    /\ SendersTypeOK
    /\ Distinct(statuses) /\ Distinct(addresses)
    /\ SendersConsistent
    /\ DialsSaid

-----------------------------------------------------------------------------
\* Dictionaries
LEMMA OthersFinite ==
    ASSUME NEW T, NEW dict \in Seq(T), NEW ids
    PROVE  /\ Len(dict) \in Nat /\ Others(dict, ids) \in SUBSET (1..Len(dict))
           /\ Others(dict, ids) \in SUBSET Nat
           /\ IsFiniteSet(Others(dict, ids)) /\ Cardinality(Others(dict, ids)) \in Nat
           /\ Cardinality(Others(dict, ids)) <= Len(dict)
<1>1. Len(dict) \in Nat /\ Others(dict, ids) \in SUBSET (1..Len(dict))
    BY DEF Others
<1>2. IsFiniteSet(1..Len(dict)) /\ Cardinality(1..Len(dict)) = Len(dict)
    BY <1>1, IntervalFromOne
<1>3. IsFiniteSet(Others(dict, ids)) /\ Cardinality(Others(dict, ids)) <= Len(dict)
    BY <1>1, <1>2, FS_Subset
<1> QED BY <1>1, <1>3, FS_CardinalityType

LEMMA NthPlace ==
    ASSUME NEW S \in SUBSET Nat, IsFiniteSet(S)
    PROVE  /\ \A n \in 1..Cardinality(S) :
                 Nth(S, n) \in S /\ Cardinality({j \in S : j <= Nth(S, n)}) = n
           /\ \A i \in S : \E n \in 1..Cardinality(S) : Nth(S, n) = i
<1>1. ASSUME NEW n \in 1..Cardinality(S)
      PROVE  Nth(S, n) \in S /\ Cardinality({j \in S : j <= Nth(S, n)}) = n
    <2>1. \E i \in S : Cardinality({j \in S : j <= i}) = n
        BY RankTaken
    <2> QED BY <2>1 DEF Nth
<1>2. ASSUME NEW i \in S PROVE \E n \in 1..Cardinality(S) : Nth(S, n) = i
    <2> DEFINE n == Cardinality({j \in S : j <= i})
    <2>1. n \in 1..Cardinality(S)
        BY RankType
    <2> HIDE DEF n
    <2>2. Nth(S, n) \in S /\ Cardinality({j \in S : j <= Nth(S, n)}) = n
        BY <1>1, <2>1
    <2>3. Nth(S, n) = i
        <3> SUFFICES ASSUME Nth(S, n) # i PROVE FALSE
            OBVIOUS
        <3>1. Nth(S, n) < i \/ i < Nth(S, n)
            <4>1. Nth(S, n) \in Nat /\ i \in Nat
                BY <2>2
            <4> QED BY <4>1
        <3>2. n = Cardinality({j \in S : j <= i}) /\ n \in Nat
            BY <2>1 DEF n
        <3>3. CASE Nth(S, n) < i
            <4>1. Cardinality({j \in S : j <= Nth(S, n)}) < Cardinality({j \in S : j <= i})
                BY <2>2, <3>3, RankGrows
            <4> QED BY <2>2, <3>2, <4>1
        <3>4. CASE i < Nth(S, n)
            <4>1. Cardinality({j \in S : j <= i}) < Cardinality({j \in S : j <= Nth(S, n)})
                BY <2>2, <3>4, RankGrows
            <4> QED BY <2>2, <3>2, <4>1
        <3> QED BY <3>1, <3>3, <3>4
    <2> QED BY <2>1, <2>3
<1> QED BY <1>1, <1>2

\* What is left of a dictionary
LEMMA WithoutIs ==
    ASSUME NEW T, NEW dict \in Seq(T), NEW ids
    PROVE  /\ Without(dict, ids) \in Seq(T) /\ Len(Without(dict, ids)) \in Nat
           /\ Len(Without(dict, ids)) = Cardinality(Others(dict, ids))
           /\ \A n \in 1..Len(Without(dict, ids)) : \E i \in 1..Len(dict) :
                 Without(dict, ids)[n] = dict[i] /\ dict[i].id \notin ids
           /\ \A i \in 1..Len(dict) : dict[i].id \notin ids =>
                 \E n \in 1..Len(Without(dict, ids)) : Without(dict, ids)[n] = dict[i]
           /\ Distinct(dict) => Distinct(Without(dict, ids))
<1> DEFINE O == Others(dict, ids)
           left == Without(dict, ids)
<1>1. /\ O \in SUBSET (1..Len(dict)) /\ O \in SUBSET Nat /\ IsFiniteSet(O) /\ Cardinality(O) \in Nat
    BY OthersFinite
<1>2. left = [n \in 1..Cardinality(O) |-> dict[Nth(O, n)]]
    BY DEF Without
<1>3. \A i \in 1..Len(dict) : i \in O <=> dict[i].id \notin ids
    BY DEF Others
<1> HIDE DEF O, left
<1>4. /\ \A n \in 1..Cardinality(O) : Nth(O, n) \in O /\ Cardinality({j \in O : j <= Nth(O, n)}) = n
      /\ \A i \in O : \E n \in 1..Cardinality(O) : Nth(O, n) = i
    BY <1>1, NthPlace
<1>5. \A n \in 1..Cardinality(O) : dict[Nth(O, n)] \in T
    BY <1>1, <1>4, ElementOfSeq
<1>6. left \in Seq(T) /\ Len(left) = Cardinality(O)
    BY <1>1, <1>2, <1>5, IsASeq
<1>7. \A n \in 1..Len(left) : left[n] = dict[Nth(O, n)] /\ Nth(O, n) \in O
    BY <1>2, <1>4, <1>6
<1>8. \A n \in 1..Len(left) : \E i \in 1..Len(dict) : left[n] = dict[i] /\ dict[i].id \notin ids
    BY <1>1, <1>3, <1>7
<1>9. \A i \in 1..Len(dict) : dict[i].id \notin ids => \E n \in 1..Len(left) : left[n] = dict[i]
    BY <1>3, <1>4, <1>6, <1>7
<1>10. ASSUME Distinct(dict) PROVE Distinct(left)
    <2> SUFFICES ASSUME NEW m \in 1..Len(left), NEW n \in 1..Len(left), left[m].id = left[n].id
                 PROVE  m = n
        BY DEF Distinct
    <2>1. Nth(O, m) = Nth(O, n)
        BY <1>1, <1>7, <1>10 DEF Distinct
    <2>2. /\ Cardinality({j \in O : j <= Nth(O, m)}) = m
          /\ Cardinality({j \in O : j <= Nth(O, n)}) = n
        BY <1>4, <1>6
    <2> QED BY <2>1, <2>2
<1> QED BY <1>1, <1>6, <1>8, <1>9, <1>10 DEF O, left

LEMMA HasWithout ==
    ASSUME NEW T, NEW dict \in Seq(T), NEW ids, NEW id
    PROVE  Has(Without(dict, ids), id) <=> Has(dict, id) /\ id \notin ids
<1>1. ASSUME Has(Without(dict, ids), id) PROVE Has(dict, id) /\ id \notin ids
    <2>1. PICK n \in 1..Len(Without(dict, ids)) : Without(dict, ids)[n].id = id
        BY <1>1 DEF Has
    <2>2. PICK i \in 1..Len(dict) : Without(dict, ids)[n] = dict[i] /\ dict[i].id \notin ids
        BY WithoutIs
    <2> QED BY <2>1, <2>2 DEF Has
<1>2. ASSUME Has(dict, id), id \notin ids PROVE Has(Without(dict, ids), id)
    <2>1. PICK i \in 1..Len(dict) : dict[i].id = id
        BY <1>2 DEF Has
    <2>2. PICK n \in 1..Len(Without(dict, ids)) : Without(dict, ids)[n] = dict[i]
        BY <1>2, <2>1, WithoutIs
    <2> QED BY <2>1, <2>2 DEF Has
<1> QED BY <1>1, <1>2

LEMMA EntryIs ==
    ASSUME NEW T, NEW dict \in Seq(T), Distinct(dict)
    PROVE  /\ \A i \in 1..Len(dict) : Entry(dict, dict[i].id) = dict[i]
           /\ \A id : Has(dict, id) => Entry(dict, id).id = id /\ Entry(dict, id) \in T
<1>1. ASSUME NEW i \in 1..Len(dict) PROVE Entry(dict, dict[i].id) = dict[i]
    <2>1. \A j \in 1..Len(dict) : dict[j].id = dict[i].id => j = i
        BY DEF Distinct
    <2> QED BY <2>1 DEF Entry
<1>2. ASSUME NEW id, Has(dict, id) PROVE Entry(dict, id).id = id /\ Entry(dict, id) \in T
    <2>1. PICK i \in 1..Len(dict) : dict[i].id = id
        BY <1>2 DEF Has
    <2>2. dict[i] \in T
        BY ElementOfSeq
    <2> QED BY <1>1, <2>1, <2>2
<1> QED BY <1>1, <1>2

LEMMA EntryWithout ==
    ASSUME NEW T, NEW dict \in Seq(T), Distinct(dict), NEW ids, NEW id, id \notin ids, Has(dict, id)
    PROVE  Entry(Without(dict, ids), id) = Entry(dict, id)
<1>1. PICK i \in 1..Len(dict) : dict[i].id = id
    BY DEF Has
<1>2. PICK n \in 1..Len(Without(dict, ids)) : Without(dict, ids)[n] = dict[i]
    BY <1>1, WithoutIs
<1>3. Entry(dict, id) = dict[i]
    BY <1>1, EntryIs
<1>4. Without(dict, ids) \in Seq(T) /\ Distinct(Without(dict, ids))
    BY WithoutIs
<1>5. Entry(Without(dict, ids), Without(dict, ids)[n].id) = Without(dict, ids)[n]
    BY <1>4, EntryIs
<1> QED BY <1>1, <1>2, <1>3, <1>5

LEMMA FewerWithout ==
    ASSUME NEW T, NEW dict \in Seq(T), NEW ids, NEW more, ids \subseteq more
    PROVE  /\ Len(Without(dict, more)) <= Len(Without(dict, ids))
           /\ Len(Without(dict, ids)) <= Len(dict)
           /\ \A id \in more \ ids :
                 Has(dict, id) => Len(Without(dict, more)) < Len(Without(dict, ids))
<1> DEFINE O == Others(dict, ids)
           P == Others(dict, more)
<1>1. P \subseteq O
    BY DEF Others
<1>2. IsFiniteSet(O) /\ Cardinality(O) \in Nat /\ Cardinality(O) <= Len(dict) /\ Cardinality(P) \in Nat
    BY OthersFinite
<1>3. ASSUME NEW id \in more \ ids, Has(dict, id) PROVE P # O
    <2>1. PICK i \in 1..Len(dict) : dict[i].id = id
        BY <1>3 DEF Has
    <2>2. i \in O /\ i \notin P
        BY <2>1 DEF Others
    <2> QED BY <2>2
<1>4. Len(Without(dict, ids)) = Cardinality(O) /\ Len(Without(dict, more)) = Cardinality(P)
    BY WithoutIs
<1> HIDE DEF O, P
<1>5. Cardinality(P) <= Cardinality(O) /\ (Cardinality(O) = Cardinality(P) => O = P)
    BY <1>1, <1>2, FS_Subset
<1> QED BY <1>2, <1>3, <1>4, <1>5

LEMMA PutIs ==
    ASSUME NEW T, NEW dict \in Seq(T), Distinct(dict), NEW entry \in T
    PROVE  /\ Put(dict, entry) \in Seq(T) /\ Distinct(Put(dict, entry))
           /\ \A id : Has(Put(dict, entry), id) <=> Has(dict, id) \/ id = entry.id
           /\ Entry(Put(dict, entry), entry.id) = entry
           /\ \A id : id # entry.id /\ Has(dict, id) => Entry(Put(dict, entry), id) = Entry(dict, id)
           /\ Len(Put(dict, entry)) = IF Has(dict, entry.id) THEN Len(dict) ELSE Len(dict) + 1
<1> DEFINE new == Put(dict, entry)
<1>1. Len(dict) \in Nat /\ \A i \in 1..Len(dict) : dict[i] \in T
    BY ElementOfSeq
<1>2. /\ new \in Seq(T)
      /\ Len(new) = IF Has(dict, entry.id) THEN Len(dict) ELSE Len(dict) + 1
      /\ Len(new) >= Len(dict)
      /\ \A i \in 1..Len(dict) : new[i] = IF dict[i].id = entry.id THEN entry ELSE dict[i]
      /\ ~Has(dict, entry.id) => new[Len(new)] = entry
    <2>1. CASE Has(dict, entry.id)
        <3>1. new = [i \in 1..Len(dict) |-> IF dict[i].id = entry.id THEN entry ELSE dict[i]]
            BY <2>1 DEF Put
        <3>2. \A i \in 1..Len(dict) : (IF dict[i].id = entry.id THEN entry ELSE dict[i]) \in T
            BY <1>1
        <3> HIDE DEF new
        <3>3. new \in Seq(T) /\ Len(new) = Len(dict)
            BY <1>1, <3>1, <3>2, IsASeq
        <3> QED BY <1>1, <2>1, <3>1, <3>3
    <2>2. CASE ~Has(dict, entry.id)
        <3>1. new = Append(dict, entry)
            BY <2>2 DEF Put
        <3>2. \A i \in 1..Len(dict) : dict[i].id # entry.id
            BY <2>2 DEF Has
        <3> HIDE DEF new
        <3>3. /\ new \in Seq(T) /\ Len(new) = Len(dict) + 1 /\ new[Len(new)] = entry
              /\ \A i \in 1..Len(dict) : new[i] = dict[i]
            BY <3>1, AppendProperties
        <3> QED BY <1>1, <2>2, <3>2, <3>3
    <2> QED BY <2>1, <2>2
<1> HIDE DEF new
<1>3. \A i \in 1..Len(new) : i \in 1..Len(dict) \/ (i = Len(new) /\ ~Has(dict, entry.id))
    BY <1>1, <1>2
<1>4. \A i \in 1..Len(dict) : i \in 1..Len(new) /\ new[i].id = dict[i].id
    BY <1>1, <1>2
<1>5. ~Has(dict, entry.id) => Len(new) \in 1..Len(new)
    BY <1>1, <1>2
<1>6. \A id : Has(new, id) <=> Has(dict, id) \/ id = entry.id
    BY <1>2, <1>3, <1>4, <1>5 DEF Has
<1>7. Distinct(new)
    <2> SUFFICES ASSUME NEW i \in 1..Len(new), NEW j \in 1..Len(new), new[i].id = new[j].id
                 PROVE  i = j
        BY DEF Distinct
    <2>1. CASE i \in 1..Len(dict) /\ j \in 1..Len(dict)
        BY <1>4, <2>1 DEF Distinct
    <2>2. CASE i \in 1..Len(dict) /\ j \notin 1..Len(dict)
        BY <1>2, <1>3, <1>4, <2>2 DEF Has
    <2>3. CASE i \notin 1..Len(dict) /\ j \in 1..Len(dict)
        BY <1>2, <1>3, <1>4, <2>3 DEF Has
    <2>4. CASE i \notin 1..Len(dict) /\ j \notin 1..Len(dict)
        BY <1>3, <2>4
    <2> QED BY <2>1, <2>2, <2>3, <2>4
<1>8. \A i \in 1..Len(new) : Entry(new, new[i].id) = new[i]
    BY <1>2, <1>7, EntryIs
<1>9. Entry(new, entry.id) = entry
    <2>1. PICK i \in 1..Len(new) : new[i].id = entry.id
        BY <1>6 DEF Has
    <2>2. new[i] = entry
        BY <1>2, <1>3, <1>4, <2>1
    <2> QED BY <1>8, <2>1, <2>2
<1>10. ASSUME NEW id, id # entry.id, Has(dict, id) PROVE Entry(new, id) = Entry(dict, id)
    <2>1. PICK i \in 1..Len(dict) : dict[i].id = id
        BY <1>10 DEF Has
    <2>2. new[i] = dict[i] /\ i \in 1..Len(new)
        BY <1>2, <1>4, <1>10, <2>1
    <2>3. Entry(dict, id) = dict[i]
        BY <2>1, EntryIs
    <2> QED BY <1>8, <2>1, <2>2, <2>3
<1> QED BY <1>2, <1>6, <1>7, <1>9, <1>10 DEF new

-----------------------------------------------------------------------------
\* The limits: a receiver that is not in a dictionary finds room in it, because the oldest
\* entry goes where there is none.
LEMMA RoomFor ==
    ASSUME NEW T, NEW dict \in Seq(T), Len(dict) <= MaxSenders, NEW id, NEW first,
           NEW gone, first \cup Oldest(Without(dict, first), id) \subseteq gone
    PROVE  Has(Without(dict, gone), id) \/ Len(Without(dict, gone)) < MaxSenders
<1> SUFFICES ASSUME ~Has(Without(dict, gone), id)
             PROVE  Len(Without(dict, gone)) < MaxSenders
    OBVIOUS
<1>1. /\ MaxSenders \in Nat \ {0} /\ Len(dict) \in Nat
      /\ Len(Without(dict, gone)) \in Nat /\ Len(Without(dict, first)) \in Nat
      /\ Without(dict, first) \in Seq(T)
    BY UdpSendersAssumption, WithoutIs
<1>2. /\ Len(Without(dict, gone)) <= Len(Without(dict, first))
      /\ Len(Without(dict, first)) <= Len(dict)
    BY FewerWithout
<1>3. CASE Has(dict, id)
    <2>1. id \in gone
        BY <1>3, HasWithout
    <2>2. CASE id \in first
        <3>1. {} \subseteq first /\ id \in first \ {}
            BY <2>2
        <3>2. Len(Without(dict, first)) < Len(Without(dict, {}))
            BY <1>3, <3>1, FewerWithout
        <3>3. Len(Without(dict, {})) <= Len(dict) /\ Len(Without(dict, {})) \in Nat
            BY FewerWithout, WithoutIs
        <3> QED BY <1>1, <1>2, <3>2, <3>3
    <2>3. CASE id \notin first
        <3>1. Len(Without(dict, gone)) < Len(Without(dict, first))
            BY <1>3, <2>1, <2>3, FewerWithout
        <3> QED BY <1>1, <1>2, <3>1
    <2> QED BY <2>2, <2>3
<1>4. CASE ~Has(dict, id)
    <2>1. ~Has(Without(dict, first), id)
        BY <1>4, HasWithout
    <2>2. CASE Len(Without(dict, first)) >= MaxSenders
        <3> DEFINE oldest == Without(dict, first)[1].id
        <3>1. 1 \in 1..Len(Without(dict, first)) /\ Head(Without(dict, first)) = Without(dict, first)[1]
            BY <1>1, <2>2
        <3>2. oldest \in gone
            BY <2>1, <2>2, <3>1 DEF Oldest
        <3>3. Has(Without(dict, first), oldest)
            BY <3>1 DEF Has
        <3>4. Has(dict, oldest) /\ oldest \notin first
            <4> HIDE DEF oldest
            <4> QED BY <3>3, HasWithout
        <3>5. Len(Without(dict, gone)) < Len(Without(dict, first))
            <4> HIDE DEF oldest
            <4> QED BY <3>2, <3>4, FewerWithout
        <3> QED BY <1>1, <1>2, <3>5
    <2>3. CASE ~(Len(Without(dict, first)) >= MaxSenders)
        BY <1>1, <1>2, <2>3
    <2> QED BY <2>2, <2>3
<1> QED BY <1>3, <1>4

LEMMA SendersTypes ==
    ASSUME SendersTypeOK
    PROVE  /\ statuses \in Seq(StatusEntry) /\ addresses \in Seq(AddressEntry)
           /\ wall \in 0..MaxTime /\ MaxTime \in Nat /\ MaxAge \in Nat /\ MaxSenders \in Nat \ {0}
           /\ Never \in Nat /\ Never > MaxTime /\ NoId \notin Receivers /\ NoReceiver \notin Ids
           /\ Unknown \notin Dials /\ Nowhere \notin Addresses
           /\ \A dial \in Dials \cup {Unknown}, at \in 0..Never, id \in Ids :
                 [id |-> id, dial |-> dial, at |-> at] \in StatusEntry
           /\ \A id \in Receivers, addr \in Addresses : [id |-> id, addr |-> addr] \in AddressEntry
BY UdpSendersAssumption DEF SendersTypeOK, StatusEntry, AddressEntry, Never, Ids

\* What a step forgets it forgets in both tables, and the addresses of the others stay.
\* The receiver itself, where it was not forgotten, has sent from the same address.
LEMMA AddressesAfter ==
    ASSUME SendersInv, NEW id \in Ids, NEW addr \in Addresses, NEW gone, Displaced(id, addr) \subseteq gone,
           \/ addresses' = Without(addresses, gone) \/ Heard(id, addr, gone)
    PROVE  /\ addresses' \in Seq(AddressEntry) /\ Distinct(addresses)' /\ Len(addresses') <= MaxSenders
           /\ \A x \in Receivers : Has(addresses, x) /\ x \notin gone =>
                 Has(addresses, x)' /\ Entry(addresses, x)' = Entry(addresses, x)
           /\ id # NoId /\ Heard(id, addr, gone) => Has(addresses, id)'
           /\ Heard(id, addr, gone) /\ id # NoId => Entry(addresses, id)' = [id |-> id, addr |-> addr]
           /\ id # NoId /\ Has(addresses, id) /\ id \notin gone => Entry(addresses, id).addr = addr
<1> DEFINE left == Without(addresses, gone)
           entry == [id |-> id, addr |-> addr]
<1>1. /\ addresses \in Seq(AddressEntry) /\ Distinct(addresses) /\ Len(addresses) <= MaxSenders
      /\ MaxSenders \in Nat \ {0}
    BY SendersTypes DEF SendersInv, SendersConsistent, SendersBounded
<1>2. /\ left \in Seq(AddressEntry) /\ Distinct(left) /\ Len(left) \in Nat /\ Len(left) <= MaxSenders
    <2>1. left \in Seq(AddressEntry) /\ Distinct(left) /\ Len(left) \in Nat
        BY <1>1, WithoutIs
    <2>2. gone \subseteq gone
        OBVIOUS
    <2>3. Len(left) <= Len(addresses)
        BY <1>1, <2>2, FewerWithout
    <2> QED BY <1>1, <2>1, <2>3
<1>3. \A x : Has(left, x) <=> Has(addresses, x) /\ x \notin gone
    BY <1>1, HasWithout
<1>4. \A x : Has(addresses, x) /\ x \notin gone => Entry(left, x) = Entry(addresses, x)
    BY <1>1, EntryWithout
<1>5. ASSUME id # NoId, Has(addresses, id), id \notin gone PROVE Entry(addresses, id).addr = addr
    BY <1>5 DEF Displaced, Moved
<1>6. CASE addresses' = left
    <2> HIDE DEF left
    <2>1. Distinct(addresses)' /\ \A x : (Has(addresses, x)' <=> Has(left, x)) /\ Entry(addresses, x)' = Entry(left, x)
        BY <1>2, <1>6 DEF Distinct, Has, Entry
    <2>2. Heard(id, addr, gone) /\ id # NoId => Has(left, id) /\ Entry(left, id) = entry
        <3> SUFFICES ASSUME Heard(id, addr, gone), id # NoId PROVE Has(left, id) /\ Entry(left, id) = entry
            OBVIOUS
        <3>1. left = Put(left, entry) /\ entry \in AddressEntry
            BY <1>6, SendersTypes DEF Heard, SendersInv, Ids, left
        <3> HIDE DEF entry
        <3>2. Has(Put(left, entry), entry.id) /\ Entry(Put(left, entry), entry.id) = entry
            BY <1>2, <3>1, PutIs
        <3>3. entry.id = id
            BY DEF entry
        <3> QED BY <3>1, <3>2, <3>3
    <2> QED BY <1>2, <1>3, <1>4, <1>5, <1>6, <2>1, <2>2
<1>7. CASE Heard(id, addr, gone) /\ id # NoId
    <2>1. addresses' = Put(left, entry) /\ entry \in AddressEntry /\ entry.id = id
        BY <1>7, SendersTypes DEF Heard, SendersInv, Ids
    <2>2. Has(left, id) \/ Len(left) < MaxSenders
        <3>1. Moved(id, addr) \cup Oldest(Without(addresses, Moved(id, addr)), id) \subseteq gone
            BY <1>7 DEF Displaced
        <3> QED BY <1>1, <3>1, RoomFor
    <2> HIDE DEF left, entry
    <2>3. /\ Put(left, entry) \in Seq(AddressEntry) /\ Distinct(Put(left, entry))
          /\ \A x : Has(Put(left, entry), x) <=> Has(left, x) \/ x = entry.id
          /\ Entry(Put(left, entry), entry.id) = entry
          /\ \A x : x # entry.id /\ Has(left, x) => Entry(Put(left, entry), x) = Entry(left, x)
          /\ Len(Put(left, entry)) = IF Has(left, entry.id) THEN Len(left) ELSE Len(left) + 1
        BY <1>2, <2>1, PutIs
    <2>4. Distinct(addresses)' /\ \A x : (Has(addresses, x)' <=> Has(Put(left, entry), x))
                                       /\ Entry(addresses, x)' = Entry(Put(left, entry), x)
        BY <2>1, <2>3 DEF Distinct, Has, Entry
    <2>5. Len(addresses') <= MaxSenders
        BY <1>1, <1>2, <2>1, <2>2, <2>3
    <2>6. Has(addresses, id) /\ id \notin gone => Entry(addresses, id) = entry
        <3>1. Has(addresses, id) => Entry(addresses, id) \in AddressEntry /\ Entry(addresses, id).id = id
            BY <1>1, EntryIs
        <3> QED BY <1>5, <1>7, <3>1 DEF AddressEntry, entry
    <2> QED BY <1>3, <1>4, <1>5, <2>1, <2>3, <2>4, <2>5, <2>6 DEF entry
<1>8. CASE Heard(id, addr, gone) /\ id = NoId
    BY <1>6, <1>8 DEF Heard
<1> QED BY <1>6, <1>7, <1>8

-----------------------------------------------------------------------------
\* A message that leaves the statuses alone, but for those that are forgotten.
LEMMA Forgets ==
    ASSUME SendersInv, NEW id \in Ids, NEW addr \in Addresses, NEW gone, Displaced(id, addr) \subseteq gone,
           statuses' = Without(statuses, gone), current' = CurrentWithout(gone),
           addresses' = Without(addresses, gone) \/ Heard(id, addr, gone),
           UNCHANGED wall, row' \in [id : Ids, addr : Addresses \cup {Nowhere}, dial : Dials \cup {Unknown}],
           said' \in [Ids -> [addr : Addresses, dial : Dials, at : 0..MaxTime] \cup {Silence}],
           \A x \in Ids : x \notin gone => said'[x] = said[x]
    PROVE  SendersInv'
<1> DEFINE left == Without(statuses, gone)
<1>1. /\ statuses \in Seq(StatusEntry) /\ Distinct(statuses) /\ Len(statuses) <= MaxSenders
      /\ addresses \in Seq(AddressEntry) /\ Distinct(addresses) /\ MaxSenders \in Nat \ {0}
      /\ SendersTypeOK /\ DialsSaid /\ CurrentIsRemembered
    BY SendersTypes DEF SendersInv, SendersConsistent, SendersBounded
<1>2. /\ left \in Seq(StatusEntry) /\ Distinct(left) /\ Len(left) \in Nat /\ Len(left) <= MaxSenders
    <2>1. left \in Seq(StatusEntry) /\ Distinct(left) /\ Len(left) \in Nat
        BY <1>1, WithoutIs
    <2>2. gone \subseteq gone
        OBVIOUS
    <2>3. Len(left) <= Len(statuses) /\ Len(statuses) \in Nat
        BY <1>1, <2>2, FewerWithout
    <2> QED BY <1>1, <2>1, <2>3
<1>3. /\ \A x : Has(left, x) <=> Has(statuses, x) /\ x \notin gone
      /\ \A x : Has(statuses, x) /\ x \notin gone => Entry(left, x) = Entry(statuses, x)
    BY <1>1, HasWithout, EntryWithout
<1>4. statuses' = left
    OBVIOUS
<1> HIDE DEF left
<1>5. /\ Distinct(statuses)'
      /\ \A x : (Has(statuses, x)' <=> Has(left, x)) /\ Entry(statuses, x)' = Entry(left, x)
    BY <1>2, <1>4 DEF Distinct, Has, Entry
<1>6. /\ addresses' \in Seq(AddressEntry) /\ Distinct(addresses)' /\ Len(addresses') <= MaxSenders
      /\ \A x \in Receivers : Has(addresses, x) /\ x \notin gone =>
            Has(addresses, x)' /\ Entry(addresses, x)' = Entry(addresses, x)
    BY AddressesAfter
<1>7. SendersTypeOK'
    <2>1. current' \in Ids \cup {NoReceiver}
        BY <1>1 DEF CurrentWithout, SendersTypeOK
    <2> QED BY <1>1, <1>2, <1>4, <1>6, <2>1 DEF SendersTypeOK, StatusEntry, AddressEntry
<1>8. SendersConsistent'
    <2>1. current' # NoReceiver => Has(statuses, current)'
        BY <1>1, <1>3, <1>4 DEF CurrentWithout, CurrentIsRemembered, Has
    <2>2. \A x \in Receivers : Has(statuses, x)' => Has(addresses, x)'
        BY <1>1, <1>3, <1>5, <1>6 DEF CurrentIsRemembered
    <2> QED BY <1>2, <1>4, <1>6, <2>1, <2>2
            DEF SendersConsistent, SendersBounded, CurrentIsRemembered
<1>9. DialsSaid'
    <2> SUFFICES ASSUME NEW x \in Ids, Has(statuses, x)'
                 PROVE  /\ Entry(statuses, x)'.at = Never => Entry(statuses, x)'.dial = Unknown
                        /\ x # NoId /\ Entry(statuses, x)'.dial # Unknown =>
                              said'[x] = [addr |-> Entry(addresses, x)'.addr,
                                          dial |-> Entry(statuses, x)'.dial,
                                          at   |-> Entry(statuses, x)'.at]
        BY DEF DialsSaid
    <2>1. Has(statuses, x) /\ x \notin gone /\ Entry(statuses, x)' = Entry(statuses, x)
        BY <1>3, <1>5
    <2>2. said'[x] = said[x]
        BY <2>1
    <2>3. x # NoId => Has(addresses, x) /\ Entry(addresses, x)' = Entry(addresses, x)
        BY <1>1, <1>6, <2>1 DEF CurrentIsRemembered, Ids
    <2> QED BY <1>1, <2>1, <2>2, <2>3 DEF DialsSaid
<1> QED BY <1>5, <1>6, <1>7, <1>8, <1>9 DEF SendersInv

\* A message whose receiver is remembered with a status from then on: the one that it
\* sends, or the one that it had.
LEMMA Remembers ==
    ASSUME SendersInv, NEW id \in Ids, NEW addr \in Addresses, NEW status \in StatusEntry, status.id = id,
           Remembered(id, addr, status), UNCHANGED wall, row' = NoRow,
           status.at = Never => status.dial = Unknown /\ said' = said,
           status.at # Never => status.dial \in Dials /\ status.at \in 0..MaxTime
                                /\ said' = [said EXCEPT ![id] = [addr |-> addr, dial |-> status.dial, at |-> status.at]]
    PROVE  SendersInv'
<1> DEFINE displaced == Displaced(id, addr)
           gone == displaced \cup Oldest(Without(statuses, displaced), id)
           left == Without(statuses, gone)
<1>1. /\ statuses \in Seq(StatusEntry) /\ Distinct(statuses) /\ Len(statuses) <= MaxSenders
      /\ addresses \in Seq(AddressEntry) /\ Distinct(addresses) /\ MaxSenders \in Nat \ {0}
      /\ SendersTypeOK /\ DialsSaid /\ CurrentIsRemembered
    BY SendersTypes DEF SendersInv, SendersConsistent, SendersBounded
<1>2. /\ statuses' = IF status.at = Never /\ Has(left, id) THEN left ELSE Put(left, status)
      /\ Heard(id, addr, gone) /\ current' = id
    BY DEF Remembered
<1>3. /\ left \in Seq(StatusEntry) /\ Distinct(left) /\ Len(left) \in Nat /\ Len(left) <= MaxSenders
    <2>1. left \in Seq(StatusEntry) /\ Distinct(left) /\ Len(left) \in Nat
        BY <1>1, WithoutIs
    <2>2. gone \subseteq gone
        OBVIOUS
    <2>3. Len(left) <= Len(statuses) /\ Len(statuses) \in Nat
        BY <1>1, <2>2, FewerWithout
    <2> QED BY <1>1, <2>1, <2>3
<1>4. Has(left, id) \/ Len(left) < MaxSenders
    BY <1>1, RoomFor
<1>5. /\ \A x : Has(left, x) <=> Has(statuses, x) /\ x \notin gone
      /\ \A x : Has(statuses, x) /\ x \notin gone => Entry(left, x) = Entry(statuses, x)
    BY <1>1, HasWithout, EntryWithout
<1>6. displaced \subseteq gone
    OBVIOUS
<1> HIDE DEF left, gone, displaced
<1>7. /\ statuses' \in Seq(StatusEntry) /\ Distinct(statuses') /\ Len(statuses') <= MaxSenders
      /\ Has(statuses', id)
      /\ \A x : x # id => (Has(statuses', x) <=> Has(left, x))
      /\ \A x : x # id /\ Has(left, x) => Entry(statuses', x) = Entry(left, x)
      /\ IF status.at = Never /\ Has(left, id) THEN Entry(statuses', id) = Entry(left, id)
                                               ELSE Entry(statuses', id) = status
    <2>1. CASE status.at = Never /\ Has(left, id)
        BY <1>2, <1>3, <2>1
    <2>2. CASE ~(status.at = Never /\ Has(left, id))
        <3>1. statuses' = Put(left, status)
            BY <1>2, <2>2
        <3>2. /\ Put(left, status) \in Seq(StatusEntry) /\ Distinct(Put(left, status))
              /\ \A x : Has(Put(left, status), x) <=> Has(left, x) \/ x = id
              /\ Entry(Put(left, status), id) = status
              /\ \A x : x # id /\ Has(left, x) => Entry(Put(left, status), x) = Entry(left, x)
              /\ Len(Put(left, status)) = IF Has(left, id) THEN Len(left) ELSE Len(left) + 1
            BY <1>3, PutIs
        <3>3. Len(Put(left, status)) <= MaxSenders
            BY <1>1, <1>3, <1>4, <3>2
        <3> QED BY <2>2, <3>1, <3>2, <3>3
    <2> QED BY <2>1, <2>2
<1>8. /\ \A x : (Has(statuses, x)' <=> Has(statuses', x)) /\ Entry(statuses, x)' = Entry(statuses', x)
      /\ Distinct(statuses)'
    BY <1>7 DEF Has, Entry, Distinct
<1>9. /\ addresses' \in Seq(AddressEntry) /\ Distinct(addresses)' /\ Len(addresses') <= MaxSenders
      /\ \A x \in Receivers : Has(addresses, x) /\ x \notin gone =>
            Has(addresses, x)' /\ Entry(addresses, x)' = Entry(addresses, x)
      /\ id # NoId => Has(addresses, id)' /\ Entry(addresses, id)' = [id |-> id, addr |-> addr]
      /\ id # NoId /\ Has(addresses, id) /\ id \notin gone => Entry(addresses, id).addr = addr
    BY <1>2, <1>6, AddressesAfter DEF displaced
<1>10. SendersTypeOK'
    <2>1. said' \in [Ids -> [addr : Addresses, dial : Dials, at : 0..MaxTime] \cup {Silence}]
        BY <1>1 DEF SendersTypeOK
    <2>2. row' \in [id : Ids, addr : Addresses \cup {Nowhere}, dial : Dials \cup {Unknown}]
        BY DEF NoRow, Ids
    <2>3. /\ statuses' \in Seq([id : Ids, dial : Dials \cup {Unknown}, at : 0..Never])
          /\ addresses' \in Seq([id : Receivers, addr : Addresses])
        BY <1>7, <1>9 DEF StatusEntry, AddressEntry
    <2> QED BY <1>1, <1>2, <2>1, <2>2, <2>3 DEF SendersTypeOK
<1>11. SendersConsistent'
    <2>1. current' # NoReceiver => Has(statuses, current)'
        BY <1>2, <1>7 DEF Has
    <2>2. \A x \in Receivers : Has(statuses, x)' => Has(addresses, x)'
        BY <1>1, <1>5, <1>7, <1>8, <1>9, SendersTypes DEF CurrentIsRemembered
    <2> QED BY <1>7, <1>9, <2>1, <2>2 DEF SendersConsistent, SendersBounded, CurrentIsRemembered
<1>12. DialsSaid'
    <2> SUFFICES ASSUME NEW x \in Ids, Has(statuses, x)'
                 PROVE  /\ Entry(statuses, x)'.at = Never => Entry(statuses, x)'.dial = Unknown
                        /\ x # NoId /\ Entry(statuses, x)'.dial # Unknown =>
                              said'[x] = [addr |-> Entry(addresses, x)'.addr,
                                          dial |-> Entry(statuses, x)'.dial,
                                          at   |-> Entry(statuses, x)'.at]
        BY DEF DialsSaid
    <2>1. ASSUME Has(left, x), Entry(statuses, x)' = Entry(left, x), said'[x] = said[x]
          PROVE  /\ Entry(statuses, x)'.at = Never => Entry(statuses, x)'.dial = Unknown
                 /\ x # NoId /\ Entry(statuses, x)'.dial # Unknown =>
                       said'[x] = [addr |-> Entry(addresses, x)'.addr,
                                   dial |-> Entry(statuses, x)'.dial,
                                   at   |-> Entry(statuses, x)'.at]
        <3>1. Has(statuses, x) /\ x \notin gone /\ Entry(statuses, x)' = Entry(statuses, x)
            BY <1>5, <2>1
        <3>2. x # NoId => Has(addresses, x) /\ Entry(addresses, x)' = Entry(addresses, x)
            BY <1>1, <1>9, <3>1 DEF CurrentIsRemembered, Ids
        <3> QED BY <1>1, <2>1, <3>1, <3>2 DEF DialsSaid
    <2>2. CASE x # id
        <3>1. Has(left, x) /\ Entry(statuses, x)' = Entry(left, x)
            BY <1>7, <1>8, <2>2
        <3>2. said'[x] = said[x]
            BY <1>1, <2>2 DEF SendersTypeOK
        <3> QED BY <2>1, <3>1, <3>2
    <2>3. CASE x = id /\ status.at = Never /\ Has(left, id)
        <3>1. Entry(statuses, x)' = Entry(left, x) /\ said'[x] = said[x]
            BY <1>7, <1>8, <2>3
        <3> QED BY <2>1, <2>3, <3>1
    <2>4. CASE x = id /\ ~(status.at = Never /\ Has(left, id))
        <3>1. Entry(statuses, x)' = status
            BY <1>7, <1>8, <2>4
        <3>2. CASE status.at = Never
            BY <3>1, <3>2
        <3>3. CASE status.at # Never
            <4>1. said'[x] = [addr |-> addr, dial |-> status.dial, at |-> status.at]
                BY <1>1, <2>4, <3>3 DEF SendersTypeOK
            <4>2. x # NoId => Entry(addresses, x)'.addr = addr
                BY <1>9, <2>4
            <4> QED BY <3>1, <3>3, <4>1, <4>2
        <3> QED BY <3>2, <3>3
    <2> QED BY <2>2, <2>3, <2>4
<1> QED BY <1>7, <1>8, <1>9, <1>10, <1>11, <1>12 DEF SendersInv

LEMMA SendersStarts == SendersInit => SendersInv
BY UdpSendersAssumption
   DEF SendersInit, SendersInv, SendersTypeOK, SendersConsistent, SendersBounded,
       CurrentIsRemembered, DialsSaid, Distinct, Has, NoRow, Ids, Silence

-----------------------------------------------------------------------------
\* Where only the clock and the row may change.
LEMMA StillSenders ==
    ASSUME SendersInv, UNCHANGED rememberedVars, said' = said, wall' \in 0..MaxTime,
           row' \in [id : Ids, addr : Addresses \cup {Nowhere}, dial : Dials \cup {Unknown}]
    PROVE  SendersInv'
<1>1. statuses' = statuses /\ addresses' = addresses /\ current' = current
    BY DEF rememberedVars
<1>2. SendersTypeOK'
    BY <1>1 DEF SendersInv, SendersTypeOK
<1>3. \A x : /\ Has(statuses, x)' = Has(statuses, x) /\ Entry(statuses, x)' = Entry(statuses, x)
             /\ Has(addresses, x)' = Has(addresses, x) /\ Entry(addresses, x)' = Entry(addresses, x)
    BY <1>1 DEF Has, Entry
<1>4. Distinct(statuses)' /\ Distinct(addresses)'
    BY <1>1 DEF SendersInv, Distinct
<1>5. SendersConsistent'
    BY <1>1 DEF SendersInv, SendersConsistent, SendersBounded, CurrentIsRemembered, Has
<1>6. DialsSaid'
    BY <1>1, <1>3 DEF SendersInv, DialsSaid
<1> QED BY <1>2, <1>4, <1>5, <1>6 DEF SendersInv

LEMMA HeartbeatKeeps ==
    ASSUME SendersInv, NEW id \in Ids, NEW addr \in Addresses, Heartbeat(id, addr)
    PROVE  SendersInv'
<1>1. CASE id = NoId
    <2>1. UNCHANGED rememberedVars /\ UNCHANGED <<wall, said>> /\ row' = NoRow
        BY <1>1 DEF Heartbeat
    <2> QED BY <2>1, StillSenders DEF SendersInv, SendersTypeOK, NoRow, Ids
<1>2. CASE id # NoId
    <2> DEFINE status == [id |-> id, dial |-> Unknown, at |-> Never]
    <2>1. /\ Remembered(id, addr, status)
          /\ row' = NoRow /\ UNCHANGED wall /\ said' = said
        BY <1>2 DEF Heartbeat
    <2>2. status \in StatusEntry /\ status.id = id /\ status.at = Never /\ status.dial = Unknown
        BY UdpSendersAssumption DEF StatusEntry, Never
    <2> HIDE DEF status
    <2> QED BY <2>1, <2>2, Remembers
<1> QED BY <1>1, <1>2

LEMMA StatusKeeps ==
    ASSUME SendersInv, NEW id \in Ids, NEW addr \in Addresses, NEW dial \in Dials,
           Status(id, addr, dial)
    PROVE  SendersInv'
<1> DEFINE status == [id |-> id, dial |-> dial, at |-> wall]
<1>1. wall \in 0..MaxTime /\ MaxTime \in Nat
    BY UdpSendersAssumption DEF SendersInv, SendersTypeOK
<1>2. wall # Never /\ wall \in 0..Never
    BY <1>1 DEF Never
<1>3. /\ Remembered(id, addr, status) /\ row' = NoRow /\ UNCHANGED wall
      /\ said' = [said EXCEPT ![id] = [addr |-> addr, dial |-> status.dial, at |-> status.at]]
    BY DEF Status
<1>4. /\ status \in StatusEntry /\ status.id = id
      /\ status.at # Never /\ status.dial \in Dials /\ status.at \in 0..MaxTime
    BY <1>1, <1>2 DEF StatusEntry
<1> HIDE DEF status
<1> QED BY <1>3, <1>4, Remembers

LEMMA CloseKeeps ==
    ASSUME SendersInv, NEW id \in Ids, NEW addr \in Addresses, CloseMessage(id, addr)
    PROVE  SendersInv'
<1> DEFINE gone == Displaced(id, addr) \cup {id}
<1>1. /\ statuses' = Without(statuses, gone) /\ addresses' = Without(addresses, gone)
      /\ current' = CurrentWithout(gone) /\ UNCHANGED wall /\ row' = NoRow
      /\ said' = [said EXCEPT ![id] = Silence]
    BY DEF CloseMessage
<1>2. Displaced(id, addr) \subseteq gone /\ id \in gone
    OBVIOUS
<1>3. /\ said' \in [Ids -> [addr : Addresses, dial : Dials, at : 0..MaxTime] \cup {Silence}]
      /\ \A x \in Ids : x # id => said'[x] = said[x]
    BY <1>1 DEF SendersInv, SendersTypeOK
<1>4. row' \in [id : Ids, addr : Addresses \cup {Nowhere}, dial : Dials \cup {Unknown}]
    BY <1>1 DEF NoRow, Ids
<1> HIDE DEF gone
<1>5. \A x \in Ids : x \notin gone => said'[x] = said[x]
    BY <1>2, <1>3
<1> QED BY <1>1, <1>2, <1>3, <1>4, <1>5, Forgets

LEMMA OtherKeeps ==
    ASSUME SendersInv, NEW id \in Ids, NEW addr \in Addresses, OtherMessage(id, addr)
    PROVE  SendersInv'
<1> DEFINE gone == Displaced(id, addr)
<1>1. /\ statuses' = Without(statuses, gone) /\ Heard(id, addr, gone)
      /\ current' = CurrentWithout(gone) /\ UNCHANGED <<wall, said>> /\ row' = NoRow
    BY DEF OtherMessage
<1>2. said' \in [Ids -> [addr : Addresses, dial : Dials, at : 0..MaxTime] \cup {Silence}]
    BY <1>1 DEF SendersInv, SendersTypeOK
<1>3. row' \in [id : Ids, addr : Addresses \cup {Nowhere}, dial : Dials \cup {Unknown}]
    BY <1>1 DEF NoRow, Ids
<1>4. Displaced(id, addr) \subseteq gone
    OBVIOUS
<1> HIDE DEF gone
<1>5. \A x \in Ids : x \notin gone => said'[x] = said[x]
    BY <1>1
<1> QED BY <1>1, <1>2, <1>3, <1>4, <1>5, Forgets

\* What a Decode forgets, and the dial frequency that it gets.
LEMMA DecodeIs ==
    ASSUME SendersInv, NEW id \in Ids, NEW addr \in Addresses, Decode(id, addr)
    PROVE  \E gone :
              /\ Displaced(id, addr) \subseteq gone
              /\ statuses' = Without(statuses, gone) /\ current' = CurrentWithout(gone)
              /\ addresses' = Without(addresses, gone) \/ Heard(id, addr, gone)
              /\ UNCHANGED <<wall, said>>
              /\ id \notin gone => ~Stale(id)
              /\ row' = [id |-> id, addr |-> addr,
                         dial |-> IF Has(statuses, id) /\ id \notin gone
                                  THEN Entry(statuses, id).dial ELSE Unknown]
<1> DEFINE displaced == Displaced(id, addr)
           stale == id \notin displaced /\ Stale(id)
           gone  == displaced \cup (IF stale THEN {id} ELSE {})
           left  == Without(statuses, gone)
<1>1. /\ statuses' = left /\ current' = CurrentWithout(gone)
      /\ IF stale THEN addresses' = Without(addresses, gone) ELSE Heard(id, addr, displaced)
      /\ row' = [id |-> id, addr |-> addr,
                 dial |-> IF Has(left, id) THEN Entry(left, id).dial ELSE Unknown]
      /\ UNCHANGED <<wall, said>>
    BY DEF Decode
<1>2. statuses \in Seq(StatusEntry) /\ Distinct(statuses)
    BY SendersTypes DEF SendersInv
<1>3. /\ Has(left, id) <=> Has(statuses, id) /\ id \notin gone
      /\ Has(statuses, id) /\ id \notin gone => Entry(left, id) = Entry(statuses, id)
    BY <1>2, HasWithout, EntryWithout
<1>4. /\ displaced \subseteq gone /\ (id \notin gone => ~Stale(id))
      /\ stale \/ gone = displaced
    OBVIOUS
<1>5. addresses' = Without(addresses, gone) \/ Heard(id, addr, gone)
    BY <1>1, <1>4
<1>6. row' = [id |-> id, addr |-> addr,
              dial |-> IF Has(statuses, id) /\ id \notin gone THEN Entry(statuses, id).dial ELSE Unknown]
    <2> HIDE DEF left, gone
    <2> QED BY <1>1, <1>3
<1> WITNESS gone
<1> HIDE DEF gone
<1> QED BY <1>1, <1>4, <1>5, <1>6

LEMMA DecodeKeeps ==
    ASSUME SendersInv, NEW id \in Ids, NEW addr \in Addresses, Decode(id, addr)
    PROVE  SendersInv'
<1>1. PICK gone :
         /\ Displaced(id, addr) \subseteq gone
         /\ statuses' = Without(statuses, gone) /\ current' = CurrentWithout(gone)
         /\ addresses' = Without(addresses, gone) \/ Heard(id, addr, gone)
         /\ UNCHANGED <<wall, said>>
         /\ row' = [id |-> id, addr |-> addr,
                    dial |-> IF Has(statuses, id) /\ id \notin gone
                             THEN Entry(statuses, id).dial ELSE Unknown]
    BY DecodeIs
<1>2. said' \in [Ids -> [addr : Addresses, dial : Dials, at : 0..MaxTime] \cup {Silence}]
    BY <1>1 DEF SendersInv, SendersTypeOK
<1>3. Has(statuses, id) => Entry(statuses, id) \in StatusEntry
    BY SendersTypes, EntryIs DEF SendersInv
<1>4. row' \in [id : Ids, addr : Addresses \cup {Nowhere}, dial : Dials \cup {Unknown}]
    BY <1>1, <1>3 DEF StatusEntry
<1>5. \A x \in Ids : x \notin gone => said'[x] = said[x]
    BY <1>1
<1> QED BY <1>1, <1>2, <1>4, <1>5, Forgets

LEMMA SendersStep == SendersInv /\ [SendersNext]_sendersVars => SendersInv'
<1> SUFFICES ASSUME SendersInv, [SendersNext]_sendersVars PROVE SendersInv'
    OBVIOUS
<1>1. ASSUME NEW id \in Ids, NEW addr \in Addresses,
             \/ Heartbeat(id, addr) \/ CloseMessage(id, addr)
             \/ Decode(id, addr) \/ OtherMessage(id, addr)
             \/ \E dial \in Dials : Status(id, addr, dial)
      PROVE  SendersInv'
    BY <1>1, HeartbeatKeeps, StatusKeeps, CloseKeeps, DecodeKeeps, OtherKeeps
<1>2. CASE SetClock
    <2>1. UNCHANGED rememberedVars /\ said' = said /\ wall' \in 0..MaxTime /\ row' = NoRow
        BY <1>2 DEF SetClock
    <2> QED BY <2>1, StillSenders DEF NoRow, Ids
<1>3. CASE UNCHANGED sendersVars
    <2>1. UNCHANGED rememberedVars /\ said' = said /\ wall' = wall /\ row' = row
        BY <1>3 DEF sendersVars
    <2> QED BY <2>1, StillSenders DEF SendersInv, SendersTypeOK
<1> QED BY <1>1, <1>2, <1>3 DEF SendersNext

\* ingest.py, _apply_status and _forget_status: a status that is kept is what its receiver
\* said, at its address of now, and the two tables agree.
THEOREM SendersInvariant == SendersSpec => []SendersInv
<1> QED BY SendersStarts, SendersStep, PTL DEF SendersSpec

\* The two tables of receivers stay within 64 entries, hold one entry of each receiver,
\* and agree with each other and with the status that is shown, whatever is sent and
\* whichever of them gives up its oldest entry.
THEOREM SendersStayConsistent == SendersSpec => []SendersConsistent
<1>1. SendersInv => SendersConsistent
    BY DEF SendersInv
<1> QED BY <1>1, SendersInvariant, PTL

\* The step of DialFromItsReceiver.
LEMMA DialOfRow ==
    ASSUME SendersInv, SendersNext, row'.id # NoId, row'.dial # Unknown
    PROVE  LET last == said[row'.id] IN
           /\ last.addr = row'.addr /\ last.dial = row'.dial
           /\ last.at <= wall /\ wall <= last.at + MaxAge
<1>1. row' # NoRow
    BY DEF NoRow
<1>2. PICK id \in Ids, addr \in Addresses : Decode(id, addr)
    BY <1>1 DEF SendersNext, Heartbeat, Status, CloseMessage, OtherMessage, SetClock
<1>3. PICK gone :
         /\ Displaced(id, addr) \subseteq gone /\ (id \notin gone => ~Stale(id))
         /\ row' = [id |-> id, addr |-> addr,
                    dial |-> IF Has(statuses, id) /\ id \notin gone
                             THEN Entry(statuses, id).dial ELSE Unknown]
    BY <1>2, DecodeIs
<1>4. Has(statuses, id) /\ id \notin gone /\ ~Stale(id) /\ id # NoId
    BY <1>3
<1>5. row'.addr = addr /\ row'.id = id /\ row'.dial = Entry(statuses, id).dial
    BY <1>3, <1>4
<1>6. /\ Entry(statuses, id).at # Never
      /\ said[id] = [addr |-> Entry(addresses, id).addr, dial |-> Entry(statuses, id).dial,
                     at |-> Entry(statuses, id).at]
    BY <1>4, <1>5 DEF SendersInv, DialsSaid
<1>7. Has(addresses, id)
    BY <1>4 DEF SendersInv, SendersConsistent, CurrentIsRemembered, Ids
<1>8. Entry(addresses, id).addr = addr
    BY <1>3, <1>4, <1>7 DEF Displaced, Moved
<1>9. ~(wall < Entry(statuses, id).at \/ wall > Entry(statuses, id).at + MaxAge)
    BY <1>4, <1>6 DEF Stale
<1>10. /\ wall \in Nat /\ MaxAge \in Nat /\ Entry(statuses, id).at \in Nat
    <2>1. Entry(statuses, id) \in StatusEntry
        BY <1>4, SendersTypes, EntryIs DEF SendersInv
    <2> QED BY <2>1, UdpSendersAssumption DEF StatusEntry, Never, SendersInv, SendersTypeOK
<1>11. Entry(statuses, id).at <= wall /\ wall <= Entry(statuses, id).at + MaxAge
    BY <1>9, <1>10
<1> QED BY <1>5, <1>6, <1>8, <1>11

\* A Decode is stored with the dial frequency that its own receiver said last, from the
\* address that it still sends from and at most 120 s before, or with none.
THEOREM DialsAreTheReceivers == SendersSpec => DialFromItsReceiver
<1>1. SendersInv /\ [SendersNext]_sendersVars =>
         [(row'.id # NoId /\ row'.dial # Unknown) =>
             LET last == said[row'.id] IN
             /\ last.addr = row'.addr
             /\ last.dial = row'.dial
             /\ last.at <= wall /\ wall <= last.at + MaxAge]_sendersVars
    BY DialOfRow
<1> QED BY <1>1, SendersInvariant, PTL DEF SendersSpec, DialFromItsReceiver
-----------------------------------------------------------------------------
(***************************************************************************)
(* The stations, in the database and in the cache.                         *)
(***************************************************************************)
LogEntry == [call : Calls \cup {NoCall}, at : Times, sent : Grids \cup {NoGrid},
             grid : Grids \cup {NoGrid}, session : Nat, stored : BOOLEAN]

\* A summary said without a choice of the least or the greatest: these are decodes of
\* the station, and the others do not surpass them.
Shows(grid, heard, places) ==
    \/ Telling(heard, places) = {} /\ grid = NoGrid
    \/ \E i \in Telling(heard, places) :
          (\A j \in Telling(heard, places) : j <= i) /\ grid = heard[i].grid

IsSummary(s, heard, places) ==
    /\ s.count = Cardinality(places)
    /\ \A i \in places : s.first <= heard[i].at /\ heard[i].at <= s.last
    /\ places # {} => /\ \E i \in places : s.first = heard[i].at
                      /\ \E i \in places : s.last = heard[i].at
    /\ Shows(s.grid, heard, places)

\* What is handed on from one decode to the next: both tables and what was heard.
GridsWereSent(heard) ==
    \A i \in 1..Len(heard) : heard[i].grid # heard[i].sent =>
        \E j \in 1..(i - 1) : /\ heard[j].call = heard[i].call
                              /\ heard[j].session = heard[i].session
                              /\ heard[j].sent = heard[i].grid

Consistent(cached, kept, heard) ==
    /\ cached \in [Calls -> Summary] /\ kept \in [Bases -> Summary]
    /\ heard \in Seq(LogEntry) /\ Len(heard) <= MaxLog
    /\ \A i \in 1..Len(heard) : heard[i].session \in 1..opened
    /\ \A i \in 1..Len(heard) :
          [call |-> heard[i].call, at |-> heard[i].at, grid |-> heard[i].sent] \in Raw
    /\ \A b \in Bases : IsSummary(kept[b], heard, StoredOf(heard, b))
    /\ session # 0 => \A c \in Calls : IsSummary(cached[c], heard, HeardOf(heard, c))
    /\ GridsWereSent(heard)

StationsInv ==
    /\ opened \in 0..MaxSessions /\ session \in {0, opened} /\ ended \subseteq 1..opened
    /\ Consistent(cache, stations, log)

-----------------------------------------------------------------------------
\* What a batch makes of its first lines, for each number of them
Steps(f, N, start, raws) ==
    f = [n \in 0..N |-> IF n = 0 THEN start ELSE StoreLine(f[n - 1], raws[n])]

\* What the lines of a batch make, one after the other, exists.
LEMMA RecursionExists ==
    ASSUME NEW N \in Nat, NEW start, NEW raws
    PROVE  \E f : Steps(f, N, start, raws)
<1> DEFINE Good(n) == \E f : f = [i \in 0..n |-> IF i = 0 THEN start ELSE StoreLine(f[i - 1], raws[i])]
           Bad == {n \in Nat : ~Good(n)}
<1> SUFFICES ASSUME Bad # {} PROVE FALSE
    <2>1. CASE Bad = {}
        <3>1. PICK f : f = [i \in 0..N |-> IF i = 0 THEN start ELSE StoreLine(f[i - 1], raws[i])]
            BY <2>1
        <3> QED BY <3>1 DEF Steps
    <2> QED BY <2>1
<1>1. PICK m \in Bad : \A n \in Bad : m <= n
    <2> HIDE DEF Good
    <2> QED BY LeastNumber
<1>2. m # 0
    <2>1. Good(0)
        <3> DEFINE f == [i \in 0..0 |-> start]
        <3>1. f = [i \in 0..0 |-> IF i = 0 THEN start ELSE StoreLine(f[i - 1], raws[i])]
            OBVIOUS
        <3> QED BY <3>1
    <2> QED BY <2>1
<1>3. PICK g : g = [i \in 0..(m - 1) |-> IF i = 0 THEN start ELSE StoreLine(g[i - 1], raws[i])]
    <2>1. m \in Nat /\ m - 1 \in Nat /\ m - 1 < m
        BY <1>2
    <2>2. m - 1 \notin Bad
        <3> HIDE DEF Bad
        <3> QED BY <1>1, <2>1
    <2>3. Good(m - 1)
        <3> HIDE DEF Good
        <3> QED BY <2>1, <2>2
    <2> QED BY <2>3
<1> DEFINE f == [i \in 0..m |-> IF i = 0 THEN start ELSE StoreLine(g[i - 1], raws[i])]
<1>4. \A i \in 0..(m - 1) : f[i] = g[i]
    BY <1>2, <1>3
<1>5. \A i \in 0..m : i # 0 => g[i - 1] = f[i - 1]
    <2> HIDE DEF f
    <2> QED BY <1>2, <1>4
<1>6. f = [i \in 0..m |-> IF i = 0 THEN start ELSE StoreLine(f[i - 1], raws[i])]
    BY <1>5
<1>7. Good(m)
    BY <1>6
<1> QED BY <1>7

LEMMA SummaryTimes ==
    ASSUME NEW s \in Summary
    PROVE  s.first \in Nat /\ s.last \in Nat /\ s.count \in Nat
<1>1. Times \cup {0} \subseteq Nat
    BY StationsAssumption
<1>2. s.first \in Times \cup {0} /\ s.last \in Times \cup {0} /\ s.count \in 0..MaxLog
    BY DEF Summary
<1>3. s.first \in Nat
    BY <1>1, <1>2
<1>4. s.last \in Nat
    BY <1>1, <1>2
<1> QED BY <1>2, <1>3, <1>4

LEMMA SummaryHolds ==
    ASSUME NEW heard \in Seq(LogEntry), NEW places \in SUBSET (1..Len(heard)), NEW s \in Summary,
           IsSummary(s, heard, places)
    PROVE  Summarises(s, heard, places)
<1> DEFINE at == {heard[i].at : i \in places}
           telling == Telling(heard, places)
<1>1. at \subseteq Nat /\ telling \subseteq Nat /\ s.first \in Nat /\ s.last \in Nat
    <2>1. \A i \in places : heard[i] \in LogEntry
        BY ElementOfSeq
    <2>2. Times \subseteq Nat
        BY StationsAssumption
    <2>3. \A i \in places : heard[i].at \in Nat
        BY <2>1, <2>2 DEF LogEntry
    <2>4. s.first \in Nat /\ s.last \in Nat
        BY SummaryTimes
    <2>5. places \subseteq Nat
        OBVIOUS
    <2>6. telling \subseteq Nat
        BY <2>5 DEF Telling
    <2> QED BY <2>3, <2>4, <2>6
<1>2. places # {} => s.first = Min(at) /\ s.last = Max(at)
    <2> SUFFICES ASSUME places # {} PROVE s.first = Min(at) /\ s.last = Max(at)
        OBVIOUS
    <2>1. s.first \in at /\ s.last \in at /\ \A x \in at : s.first <= x /\ x <= s.last
        BY DEF IsSummary
    <2> HIDE DEF at
    <2>2. \A x \in at : (\A y \in at : x <= y) => x = s.first
        BY <1>1, <2>1
    <2>3. \A x \in at : (\A y \in at : x >= y) => x = s.last
        BY <1>1, <2>1
    <2>4. \A y \in at : s.last >= y
        BY <1>1, <2>1
    <2> QED BY <2>1, <2>2, <2>3, <2>4 DEF Min, Max
<1>3. s.grid = ShownGrid(heard, places)
    <2>1. CASE telling = {}
        BY <2>1 DEF IsSummary, Shows, ShownGrid
    <2>2. CASE telling # {}
        <3>1. PICK i \in telling : (\A j \in telling : j <= i) /\ s.grid = heard[i].grid
            BY <2>2 DEF IsSummary, Shows
        <3>2. ShownGrid(heard, places) = heard[Max(telling)].grid
            BY <2>2 DEF ShownGrid
        <3> HIDE DEF telling
        <3>3. \A j \in telling : (\A k \in telling : j >= k) => j = i
            BY <1>1, <3>1
        <3>4. \A j \in telling : i >= j
            BY <1>1, <3>1
        <3>5. Max(telling) = i
            BY <3>1, <3>3, <3>4 DEF Max
        <3> QED BY <3>1, <3>2, <3>5
    <2> QED BY <2>1, <2>2
<1> QED BY <1>2, <1>3 DEF IsSummary, Summarises

LEMMA AfterAppend ==
    ASSUME NEW heard \in Seq(LogEntry), NEW e \in LogEntry
    PROVE  /\ Append(heard, e) \in Seq(LogEntry) /\ Len(heard) \in Nat
           /\ Len(Append(heard, e)) = Len(heard) + 1
           /\ \A i \in 1..Len(heard) : Append(heard, e)[i] = heard[i]
           /\ Append(heard, e)[Len(heard) + 1] = e
OBVIOUS

\* The summary of a station of which nothing came
LEMMA SummaryStays ==
    ASSUME NEW heard \in Seq(LogEntry), NEW e \in LogEntry, NEW s,
           NEW places \in SUBSET (1..Len(heard)), IsSummary(s, heard, places)
    PROVE  IsSummary(s, Append(heard, e), places)
<1>1. \A i \in places : Append(heard, e)[i] = heard[i]
    BY AfterAppend
<1>2. Telling(Append(heard, e), places) = Telling(heard, places)
    BY <1>1 DEF Telling
<1>3. Telling(heard, places) \subseteq places
    BY DEF Telling
<1>4. Shows(s.grid, Append(heard, e), places)
    BY <1>1, <1>2, <1>3 DEF IsSummary, Shows
<1> QED BY <1>1, <1>4 DEF IsSummary

\* ... and of the one that a decode came from
LEMMA SummaryMerges ==
    ASSUME NEW heard \in Seq(LogEntry), NEW e \in LogEntry, NEW s \in Summary,
           NEW places \in SUBSET (1..Len(heard)), IsSummary(s, heard, places),
           NEW d, d.at = e.at, d.grid = e.grid, Len(heard) < MaxLog
    PROVE  /\ Merge(s, d) \in Summary
           /\ IsSummary(Merge(s, d), Append(heard, e), places \cup {Len(heard) + 1})
<1> DEFINE last == Len(heard) + 1
           all  == Append(heard, e)
           new  == places \cup {last}
           m    == Merge(s, d)
           latest == s.count = 0 \/ d.at >= s.last
<1>1. /\ Len(heard) \in Nat /\ last \in Nat /\ last \notin places /\ all[last] = e
      /\ \A i \in places : all[i] = heard[i] /\ i \in Nat /\ i < last /\ heard[i] \in LogEntry
    <2>1. \A i \in 1..Len(heard) : all[i] = heard[i] /\ heard[i] \in LogEntry
        BY AfterAppend, ElementOfSeq
    <2> QED BY <2>1, AfterAppend
<1>2. /\ e.at \in Times /\ e.at \in Nat /\ e.grid \in Grids \cup {NoGrid}
      /\ s.count \in Nat /\ s.first \in Times \cup {0} /\ s.last \in Times \cup {0}
      /\ s.first \in Nat /\ s.last \in Nat /\ s.grid \in Grids \cup {NoGrid}
      /\ \A i \in places : heard[i].at \in Nat
    <2>1. Times \subseteq Nat /\ MaxLog \in Nat
        BY StationsAssumption
    <2>2. e.at \in Times /\ e.grid \in Grids \cup {NoGrid} /\ \A i \in places : heard[i].at \in Times
        BY <1>1 DEF LogEntry
    <2>3. /\ s.count \in 0..MaxLog /\ s.first \in Times \cup {0} /\ s.last \in Times \cup {0}
          /\ s.grid \in Grids \cup {NoGrid}
        BY DEF Summary
    <2>4. s.first \in Nat /\ s.last \in Nat /\ s.count \in Nat
        BY SummaryTimes
    <2>5. e.at \in Nat /\ \A i \in places : heard[i].at \in Nat
        BY <2>1, <2>2
    <2> QED BY <2>2, <2>3, <2>4, <2>5
<1>3. /\ m.count = s.count + 1
      /\ m.first = IF s.count = 0 \/ e.at < s.first THEN e.at ELSE s.first
      /\ m.last  = IF latest THEN e.at ELSE s.last
      /\ m.grid  = IF latest /\ e.grid # NoGrid THEN e.grid ELSE s.grid
      /\ m = [count |-> m.count, first |-> m.first, last |-> m.last, grid |-> m.grid]
    BY DEF Merge
<1>4. /\ IsFiniteSet(places) /\ Cardinality(places) \in Nat /\ Cardinality(places) <= Len(heard)
      /\ Cardinality(new) = Cardinality(places) + 1
      /\ s.count = Cardinality(places) /\ (s.count = 0 <=> places = {})
    <2>1. IsFiniteSet(1..Len(heard)) /\ Cardinality(1..Len(heard)) = Len(heard)
        BY <1>1, IntervalFromOne
    <2>2. IsFiniteSet(places) /\ Cardinality(places) <= Len(heard)
        BY <2>1, FS_Subset
    <2> QED BY <1>1, <2>2, FS_CardinalityType, FS_AddElement, FS_EmptySet DEF IsSummary
<1>5. \A i \in places : s.first <= heard[i].at /\ heard[i].at <= s.last
    BY DEF IsSummary
<1> HIDE DEF all, new, m, last
<1>6. m \in Summary
    <2>1. m.count \in 0..MaxLog
        BY <1>1, <1>3, <1>4, StationsAssumption
    <2>2. m.first \in Times \cup {0} /\ m.last \in Times \cup {0} /\ m.grid \in Grids \cup {NoGrid}
        BY <1>2, <1>3
    <2> QED BY <1>3, <2>1, <2>2 DEF Summary
<1>7. \A i \in new : (i = last /\ all[i] = e) \/ (i \in places /\ all[i] = heard[i])
    BY <1>1 DEF new
<1>8. \A i \in new : m.first <= all[i].at /\ all[i].at <= m.last
    <2>1. m.first <= e.at /\ e.at <= m.last
        BY <1>2, <1>3
    <2>2. ASSUME NEW i \in places PROVE m.first <= heard[i].at /\ heard[i].at <= m.last
        <3>1. s.count # 0 /\ s.first <= heard[i].at /\ heard[i].at <= s.last
            BY <1>4, <1>5
        <3>2. m.first <= s.first /\ s.last <= m.last /\ m.first \in Nat /\ m.last \in Nat
            BY <1>2, <1>3, <3>1
        <3> QED BY <1>2, <3>1, <3>2
    <2> QED BY <1>7, <2>1, <2>2
<1>9. (\E i \in new : m.first = all[i].at) /\ (\E i \in new : m.last = all[i].at)
    <2>1. last \in new /\ all[last].at = e.at
        BY <1>1 DEF new
    <2>2. \A i \in places : i \in new /\ all[i].at = heard[i].at
        BY <1>1 DEF new
    <2>3. CASE places = {}
        BY <1>3, <1>4, <2>1, <2>3
    <2>4. CASE places # {}
        <3>1. (\E i \in places : s.first = heard[i].at) /\ (\E i \in places : s.last = heard[i].at)
            BY <2>4 DEF IsSummary
        <3>2. m.first \in {e.at, s.first} /\ m.last \in {e.at, s.last}
            BY <1>3
        <3> QED BY <2>1, <2>2, <3>1, <3>2
    <2> QED BY <2>3, <2>4
<1>10. \A i \in places : i \in Telling(all, new) <=> i \in Telling(heard, places)
    <2> SUFFICES ASSUME NEW i \in places
                 PROVE  i \in Telling(all, new) <=> i \in Telling(heard, places)
        OBVIOUS
    <2>1. i \in new /\ all[i] = heard[i]
        BY <1>1 DEF new
    <2>2. \A j : j \in new /\ j <= i <=> j \in places /\ j <= i
        BY <1>1 DEF new
    <2> QED BY <1>1, <2>1, <2>2 DEF Telling
<1>11. last \in Telling(all, new) <=> latest /\ e.grid # NoGrid
    <2>1. last \in Telling(all, new) <=> e.grid # NoGrid /\ \A j \in places : heard[j].at <= e.at
        <3>1. last \in new /\ all[last] = e /\ e.at <= e.at
            BY <1>1, <1>2 DEF new
        <3>2. \A j \in new : j <= last
            BY <1>1 DEF new
        <3>3. (\A j \in new : all[j].at <= e.at) <=> \A j \in places : heard[j].at <= e.at
            <4>1. places \subseteq new
                BY DEF new
            <4> QED BY <1>7, <3>1, <4>1, <1>1
        <3> QED BY <3>1, <3>2, <3>3 DEF Telling
    <2>2. latest <=> \A j \in places : heard[j].at <= e.at
        <3>1. CASE places = {}
            BY <1>4, <3>1
        <3>2. CASE places # {}
            <4>1. PICK i \in places : s.last = heard[i].at
                BY <3>2 DEF IsSummary
            <4>2. s.count # 0
                BY <1>4, <3>2
            <4>3. s.last <= e.at => \A j \in places : heard[j].at <= e.at
                BY <1>2, <1>5
            <4>4. (\A j \in places : heard[j].at <= e.at) => s.last <= e.at
                BY <4>1
            <4>5. latest <=> s.last <= e.at
                BY <1>2, <4>2
            <4> QED BY <4>3, <4>4, <4>5
        <3> QED BY <3>1, <3>2
    <2> HIDE DEF latest
    <2> QED BY <2>1, <2>2
<1> HIDE DEF latest
<1>12. Telling(all, new) \subseteq new /\ Telling(heard, places) \subseteq places
    BY DEF Telling
<1>13. Shows(m.grid, all, new)
    <2>1. CASE latest /\ e.grid # NoGrid
        <3>1. last \in Telling(all, new) /\ m.grid = all[last].grid
            BY <1>1, <1>3, <1>11, <2>1
        <3>2. \A j \in Telling(all, new) : j <= last
            <4>1. \A j \in new : j = last \/ (j \in Nat /\ j < last)
                BY <1>1, <1>7
            <4>2. \A j \in new : j <= last
                BY <1>1, <4>1
            <4> QED BY <1>12, <4>2
        <3> QED BY <3>1, <3>2 DEF Shows
    <2>2. CASE ~(latest /\ e.grid # NoGrid)
        <3>1. Telling(all, new) = Telling(heard, places)
            BY <1>1, <1>7, <1>10, <1>11, <1>12, <2>2
        <3>2. m.grid = s.grid
            BY <1>3, <2>2
        <3>3. \A i \in Telling(heard, places) : all[i].grid = heard[i].grid
            BY <1>1, <1>12
        <3>4. Shows(s.grid, heard, places)
            BY DEF IsSummary
        <3> QED BY <3>1, <3>2, <3>3, <3>4 DEF Shows
    <2> QED BY <2>1, <2>2
<1>14. m.count = Cardinality(new)
    BY <1>3, <1>4
<1>15. IsSummary(m, all, new)
    BY <1>8, <1>9, <1>13, <1>14 DEF IsSummary
<1> QED BY <1>6, <1>15 DEF m, all, new, last

\* One more decode, stored or not
LEMMA OneMoreDecode ==
    ASSUME NEW cached, NEW kept, NEW heard, Consistent(cached, kept, heard),
           session \in 1..opened, opened \in Nat, NEW raw \in Raw, Len(heard) < MaxLog,
           NEW stored \in BOOLEAN, NEW d, d = Enriched(cached, raw)
    PROVE  Consistent(UpdateFromObservation(cached, d), IF stored THEN TouchStation(kept, d) ELSE kept,
                      Append(heard, Outcome(d, stored)))
<1> DEFINE e    == Outcome(d, stored)
           last == Len(heard) + 1
           all  == Append(heard, e)
           cachedAfter == UpdateFromObservation(cached, d)
           keptAfter  == IF stored THEN TouchStation(kept, d) ELSE kept
<1>1. /\ cached \in [Calls -> Summary] /\ kept \in [Bases -> Summary] /\ heard \in Seq(LogEntry)
      /\ Len(heard) \in Nat /\ MaxLog \in Nat
      /\ \A b \in Bases : IsSummary(kept[b], heard, StoredOf(heard, b))
      /\ \A c \in Calls : IsSummary(cached[c], heard, HeardOf(heard, c))
      /\ GridsWereSent(heard)
      /\ \A i \in 1..Len(heard) : heard[i].session \in 1..opened
      /\ \A i \in 1..Len(heard) :
            [call |-> heard[i].call, at |-> heard[i].at, grid |-> heard[i].sent] \in Raw
    BY StationsAssumption DEF Consistent
<1>2. /\ raw.call \in Calls \cup {NoCall} /\ raw.at \in Times /\ raw.grid \in Grids \cup {NoGrid}
      /\ raw = [call |-> raw.call, at |-> raw.at, grid |-> raw.grid]
    BY DEF Raw
<1>3. d.call = raw.call /\ d.at = raw.at /\ d.sent = raw.grid /\ d.session = session
    BY DEF Enriched
<1>4. d.grid = ResolveGrid(cached, raw)
    BY DEF Enriched
<1>5. d.grid \in Grids \cup {NoGrid}
    <2>1. CASE raw.grid # NoGrid \/ raw.call = NoCall
        BY <1>2, <1>4, <2>1 DEF ResolveGrid
    <2>2. CASE raw.grid = NoGrid /\ raw.call \in Calls
        <3>1. raw.call # NoCall
            BY <2>2, StationsAssumption
        <3>2. d.grid = cached[raw.call].grid /\ cached[raw.call] \in Summary
            BY <1>1, <1>4, <2>2, <3>1 DEF ResolveGrid
        <3> QED BY <3>2 DEF Summary
    <2> QED BY <1>2, <2>1, <2>2
<1>6. /\ e.call = raw.call /\ e.at = raw.at /\ e.sent = raw.grid /\ e.grid = d.grid
      /\ e.session = session /\ e.stored = stored
      /\ e \in LogEntry
    <2>1. /\ e = [call |-> raw.call, at |-> raw.at, sent |-> raw.grid, grid |-> d.grid,
                  session |-> session, stored |-> stored]
        BY <1>3 DEF Outcome
    <2>2. session \in Nat
        OBVIOUS
    <2> QED BY <1>2, <1>5, <2>1, <2>2 DEF LogEntry
<1>7. d.at = e.at /\ d.grid = e.grid
    BY <1>3, <1>6
<1>8. /\ all \in Seq(LogEntry) /\ Len(all) = last /\ last \in Nat /\ Len(all) <= MaxLog
      /\ all[last] = e /\ \A i \in 1..Len(heard) : all[i] = heard[i]
      /\ \A i \in 1..Len(all) : i = last \/ i \in 1..Len(heard)
      /\ last \in 1..Len(all) /\ last \notin 1..Len(heard) /\ 1..Len(heard) \subseteq 1..Len(all)
    <2> HIDE DEF e
    <2> QED BY <1>1, <1>6, AfterAppend
<1> HIDE DEF e, all, last
<1>9. ASSUME NEW b \in Bases
      PROVE  StoredOf(all, b) = IF stored /\ raw.call # NoCall /\ BaseOf[raw.call] = b
                                THEN StoredOf(heard, b) \cup {last} ELSE StoredOf(heard, b)
    <2>1. \A i \in 1..Len(heard) : i \in StoredOf(all, b) <=> i \in StoredOf(heard, b)
        BY <1>8 DEF StoredOf
    <2>2. last \in StoredOf(all, b) <=> stored /\ raw.call # NoCall /\ BaseOf[raw.call] = b
        BY <1>6, <1>8 DEF StoredOf
    <2>3. StoredOf(all, b) \subseteq 1..Len(all) /\ StoredOf(heard, b) \subseteq 1..Len(heard)
        BY DEF StoredOf
    <2>4. \A i : i \in StoredOf(all, b) <=>
                 i \in StoredOf(heard, b) \/ (i = last /\ stored /\ raw.call # NoCall /\ BaseOf[raw.call] = b)
        BY <1>8, <2>1, <2>2, <2>3
    <2> QED BY <2>4
<1>10. ASSUME NEW c \in Calls
       PROVE  HeardOf(all, c) = IF raw.call = c THEN HeardOf(heard, c) \cup {last} ELSE HeardOf(heard, c)
    <2>1. \A i \in 1..Len(heard) : i \in HeardOf(all, c) <=> i \in HeardOf(heard, c)
        BY <1>8 DEF HeardOf
    <2>2. last \in HeardOf(all, c) <=> raw.call = c
        BY <1>6, <1>8 DEF HeardOf
    <2>3. HeardOf(all, c) \subseteq 1..Len(all) /\ HeardOf(heard, c) \subseteq 1..Len(heard)
        BY DEF HeardOf
    <2>4. \A i : i \in HeardOf(all, c) <=>
                 i \in HeardOf(heard, c) \/ (i = last /\ raw.call = c)
        BY <1>8, <2>1, <2>2, <2>3
    <2> QED BY <2>4
<1>11. ASSUME NEW s \in Summary, NEW places \in SUBSET (1..Len(heard)), IsSummary(s, heard, places)
       PROVE  /\ IsSummary(s, all, places)
              /\ Merge(s, d) \in Summary /\ IsSummary(Merge(s, d), all, places \cup {last})
    BY <1>1, <1>6, <1>7, <1>11, SummaryStays, SummaryMerges DEF all, last
<1>12. keptAfter \in [Bases -> Summary] /\ \A b \in Bases : IsSummary(keptAfter[b], all, StoredOf(all, b))
    <2>1. ASSUME NEW b \in Bases
          PROVE  /\ kept[b] \in Summary /\ StoredOf(heard, b) \in SUBSET (1..Len(heard))
                 /\ IsSummary(kept[b], all, StoredOf(heard, b))
                 /\ Merge(kept[b], d) \in Summary
                 /\ IsSummary(Merge(kept[b], d), all, StoredOf(heard, b) \cup {last})
        <3>1. kept[b] \in Summary /\ StoredOf(heard, b) \in SUBSET (1..Len(heard))
            BY <1>1 DEF StoredOf
        <3> QED BY <1>1, <1>11, <3>1
    <2>2. CASE stored /\ raw.call # NoCall
        <3>1. BaseOf[raw.call] \in Bases
            BY <1>2, <2>2, StationsAssumption
        <3>2. keptAfter = [kept EXCEPT ![BaseOf[raw.call]] = Merge(@, d)]
            BY <1>3, <2>2 DEF TouchStation
        <3> HIDE DEF keptAfter
        <3>3. \A b \in Bases : keptAfter[b] = IF b = BaseOf[raw.call] THEN Merge(kept[b], d) ELSE kept[b]
            BY <1>1, <3>1, <3>2
        <3>4. keptAfter \in [Bases -> Summary]
            BY <1>1, <2>1, <3>1, <3>2
        <3> QED BY <1>9, <2>1, <2>2, <3>3, <3>4
    <2>3. CASE ~(stored /\ raw.call # NoCall)
        <3>1. keptAfter = kept
            BY <1>3, <2>3 DEF TouchStation
        <3> HIDE DEF keptAfter
        <3> QED BY <1>1, <1>9, <2>1, <2>3, <3>1
    <2> QED BY <2>2, <2>3
<1>13. cachedAfter \in [Calls -> Summary] /\ \A c \in Calls : IsSummary(cachedAfter[c], all, HeardOf(all, c))
    <2>1. ASSUME NEW c \in Calls
          PROVE  /\ cached[c] \in Summary /\ HeardOf(heard, c) \in SUBSET (1..Len(heard))
                 /\ IsSummary(cached[c], all, HeardOf(heard, c))
                 /\ Merge(cached[c], d) \in Summary
                 /\ IsSummary(Merge(cached[c], d), all, HeardOf(heard, c) \cup {last})
        <3>1. cached[c] \in Summary /\ HeardOf(heard, c) \in SUBSET (1..Len(heard))
            BY <1>1 DEF HeardOf
        <3> QED BY <1>1, <1>11, <3>1
    <2>2. CASE raw.call \in Calls
        <3>1. cachedAfter = [cached EXCEPT ![raw.call] = Merge(@, d)]
            BY <1>3, <2>2, StationsAssumption DEF UpdateFromObservation
        <3> HIDE DEF cachedAfter
        <3>2. \A c \in Calls : cachedAfter[c] = IF c = raw.call THEN Merge(cached[c], d) ELSE cached[c]
            BY <1>1, <2>2, <3>1
        <3>3. cachedAfter \in [Calls -> Summary]
            BY <1>1, <2>1, <2>2, <3>1
        <3> QED BY <1>10, <2>1, <3>2, <3>3
    <2>3. CASE raw.call = NoCall
        <3>1. cachedAfter = cached /\ raw.call \notin Calls
            BY <1>3, <2>3, StationsAssumption DEF UpdateFromObservation
        <3> HIDE DEF cachedAfter
        <3> QED BY <1>1, <1>10, <2>1, <3>1
    <2> QED BY <1>2, <2>2, <2>3
<1>14. GridsWereSent(all)
    <2> SUFFICES ASSUME NEW i \in 1..Len(all), all[i].grid # all[i].sent
                 PROVE  \E j \in 1..(i - 1) : /\ all[j].call = all[i].call
                                              /\ all[j].session = all[i].session
                                              /\ all[j].sent = all[i].grid
        BY DEF GridsWereSent
    <2>1. CASE i \in 1..Len(heard)
        <3>1. PICK j \in 1..(i - 1) : /\ heard[j].call = heard[i].call
                                      /\ heard[j].session = heard[i].session
                                      /\ heard[j].sent = heard[i].grid
            BY <1>1, <1>8, <2>1 DEF GridsWereSent
        <3>2. j \in 1..Len(heard)
            BY <1>1, <2>1
        <3> QED BY <1>8, <2>1, <3>1, <3>2
    <2>2. CASE i = last
        <3>1. d.grid # raw.grid /\ all[i] = e
            BY <1>6, <1>8, <2>2
        <3>2. raw.grid = NoGrid /\ raw.call \in Calls /\ d.grid = cached[raw.call].grid
            BY <1>2, <1>4, <3>1 DEF ResolveGrid
        <3>3. IsSummary(cached[raw.call], heard, HeardOf(heard, raw.call))
            BY <1>1, <3>2
        <3>4. Shows(d.grid, heard, HeardOf(heard, raw.call)) /\ d.grid # NoGrid
            BY <3>1, <3>2, <3>3 DEF IsSummary
        <3>5. PICK k \in HeardOf(heard, raw.call) : d.grid = heard[k].grid
            BY <3>4 DEF Shows, Telling
        <3>6. k \in 1..Len(heard) /\ heard[k].call = raw.call /\ heard[k].session = session
            BY <3>5 DEF HeardOf
        <3>7. \E j \in 1..Len(heard) : /\ heard[j].call = raw.call /\ heard[j].session = session
                                       /\ heard[j].sent = d.grid
            <4>1. CASE heard[k].sent = heard[k].grid
                BY <3>5, <3>6, <4>1
            <4>2. CASE heard[k].sent # heard[k].grid
                <5>1. PICK j \in 1..(k - 1) : /\ heard[j].call = heard[k].call
                                              /\ heard[j].session = heard[k].session
                                              /\ heard[j].sent = heard[k].grid
                    BY <1>1, <3>6, <4>2 DEF GridsWereSent
                <5>2. j \in 1..Len(heard)
                    BY <1>1, <3>6
                <5> QED BY <3>5, <3>6, <5>1, <5>2
            <4> QED BY <4>1, <4>2
        <3>8. PICK j \in 1..Len(heard) : /\ heard[j].call = raw.call /\ heard[j].session = session
                                         /\ heard[j].sent = d.grid
            BY <3>7
        <3>9. j \in 1..(i - 1)
            BY <1>1, <2>2 DEF last
        <3> QED BY <1>6, <1>8, <3>1, <3>8, <3>9
    <2> QED BY <1>8, <2>1, <2>2
<1>15. \A i \in 1..Len(all) : all[i].session \in 1..opened
    BY <1>1, <1>6, <1>8
<1>16. \A i \in 1..Len(all) : [call |-> all[i].call, at |-> all[i].at, grid |-> all[i].sent] \in Raw
    BY <1>1, <1>2, <1>6, <1>8
<1> HIDE DEF cachedAfter, keptAfter
<1>17. Consistent(cachedAfter, keptAfter, all)
    BY <1>8, <1>12, <1>13, <1>14, <1>15, <1>16 DEF Consistent
<1> QED BY <1>17 DEF cachedAfter, keptAfter, all, e

-----------------------------------------------------------------------------
LEMMA RawKeeps ==
    ASSUME StationsInv, NEW raw \in Raw, IngestRaw(raw)
    PROVE  StationsInv'
<1> DEFINE d == Enriched(cache, raw)
<1>1. PICK stored \in BOOLEAN :
         /\ cache' = UpdateFromObservation(cache, d)
         /\ stations' = IF stored THEN TouchStation(stations, d) ELSE stations
         /\ log' = Append(log, Outcome(d, stored))
    BY DEF IngestRaw
<1>2. session # 0 /\ Len(log) < MaxLog /\ UNCHANGED <<opened, session, ended>>
    BY DEF IngestRaw
<1>3. session \in 1..opened /\ opened \in Nat
    BY <1>2, StationsAssumption DEF StationsInv
<1>4. Consistent(cache, stations, log)
    BY DEF StationsInv
<1>5. Consistent(UpdateFromObservation(cache, d),
                 IF stored THEN TouchStation(stations, d) ELSE stations, Append(log, Outcome(d, stored)))
    BY <1>2, <1>3, <1>4, OneMoreDecode
<1> HIDE DEF d
<1>6. Consistent(cache', stations', log')
    BY <1>1, <1>5
<1>7. Consistent(cache', stations', log') => Consistent(cache, stations, log)'
    BY <1>2 DEF Consistent, HeardOf, StoredOf
<1> QED BY <1>2, <1>6, <1>7 DEF StationsInv

\* All the lines of a batch, however many
LEMMA BatchKeeps ==
    ASSUME StationsInv, NEW raws, Len(raws) \in Nat, \A n \in 1..Len(raws) : raws[n] \in Raw,
           IngestBatch(raws)
    PROVE  StationsInv'
<1> DEFINE after[n \in 0..Len(raws)] ==
               IF n = 0 THEN [cache |-> cache, stations |-> stations, log |-> log]
                        ELSE StoreLine(after[n - 1], raws[n])
<1>1. /\ session # 0 /\ Len(log) + Len(raws) <= MaxLog
      /\ UNCHANGED <<opened, session, ended>>
      /\ \/ cache' = after[Len(raws)].cache /\ stations' = after[Len(raws)].stations
            /\ log' = after[Len(raws)].log
         \/ UNCHANGED <<cache, stations, log>>
    BY DEF IngestBatch, CacheRestored
<1>2. after = [n \in 0..Len(raws) |->
                  IF n = 0 THEN [cache |-> cache, stations |-> stations, log |-> log]
                           ELSE StoreLine(after[n - 1], raws[n])]
    <2> DEFINE start == [cache |-> cache, stations |-> stations, log |-> log]
               N == Len(raws)
    <2> HIDE DEF start, N
    <2>1. N \in Nat
        BY DEF N
    <2>2. PICK f : Steps(f, N, start, raws)
        BY <2>1, RecursionExists
    <2>3. f = [n \in 0..N |-> IF n = 0 THEN start ELSE StoreLine(f[n - 1], raws[n])]
        BY <2>2 DEF Steps
    <2> QED BY <2>3 DEF start, N
<1> HIDE DEF after
<1>3. session \in 1..opened /\ opened \in Nat /\ Consistent(cache, stations, log)
    BY <1>1, StationsAssumption DEF StationsInv
<1>4. Len(log) \in Nat /\ MaxLog \in Nat
    BY <1>3, StationsAssumption DEF Consistent
<1> DEFINE Held(n) == /\ Consistent(after[n].cache, after[n].stations, after[n].log)
                      /\ Len(after[n].log) = Len(log) + n
           Bad == {n \in 0..Len(raws) : ~Held(n)}
<1>5. Bad = {}
    <2> SUFFICES ASSUME Bad # {} PROVE FALSE
        OBVIOUS
    <2>1. PICK m \in Bad : \A n \in Bad : m <= n
        <3>1. Bad \in SUBSET Nat
            OBVIOUS
        <3> HIDE DEF Bad
        <3> QED BY <3>1, LeastNumber
    <2>2. m # 0
        <3>1. after[0] = [cache |-> cache, stations |-> stations, log |-> log]
            BY <1>2
        <3>2. Held(0)
            BY <1>3, <1>4, <3>1
        <3> QED BY <3>2
    <2>3. m \in 1..Len(raws) /\ m - 1 \in 0..Len(raws) /\ m - 1 < m
        BY <2>1, <2>2
    <2>4. Held(m - 1)
        <3> HIDE DEF Held
        <3> QED BY <2>1, <2>3
    <2>5. after[m] = StoreLine(after[m - 1], raws[m])
        BY <1>2, <2>3
    <2> HIDE DEF Held, Bad
    <2> DEFINE d == Enriched(after[m - 1].cache, raws[m])
    <2>6. /\ after[m].cache = UpdateFromObservation(after[m - 1].cache, d)
          /\ after[m].stations = TouchStation(after[m - 1].stations, d)
          /\ after[m].log = Append(after[m - 1].log, Outcome(d, TRUE))
        <3>1. /\ StoreLine(after[m - 1], raws[m]).cache = UpdateFromObservation(after[m - 1].cache, d)
              /\ StoreLine(after[m - 1], raws[m]).stations = TouchStation(after[m - 1].stations, d)
              /\ StoreLine(after[m - 1], raws[m]).log = Append(after[m - 1].log, Outcome(d, TRUE))
            BY DEF StoreLine
        <3> QED BY <2>5, <3>1
    <2>7. Len(after[m - 1].log) < MaxLog /\ raws[m] \in Raw
        BY <1>1, <1>4, <2>3, <2>4 DEF Held
    <2>8. Consistent(UpdateFromObservation(after[m - 1].cache, d),
                     IF TRUE THEN TouchStation(after[m - 1].stations, d) ELSE after[m - 1].stations,
                     Append(after[m - 1].log, Outcome(d, TRUE)))
        BY <1>3, <2>4, <2>7, OneMoreDecode DEF Held
    <2>9. Len(after[m].log) = Len(after[m - 1].log) + 1
        <3>1. after[m - 1].log \in Seq(LogEntry)
            BY <2>4 DEF Held, Consistent
        <3> HIDE DEF d
        <3> QED BY <2>6, <3>1
    <2>10. Len(after[m].log) = Len(log) + m
        BY <1>4, <2>3, <2>4, <2>9 DEF Held
    <2> HIDE DEF d
    <2>11. Held(m)
        BY <2>6, <2>8, <2>10 DEF Held
    <2> QED BY <2>1, <2>11 DEF Bad
<1>6. Held(Len(raws))
    <2> HIDE DEF Held
    <2> QED BY <1>5
<1>7. Consistent(cache', stations', log')
    BY <1>1, <1>3, <1>6
<1>8. Consistent(cache', stations', log') => Consistent(cache, stations, log)'
    BY <1>1 DEF Consistent, HeardOf, StoredOf
<1> QED BY <1>1, <1>7, <1>8 DEF StationsInv

\* A station of which nothing was heard
LEMMA NothingHeard ==
    ASSUME NEW heard
    PROVE  Unheard \in Summary /\ IsSummary(Unheard, heard, {})
<1>1. Cardinality({}) = 0 /\ 0 \in 0..MaxLog
    BY StationsAssumption, FS_EmptySet
<1>2. Telling(heard, {}) = {}
    BY DEF Telling
<1> QED BY <1>1, <1>2 DEF Unheard, Summary, IsSummary, Shows

LEMMA StationsStarts == StationsInit => StationsInv
<1> SUFFICES ASSUME StationsInit PROVE StationsInv
    OBVIOUS
<1>1. /\ cache = [c \in Calls |-> Unheard] /\ stations = [b \in Bases |-> Unheard]
      /\ opened = 0 /\ session = 0 /\ ended = {} /\ log = <<>>
    BY DEF StationsInit
<1>2. MaxLog \in Nat /\ MaxSessions \in Nat /\ Unheard \in Summary /\ IsSummary(Unheard, log, {})
    BY StationsAssumption, NothingHeard
<1>3. Len(log) = 0 /\ log \in Seq(LogEntry) /\ 1..Len(log) = {}
    BY <1>1
<1>4. \A b \in Bases : StoredOf(log, b) = {}
    BY <1>3 DEF StoredOf
<1>5. \A b \in Bases : stations[b] = Unheard
    BY <1>1
<1>6. cache \in [Calls -> Summary] /\ stations \in [Bases -> Summary]
    BY <1>1, <1>2
<1>7. GridsWereSent(log)
    BY <1>3 DEF GridsWereSent
<1>8. Consistent(cache, stations, log)
    <2>1. \A b \in Bases : IsSummary(stations[b], log, StoredOf(log, b))
        BY <1>2, <1>4, <1>5
    <2>2. Len(log) <= MaxLog
        BY <1>2, <1>3
    <2>3. session = 0
        BY <1>1
    <2> QED BY <1>3, <1>6, <1>7, <2>1, <2>2, <2>3 DEF Consistent
<1> QED BY <1>1, <1>2, <1>8 DEF StationsInv

LEMMA SessionKeeps ==
    ASSUME StationsInv, StartSession \/ EndSession
    PROVE  StationsInv'
<1>1. CASE StartSession
    <2>1. /\ session = 0 /\ opened < MaxSessions /\ opened' = opened + 1 /\ session' = opened + 1
          /\ cache' = [c \in Calls |-> Unheard] /\ UNCHANGED <<stations, ended, log>>
          /\ opened \in Nat /\ MaxSessions \in Nat
        BY <1>1, StationsAssumption DEF StartSession, StationsInv
    <2>2. Consistent(cache, stations, log)
        BY DEF StationsInv
    <2>3. \A i \in 1..Len(log) : log[i].session \in 1..opened
        BY <2>2 DEF Consistent
    <2>4. \A c \in Calls : HeardOf(log, c)' = {}
        BY <2>1, <2>3 DEF HeardOf
    <2>5. \A c \in Calls : IsSummary(cache'[c], log', HeardOf(log, c)')
        BY <2>1, <2>4, NothingHeard
    <2>6. cache' \in [Calls -> Summary]
        BY <2>1, NothingHeard
    <2>7. \A i \in 1..Len(log) : log[i].session \in 1..opened'
        BY <2>1, <2>3
    <2>8. Consistent(cache, stations, log)'
        BY <2>1, <2>2, <2>5, <2>6, <2>7 DEF Consistent, StoredOf
    <2>9. opened' \in 0..MaxSessions /\ ended' \subseteq 1..opened' /\ session' \in {0, opened'}
        BY <2>1 DEF StationsInv
    <2> QED BY <2>8, <2>9 DEF StationsInv
<1>2. CASE EndSession
    <2>1. /\ session # 0 /\ session' = 0 /\ ended' \in {ended, ended \cup {session}}
          /\ UNCHANGED <<cache, stations, opened, log>>
        BY <1>2 DEF EndSession
    <2>2. Consistent(cache, stations, log)'
        BY <2>1 DEF StationsInv, Consistent, StoredOf
    <2>3. ended' \subseteq 1..opened
        BY <2>1, StationsAssumption DEF StationsInv
    <2> QED BY <2>1, <2>2, <2>3 DEF StationsInv
<1> QED BY <1>1, <1>2

LEMMA StationsStep == StationsInv /\ [StationsNext]_stationVars => StationsInv'
<1> SUFFICES ASSUME StationsInv, [StationsNext]_stationVars PROVE StationsInv'
    OBVIOUS
<1>1. ASSUME NEW lines \in 1..MaxBatch, NEW raws \in [1..lines -> Raw], IngestBatch(raws)
      PROVE  StationsInv'
    <2>1. Len(raws) = lines /\ lines \in Nat
        BY StationsAssumption
    <2>2. \A n \in 1..Len(raws) : raws[n] \in Raw
        BY <2>1
    <2> QED BY <1>1, <2>1, <2>2, BatchKeeps
<1>2. CASE UNCHANGED stationVars
    <2>1. UNCHANGED <<cache, stations, opened, session, ended, log>>
        BY <1>2 DEF stationVars
    <2> QED BY <2>1 DEF StationsInv, Consistent, StoredOf, HeardOf
<1> QED BY <1>1, <1>2, RawKeeps, SessionKeeps DEF StationsNext

\* ingest.py, ingest_raw and ingest_file_batch: the rows of the stations and the cache are
\* what the log of the decodes makes them, whatever failed in between.
THEOREM StationsInvariant == StationsSpec => []StationsInv
BY StationsStarts, StationsStep, PTL DEF StationsSpec

LEMMA StationsHold == StationsInv => SummariesHold /\ GridWasSent
<1> SUFFICES ASSUME StationsInv PROVE SummariesHold /\ GridWasSent
    OBVIOUS
<1>1. /\ cache \in [Calls -> Summary] /\ stations \in [Bases -> Summary] /\ log \in Seq(LogEntry)
      /\ \A b \in Bases : IsSummary(stations[b], log, StoredOf(log, b))
      /\ session # 0 => \A c \in Calls : IsSummary(cache[c], log, HeardOf(log, c))
    BY DEF StationsInv, Consistent
<1>2. \A b \in Bases : StoredOf(log, b) \in SUBSET (1..Len(log))
    BY DEF StoredOf
<1>3. \A c \in Calls : HeardOf(log, c) \in SUBSET (1..Len(log))
    BY DEF HeardOf
<1>4. StationSummary
    BY <1>1, <1>2, SummaryHolds DEF StationSummary
<1>5. CacheSummary
    BY <1>1, <1>3, SummaryHolds DEF CacheSummary
<1>6. GridWasSent
    BY DEF StationsInv, Consistent, GridsWereSent, GridWasSent
<1> QED BY <1>4, <1>5, <1>6 DEF SummariesHold

\* repository.py, _touch_station, and station_cache.py, update_from_observation: after any
\* number of decodes and batches of any length, in any order of time, over stores that
\* fail, transactions that are rolled back and restarts, each summary is that of its
\* decodes.
THEOREM SummariesAreOfTheirDecodes == StationsSpec => []SummariesHold
BY StationsInvariant, StationsHold, PTL

\* pipeline.py, _resolve_grid: a grid that a decode did not carry was in an earlier message
\* of the same full callsign to the same process.
THEOREM GridsComeFromTheCall == StationsSpec => []GridWasSent
BY StationsInvariant, StationsHold, PTL

-----------------------------------------------------------------------------
(***************************************************************************)
(* The messages of FT8.                                                    *)
(***************************************************************************)
MessagesSpec == MessagesInit /\ [][MessagesNext]_messageVars

MessagesInv ==
    /\ message \in Seq(Tokens)
    /\ reading # <<>> => reading = <<ParseMessage(message)>>

\* What the two properties say of a parsed message
SaysRight(tokens, p) ==
    /\ p.grid # None /\ p.tx # None =>
          \E i \in {k \in 1..Len(tokens) : tokens[k] = p.tx},
             j \in {k \in 1..Len(tokens) : tokens[k] = p.grid} :
              i < j /\ \A k \in i + 1..j - 1 : ~CallLike(tokens[k])
    /\ p.rx # None => tokens[1] = p.rx /\ p.tx \in {CallOrNone(tokens[2])}
    /\ tokens # <<>> /\ tokens[1] = "CQ" =>
          /\ p.rx = None
          /\ \A i \in 2..Len(tokens) :
                (tokens[i] \in Callsigns /\ i = 2) \/
                (i = 3 /\ tokens[i] \in Callsigns /\ Directive(tokens[2]))
                    => p.tx = tokens[i]

LEMMA DirectivesAreNoCalls ==
    ASSUME NEW token, Directive(token)
    PROVE  ~CallLike(token)
BY MessagesAssumption DEF Directive, CallLike, Hidden, Words

LEMMA TailIs ==
    ASSUME NEW T, NEW s \in Seq(T), s # <<>>
    PROVE  /\ Tail(s) \in Seq(T) /\ Len(s) \in Nat \ {0} /\ Len(Tail(s)) = Len(s) - 1
           /\ \A i \in 1..Len(Tail(s)) : Tail(s)[i] = s[i + 1]
OBVIOUS

LEMMA EmptyMeansZero ==
    ASSUME NEW T, NEW s \in Seq(T)
    PROVE  s # <<>> <=> Len(s) # 0
OBVIOUS

LEMMA CqSaysRight ==
    ASSUME NEW tokens \in Seq(Tokens), tokens # <<>>, tokens[1] = "CQ"
    PROVE  SaysRight(tokens, ParseCq(tokens))
<1> DEFINE after == Tail(tokens)
           rest  == RestOfCq(after)
           p     == ParseCq(tokens)
<1>1. /\ Len(tokens) \in Nat \ {0} /\ after \in Seq(Tokens) /\ Len(after) = Len(tokens) - 1
      /\ \A i \in 1..Len(after) : after[i] = tokens[i + 1]
      /\ after # <<>> <=> Len(tokens) >= 2
    <2>1. /\ Len(tokens) \in Nat \ {0} /\ after \in Seq(Tokens) /\ Len(after) = Len(tokens) - 1
          /\ \A i \in 1..Len(after) : after[i] = tokens[i + 1]
        BY TailIs
    <2> HIDE DEF after
    <2>2. after # <<>> <=> Len(after) # 0
        BY <2>1, EmptyMeansZero
    <2> QED BY <2>1, <2>2
<1>2. /\ p.tx = IF rest # <<>> THEN CallOrNone(rest[1]) ELSE None
      /\ p.rx = None
      /\ p.grid = IF Len(rest) >= 2 /\ GridLike(rest[2]) THEN rest[2] ELSE None
    BY DEF ParseCq, Parsed
<1>3. PICK off \in {1, 2} :
         /\ rest \in Seq(Tokens) /\ Len(rest) = Len(tokens) - off /\ Len(rest) \in Nat
         /\ \A i \in 1..Len(rest) : rest[i] = tokens[i + off]
         /\ off = 2 => Len(tokens) >= 2 /\ ~CallLike(tokens[2])
         /\ off = 1 => ~(Len(tokens) >= 2 /\ ~CallLike(tokens[2]) /\ Directive(tokens[2]))
    <2> DEFINE directed == after # <<>> /\ ~CallLike(after[1]) /\ Directive(after[1])
    <2>1. Len(tokens) >= 2 => after[1] = tokens[2]
        BY <1>1
    <2>2. CASE directed
        <3>1. rest = Tail(after) /\ after # <<>> /\ ~CallLike(after[1])
            BY <2>2 DEF RestOfCq
        <3> HIDE DEF after, rest, directed
        <3>2. /\ rest \in Seq(Tokens) /\ Len(rest) = Len(after) - 1 /\ Len(after) \in Nat \ {0}
              /\ \A i \in 1..Len(rest) : rest[i] = after[i + 1]
            BY <1>1, <3>1, TailIs
        <3>3. \A i \in 1..Len(rest) : rest[i] = tokens[i + 2]
            <4> SUFFICES ASSUME NEW i \in 1..Len(rest) PROVE rest[i] = tokens[i + 2]
                OBVIOUS
            <4>1. i + 1 \in 1..Len(after) /\ (i + 1) + 1 = i + 2
                BY <3>2
            <4>2. after[i + 1] = tokens[(i + 1) + 1]
                BY <1>1, <4>1
            <4> QED BY <3>2, <4>1, <4>2
        <3> QED BY <1>1, <2>1, <3>1, <3>2, <3>3
    <2>3. CASE ~directed
        <3>1. rest = after
            BY <2>3 DEF RestOfCq
        <3>2. ~(Len(tokens) >= 2 /\ ~CallLike(tokens[2]) /\ Directive(tokens[2]))
            BY <1>1, <2>1, <2>3
        <3> HIDE DEF after, rest, directed
        <3> QED BY <1>1, <3>1, <3>2
    <2> QED BY <2>2, <2>3
<1> HIDE DEF rest, after, p
<1>4. rest # <<>> <=> Len(tokens) > off
    BY <1>1, <1>3
<1>5. Len(tokens) > off => rest[1] = tokens[off + 1]
    BY <1>1, <1>3
<1>6. Len(rest) >= 2 => rest[2] = tokens[off + 2] /\ Len(tokens) >= off + 2
    BY <1>1, <1>3
<1>7. ASSUME p.grid # None, p.tx # None
      PROVE  \E i \in {k \in 1..Len(tokens) : tokens[k] = p.tx},
                j \in {k \in 1..Len(tokens) : tokens[k] = p.grid} :
                 i < j /\ \A k \in i + 1..j - 1 : ~CallLike(tokens[k])
    <2>1. p.grid = tokens[off + 2] /\ Len(tokens) >= off + 2
        BY <1>2, <1>6, <1>7
    <2>2. p.tx = tokens[off + 1]
        <3>1. p.tx = CallOrNone(tokens[off + 1])
            BY <1>2, <1>4, <1>5, <1>7
        <3> QED BY <1>7, <3>1 DEF CallOrNone
    <2>3. /\ off + 1 \in 1..Len(tokens) /\ off + 2 \in 1..Len(tokens) /\ off + 1 < off + 2
          /\ \A k \in (off + 1) + 1..(off + 2) - 1 : FALSE
        BY <1>1, <2>1
    <2> QED BY <2>1, <2>2, <2>3
<1>8. ASSUME NEW i \in 2..Len(tokens),
             (tokens[i] \in Callsigns /\ i = 2) \/ (i = 3 /\ tokens[i] \in Callsigns /\ Directive(tokens[2]))
      PROVE  p.tx = tokens[i]
    <2>1. i = off + 1
        <3>1. CASE tokens[i] \in Callsigns /\ i = 2
            <4>1. CallLike(tokens[2])
                BY <3>1 DEF CallLike
            <4> QED BY <1>3, <3>1, <4>1
        <3>2. CASE i = 3 /\ tokens[i] \in Callsigns /\ Directive(tokens[2])
            <4>1. ~CallLike(tokens[2]) /\ Len(tokens) >= 2
                BY <1>1, <3>2, DirectivesAreNoCalls
            <4> QED BY <1>3, <3>2, <4>1
        <3> QED BY <1>8, <3>1, <3>2
    <2>2. p.tx = CallOrNone(tokens[i])
        BY <1>1, <1>2, <1>4, <1>5, <2>1
    <2> QED BY <1>8, <2>2 DEF CallOrNone
<1>9. SaysRight(tokens, p)
    BY <1>2, <1>7, <1>8 DEF SaysRight
<1> QED BY <1>9 DEF p

LEMMA ExchangeSaysRight ==
    ASSUME NEW tokens \in Seq(Tokens), Len(tokens) >= 2, tokens[1] # "CQ"
    PROVE  SaysRight(tokens, ParseExchange(tokens))
<1> DEFINE rest == SubSeq(tokens, 3, Len(tokens))
           p    == ParseExchange(tokens)
<1>1. /\ Len(tokens) \in Nat /\ Len(rest) = Len(tokens) - 2
      /\ \A i \in 1..Len(rest) : rest[i] = tokens[i + 2]
      /\ rest # <<>> <=> Len(tokens) >= 3
    <2>1. Len(tokens) \in Nat
        OBVIOUS
    <2>2. rest = [i \in 1..(Len(tokens) - 2) |-> tokens[i + 2]]
        <3>1. rest = [i \in 1..(Len(tokens) - 3 + 1) |-> tokens[i + 3 - 1]]
            BY <2>1
        <3> QED BY <2>1, <3>1
    <2>5. rest \in Seq(Tokens)
        <3>1. \A i \in 1..(Len(tokens) - 2) : tokens[i + 2] \in Tokens
            BY <2>1
        <3> QED BY <2>1, <2>2, <3>1
    <2> HIDE DEF rest
    <2>3. Len(rest) = Len(tokens) - 2
        BY <2>1, <2>2
    <2>4. rest # <<>> <=> Len(rest) # 0
        BY <2>5, EmptyMeansZero
    <2> QED BY <2>1, <2>2, <2>3, <2>4
<1>2. /\ p.tx = CallOrNone(tokens[2]) /\ p.rx = CallOrNone(tokens[1]) /\ p.grid = ExchangeGrid(rest)
    BY DEF ParseExchange, Parsed
<1> HIDE DEF rest, p
<1>3. ASSUME p.grid # None, p.tx # None
      PROVE  \E i \in {k \in 1..Len(tokens) : tokens[k] = p.tx},
                j \in {k \in 1..Len(tokens) : tokens[k] = p.grid} :
                 i < j /\ \A k \in i + 1..j - 1 : ~CallLike(tokens[k])
    <2>1. p.tx = tokens[2] /\ 2 \in 1..Len(tokens)
        BY <1>1, <1>2, <1>3 DEF CallOrNone
    <2>2. CASE rest # <<>> /\ GridLike(rest[1])
        <3>1. p.grid = tokens[3] /\ 3 \in 1..Len(tokens)
            BY <1>1, <1>2, <2>2 DEF ExchangeGrid
        <3>2. \A k \in 2 + 1..3 - 1 : FALSE
            OBVIOUS
        <3> QED BY <2>1, <3>1, <3>2
    <2>3. CASE ~(rest # <<>> /\ GridLike(rest[1]))
        <3>1. /\ ExchangeType(rest) = "contest" /\ Len(rest) > 1 /\ p.grid = rest[2]
            BY <1>2, <1>3, <2>3 DEF ExchangeGrid
        <3>2. rest[1] = "599"
            BY <2>3, <3>1 DEF ExchangeType
        <3>3. tokens[3] = "599" /\ p.grid = tokens[4] /\ 4 \in 1..Len(tokens)
            BY <1>1, <3>1, <3>2
        <3>4. ~CallLike(tokens[3])
            BY <3>3, MessagesAssumption DEF CallLike, Words, Hidden
        <3>5. \A k \in 2 + 1..4 - 1 : k = 3
            OBVIOUS
        <3> QED BY <2>1, <3>3, <3>4, <3>5
    <2> QED BY <2>2, <2>3
<1>4. p.rx # None => tokens[1] = p.rx
    BY <1>2 DEF CallOrNone
<1>5. SaysRight(tokens, p)
    BY <1>2, <1>3, <1>4 DEF SaysRight
<1> QED BY <1>5 DEF p

LEMMA MessageSaysRight ==
    ASSUME NEW tokens \in Seq(Tokens)
    PROVE  SaysRight(tokens, ParseMessage(tokens))
<1>1. CASE tokens # <<>> /\ tokens[1] = "CQ"
    BY <1>1, CqSaysRight DEF ParseMessage
<1>2. CASE /\ tokens # <<>> /\ tokens[1] # "CQ"
           /\ Len(tokens) >= 2 /\ CallLike(tokens[1]) /\ CallLike(tokens[2])
    BY <1>2, ExchangeSaysRight DEF ParseMessage
<1>3. CASE tokens = <<>> \/ (tokens[1] # "CQ" /\ ~(Len(tokens) >= 2 /\ CallLike(tokens[1]) /\ CallLike(tokens[2])))
    <2>1. ParseMessage(tokens) = Parsed("unknown", None, None, None) \/ ParseMessage(tokens) = ParseFree(tokens)
        BY <1>3 DEF ParseMessage
    <2>2. ParseMessage(tokens).rx = None /\ ParseMessage(tokens).grid = None
        BY <2>1 DEF ParseFree, Parsed
    <2> QED BY <1>3, <2>2 DEF SaysRight
<1> QED BY <1>1, <1>2, <1>3

LEMMA MessagesStart == MessagesInit => MessagesInv
<1> SUFFICES ASSUME MessagesInit PROVE MessagesInv
    OBVIOUS
<1>1. PICK n \in 0..MaxTokens : message \in [1..n -> Tokens]
    BY DEF MessagesInit
<1>2. n \in Nat
    BY MessagesAssumption
<1>3. message \in Seq(Tokens)
    BY <1>1, <1>2
<1> QED BY <1>3 DEF MessagesInit, MessagesInv

LEMMA MessagesStep == MessagesInv /\ [MessagesNext]_messageVars => MessagesInv'
BY DEF MessagesInv, MessagesNext, ReadMessage, messageVars

LEMMA MessagesHold == MessagesInv => SaidByTransmitter
<1> SUFFICES ASSUME MessagesInv, reading # <<>> PROVE SaidByTransmitter
    BY DEF SaidByTransmitter, GridOfTransmitter, TransmitterHeard
<1> DEFINE p == ParseMessage(message)
<1>1. reading[1] = p
    BY DEF MessagesInv
<1>2. SaysRight(message, p)
    BY MessageSaysRight DEF MessagesInv
<1> HIDE DEF p
<1> QED BY <1>1, <1>2 DEF SaysRight, SaidByTransmitter, GridOfTransmitter, TransmitterHeard, At

\* ft8/message.py: what is read is the parse of the message, of any length.
THEOREM MessagesInvariant == MessagesSpec => []MessagesInv
BY MessagesStart, MessagesStep, PTL DEF MessagesSpec

\* ft8/message.py: of a message of any length the call that is stored is the transmitter's,
\* and so is the grid; whoever is called is not taken for the one who calls.
THEOREM MessagesSayWhoSends == MessagesSpec => []SaidByTransmitter
BY MessagesInvariant, MessagesHold, PTL

-----------------------------------------------------------------------------
(***************************************************************************)
(* CountryLookup, for any table of prefixes and any callsign: of the rules *)
(* for the part that says the country, the one that is used says most.     *)
(***************************************************************************)
CountrySpec == CountryInit /\ [][CountryNext]_countryVars

\* A callsign begins with a part that is no suffix.
CallShape ==
    /\ entities \in Seq(Entity)
    /\ call \in Seq(MainParts \cup Endings) /\ call # <<>> /\ call[1] \in MainParts

CountryInv == CallShape /\ (match = <<>> \/ match = <<Lookup(call)>>)

Strings == MainParts \cup Endings \cup PrefixNames

LEMMA StringLength ==
    ASSUME NEW p \in Strings
    PROVE  Len(p) \in Nat /\ p \in Seq({p[i] : i \in DOMAIN p})
<1>1. CASE p \in Portable \cup MainParts \cup PrefixNames
    BY <1>1, PartsAssumption DEF PartsAssumption
<1>2. CASE p \in {<<d>> : d \in Digits}
    <2>1. PICK d \in Digits : p = <<d>>
        BY <1>2
    <2>2. p \in Seq({d}) /\ {p[i] : i \in DOMAIN p} = {d}
        BY <2>1
    <2> QED BY <2>2
<1> QED BY <1>1, <1>2 DEF Strings, Endings

-----------------------------------------------------------------------------
\* The suffixes that say nothing of a country are what is left out, and all of them.
LEMMA StrippedIs ==
    ASSUME NEW parts \in Seq(Strings), parts # <<>>
    PROVE  \E n \in 1..Len(parts) :
              /\ n = 1 \/ ~NonEntity(parts[n])
              /\ \A i \in n + 1..Len(parts) : NonEntity(parts[i])
              /\ Stripped(parts) = SubSeq(parts, 1, n)
<1> DEFINE N == Len(parts)
           Ends(n) == /\ n = 1 \/ ~NonEntity(parts[n])
                      /\ \A i \in n + 1..Len(parts) : NonEntity(parts[i])
           S == {n \in 1..N : n = 1 \/ ~NonEntity(parts[n])}
<1>1. N \in Nat \ {0} /\ DOMAIN parts = 1..N
    OBVIOUS
<1>2. S \in SUBSET Nat /\ S # {} /\ \A n \in S : n <= N
    <2>1. 1 \in S
        BY <1>1
    <2> QED BY <1>1, <2>1
<1>3. PICK n \in S : \A m \in S : m <= n
    <2> HIDE DEF S
    <2> QED BY <1>1, <1>2, GreatestNumber
<1>4. Ends(n) /\ n \in DOMAIN parts
    <2>1. ASSUME NEW i \in n + 1..N, ~NonEntity(parts[i]) PROVE FALSE
        <3>1. i \in 1..N /\ i > n
            BY <1>1, <1>3
        <3>2. i \in S
            BY <2>1, <3>1
        <3> QED BY <1>3, <3>1, <3>2
    <2> QED BY <1>1, <1>3, <2>1
<1>5. Stripped(parts) = SubSeq(parts, 1, CHOOSE m \in DOMAIN parts : Ends(m))
    BY DEF Stripped
<1>6. PICK m \in DOMAIN parts : m = (CHOOSE k \in DOMAIN parts : Ends(k)) /\ Ends(m)
    <2> HIDE DEF Ends
    <2> QED BY <1>4
<1> QED BY <1>1, <1>5, <1>6

\* Where the suffixes begin is said by the parts alone.
LEMMA StrippedAt ==
    ASSUME NEW parts \in Seq(Strings), NEW n \in 1..Len(parts),
           n = 1 \/ ~NonEntity(parts[n]),
           \A i \in n + 1..Len(parts) : NonEntity(parts[i])
    PROVE  Stripped(parts) = SubSeq(parts, 1, n)
<1>1. parts # <<>>
    OBVIOUS
<1>2. PICK m \in 1..Len(parts) :
          /\ m = 1 \/ ~NonEntity(parts[m])
          /\ \A i \in m + 1..Len(parts) : NonEntity(parts[i])
          /\ Stripped(parts) = SubSeq(parts, 1, m)
    BY <1>1, StrippedIs
<1>3. ~(m < n)
    <2> SUFFICES ASSUME m < n PROVE FALSE
        OBVIOUS
    <2>1. n \in m + 1..Len(parts) /\ n # 1
        OBVIOUS
    <2> QED BY <1>2, <2>1
<1>4. ~(n < m)
    <2> SUFFICES ASSUME n < m PROVE FALSE
        OBVIOUS
    <2>1. m \in n + 1..Len(parts) /\ m # 1
        OBVIOUS
    <2> QED BY <1>2, <2>1
<1>5. m = n
    BY <1>3, <1>4
<1> QED BY <1>2, <1>5

LEMMA StrippedParts ==
    ASSUME NEW parts \in Seq(Strings), parts # <<>>
    PROVE  LET main == Stripped(parts)
           IN /\ main \in Seq(Strings) /\ main # <<>> /\ Len(main) \in 1..Len(parts)
              /\ \A i \in 1..Len(main) : main[i] = parts[i]
              /\ Len(main) = 1 \/ ~NonEntity(main[Len(main)])
              /\ Stripped(main) = main
<1>1. PICK n \in 1..Len(parts) :
          /\ n = 1 \/ ~NonEntity(parts[n])
          /\ Stripped(parts) = SubSeq(parts, 1, n)
    BY StrippedIs
<1> DEFINE main == SubSeq(parts, 1, n)
<1>2. main \in Seq(Strings) /\ Len(main) = n /\ \A i \in 1..n : main[i] = parts[i]
    OBVIOUS
<1>3. main # <<>> /\ Len(main) \in 1..Len(parts)
    BY <1>2
<1>4. Len(main) = 1 \/ ~NonEntity(main[Len(main)])
    BY <1>1, <1>2
<1>5. Stripped(main) = main
    <2> HIDE DEF main
    <2>1. n \in 1..Len(main) /\ \A i \in n + 1..Len(main) : NonEntity(main[i])
        BY <1>2
    <2>2. Stripped(main) = SubSeq(main, 1, n)
        BY <1>2, <1>4, <2>1, StrippedAt
    <2>3. SubSeq(main, 1, n) = main
        BY <1>2
    <2> QED BY <2>2, <2>3
<1> HIDE DEF main
<1>6. Stripped(parts) = main
    BY <1>1 DEF main
<1> QED BY <1>2, <1>3, <1>4, <1>5, <1>6

LEMMA CandidateParts ==
    ASSUME NEW parts \in Seq(Strings), parts # <<>>
    PROVE  LET candidate == Candidates(parts)
               main == Stripped(parts)
           IN /\ candidate \in Seq(Strings)
              /\ \A i \in DOMAIN candidate : \E j \in DOMAIN main : candidate[i] = main[j]
              /\ Candidates(main) = candidate
<1> DEFINE main == Stripped(parts)
<1>1. /\ main \in Seq(Strings) /\ main # <<>> /\ Len(main) \in 1..Len(parts)
      /\ \A i \in 1..Len(main) : main[i] = parts[i]
      /\ Stripped(main) = main
    BY StrippedParts
<1> HIDE DEF main
<1>2. CASE Len(main) = 1
    <2>1. Candidates(parts) = main /\ Candidates(main) = main
        BY <1>1, <1>2 DEF Candidates, main
    <2> QED BY <1>1, <2>1 DEF main
<1>3. CASE Len(main) # 1
    <2>1. Candidates(parts) = InOrder(parts[1], parts[2]) /\ Candidates(main) = InOrder(main[1], main[2])
        BY <1>1, <1>3 DEF Candidates, main
    <2>2. 1 \in 1..Len(main) /\ 2 \in 1..Len(main)
        <3> DEFINE L == Len(main)
        <3>1. L \in Nat /\ L # 0
            BY <1>1
        <3>2. L # 1
            BY <1>3
        <3> HIDE DEF L
        <3>3. 1 \in 1..L /\ 2 \in 1..L
            BY <3>1, <3>2
        <3> QED BY <3>3 DEF L
    <2>3. /\ parts[1] = main[1] /\ parts[2] = main[2] /\ main[1] \in Strings /\ main[2] \in Strings
        BY <1>1, <2>2
    <2>4. Candidates(parts) \in {<<main[1], main[2]>>, <<main[2], main[1]>>}
        BY <2>1, <2>3 DEF InOrder
    <2>5. \A i \in DOMAIN Candidates(parts) : \E j \in DOMAIN main : Candidates(parts)[i] = main[j]
        <3>1. 1 \in DOMAIN main /\ 2 \in DOMAIN main
            BY <1>1, <2>2
        <3> QED BY <2>4, <3>1
    <2>6. Candidates(parts) \in Seq(Strings)
        <3>1. <<main[1], main[2]>> \in Seq(Strings) /\ <<main[2], main[1]>> \in Seq(Strings)
            BY <2>3
        <3> QED BY <2>4, <3>1
    <2> QED BY <2>1, <2>3, <2>5, <2>6 DEF main
<1> QED BY <1>2, <1>3

\* The order of two parts that have a digit in one, or differ in length, is theirs.
LEMMA OrderOfTwo ==
    ASSUME NEW a \in Strings, NEW b \in Strings, Len(a) # Len(b) \/ HasDigit(a) # HasDigit(b)
    PROVE  InOrder(a, b) = InOrder(b, a)
<1>1. Len(a) \in Nat /\ Len(b) \in Nat
    BY StringLength
<1>2. HasDigit(a) \in BOOLEAN /\ HasDigit(b) \in BOOLEAN
    BY DEF HasDigit
<1>3. CASE HasDigit(a) # HasDigit(b)
    BY <1>2, <1>3 DEF InOrder
<1>4. CASE HasDigit(a) = HasDigit(b)
    BY <1>1, <1>4 DEF InOrder
<1> QED BY <1>3, <1>4

-----------------------------------------------------------------------------
LEMMA RulesAreTokens ==
    ASSUME entities \in Seq(Entity), NEW n \in DOMAIN entities, NEW t \in Rules(n)
    PROVE  t \in Tokened
<1>1. entities[n] \in Entity
    OBVIOUS
<1>2. entities[n].primary \in PrefixNames /\ entities[n].tokens \subseteq Tokened
    BY <1>1 DEF Entity
<1>3. CASE t \in entities[n].tokens
    BY <1>2, <1>3
<1>4. CASE t = [prefix |-> entities[n].primary, exact |-> FALSE]
    BY <1>2, <1>4 DEF Tokened
<1> QED BY <1>3, <1>4 DEF Rules

\* The rule that is used is one that matches, and none that matches is longer.
LEMMA LongestIs ==
    ASSUME entities \in Seq(Entity), NEW piece \in Strings, Matching(piece) # {}
    PROVE  /\ LongestRule(piece) \in Matching(piece)
           /\ \A s \in Matching(piece) : Len(s.prefix) <= Len(LongestRule(piece).prefix)
<1> DEFINE Longest(r) == \A s \in Matching(piece) :
                            /\ Len(s.prefix) <= Len(r.prefix)
                            /\ s.prefix = r.prefix => r.entity <= s.entity
           L == {Len(r.prefix) : r \in Matching(piece)}
<1>1. \A r \in Matching(piece) :
         /\ r.prefix \in PrefixNames /\ Len(r.prefix) \in Nat /\ Len(r.prefix) <= Len(piece)
         /\ r.entity \in Nat
    <2> SUFFICES ASSUME NEW r \in Matching(piece)
                 PROVE  /\ r.prefix \in PrefixNames /\ Len(r.prefix) \in Nat
                        /\ Len(r.prefix) <= Len(piece) /\ r.entity \in Nat
        OBVIOUS
    <2>1. r.prefix \in PrefixNames /\ r.entity \in DOMAIN entities /\ IsPrefix(r.prefix, piece)
        BY DEF Matching
    <2> QED BY <2>1, StringLength DEF IsPrefix, Strings
<1>2. Len(piece) \in Nat
    BY StringLength
<1>3. PICK l \in L : \A m \in L : m <= l
    <2>1. L \in SUBSET Nat /\ L # {} /\ \A m \in L : m <= Len(piece)
        BY <1>1
    <2> HIDE DEF L
    <2> QED BY <1>2, <2>1, GreatestNumber
<1>4. PICK q \in Matching(piece) : l = Len(q.prefix)
    OBVIOUS
<1> DEFINE E == {r.entity : r \in {s \in Matching(piece) : s.prefix = q.prefix}}
<1>5. PICK e \in E : \A f \in E : e <= f
    <2>1. E \in SUBSET Nat /\ E # {}
        BY <1>1
    <2> HIDE DEF E
    <2> QED BY <2>1, LeastNumber
<1>6. PICK r \in Matching(piece) : r.prefix = q.prefix /\ r.entity = e
    OBVIOUS
<1>7. Longest(r)
    <2> SUFFICES ASSUME NEW s \in Matching(piece)
                 PROVE  Len(s.prefix) <= Len(r.prefix) /\ (s.prefix = r.prefix => r.entity <= s.entity)
        OBVIOUS
    <2>1. Len(s.prefix) \in L
        OBVIOUS
    <2>2. Len(s.prefix) <= Len(r.prefix)
        BY <1>3, <1>4, <1>6, <2>1
    <2>3. ASSUME s.prefix = r.prefix PROVE r.entity <= s.entity
        <3>1. s.entity \in E
            BY <1>6, <2>3
        <3> QED BY <1>5, <1>6, <3>1
    <2> QED BY <2>2, <2>3
<1>8. LongestRule(piece) = CHOOSE s \in Matching(piece) : Longest(s)
    BY DEF LongestRule
<1>9. LongestRule(piece) \in Matching(piece) /\ Longest(LongestRule(piece))
    <2> HIDE DEF Longest
    <2> QED BY <1>7, <1>8
<1> QED BY <1>9

LEMMA ExactIs ==
    ASSUME entities \in Seq(Entity), NEW piece, Exact(piece) # {}
    PROVE  (CHOOSE n \in Exact(piece) : \A o \in Exact(piece) : o <= n) \in Exact(piece)
<1>1. Exact(piece) \in SUBSET Nat /\ \A n \in Exact(piece) : n <= Len(entities)
    BY DEF Exact
<1>2. Len(entities) \in Nat
    OBVIOUS
<1>3. \E n \in Exact(piece) : \A o \in Exact(piece) : o <= n
    BY <1>1, <1>2, GreatestNumber
<1> QED BY <1>3

LEMMA FunctionIsSequence ==
    ASSUME NEW S, NEW n \in Nat, NEW f \in [1..n -> S]
    PROVE  f \in Seq(S) /\ Len(f) = n
OBVIOUS

LEMMA FirstOf ==
    ASSUME NEW S \in SUBSET Nat, S # {}
    PROVE  (CHOOSE i \in S : \A j \in S : i <= j) \in S
<1>1. \E i \in S : \A j \in S : i <= j
    BY LeastNumber
<1> QED BY <1>1

\* What is found is a rule for one of the candidates: one for the whole of it, or the
\* longest of its prefixes.
Found(m, piece) ==
    \/ m.entity \in Exact(piece) /\ m.prefix = piece
    \/ m \in Matching(piece) /\ \A s \in Matching(piece) : Len(s.prefix) <= Len(m.prefix)

LEMMA LookupFinds ==
    ASSUME entities \in Seq(Entity), NEW parts \in Seq(Strings), parts # <<>>, Lookup(parts) # NoMatch
    PROVE  \E i \in DOMAIN Candidates(parts) : Found(Lookup(parts), Candidates(parts)[i])
<1> DEFINE candidate == Candidates(parts)
           exact == {i \in DOMAIN candidate : Exact(candidate[i]) # {}}
           plain == {i \in DOMAIN candidate : Matching(candidate[i]) # {}}
           f == CHOOSE i \in exact : \A j \in exact : i <= j
           p == CHOOSE i \in plain : \A j \in plain : i <= j
           n == CHOOSE k \in Exact(candidate[f]) : \A o \in Exact(candidate[f]) : o <= k
<1>1. candidate \in Seq(Strings)
    BY CandidateParts
<1>2. Lookup(parts) =
         IF exact # {} THEN [entity |-> n, prefix |-> candidate[f]]
         ELSE IF plain # {} THEN LongestRule(candidate[p]) ELSE NoMatch
    BY DEF Lookup
<1> HIDE DEF candidate
<1>3. exact \in SUBSET Nat /\ plain \in SUBSET Nat
    BY <1>1
<1>4. CASE exact # {}
    <2>1. f \in exact
        <3> HIDE DEF exact
        <3> QED BY <1>3, <1>4, FirstOf
    <2>2. f \in DOMAIN candidate /\ Exact(candidate[f]) # {}
        <3> HIDE DEF f
        <3> QED BY <2>1
    <2> HIDE DEF f
    <2>3. n \in Exact(candidate[f])
        BY <2>2, ExactIs
    <2> HIDE DEF n
    <2>4. Lookup(parts) = [entity |-> n, prefix |-> candidate[f]]
        <3> HIDE DEF exact, plain
        <3> QED BY <1>2, <1>4
    <2>5. Found(Lookup(parts), candidate[f])
        BY <2>3, <2>4 DEF Found
    <2> QED BY <2>2, <2>5 DEF candidate
<1>5. CASE exact = {} /\ plain # {}
    <2>1. p \in plain
        <3> HIDE DEF plain
        <3> QED BY <1>3, <1>5, FirstOf
    <2>2. p \in DOMAIN candidate /\ Matching(candidate[p]) # {}
        <3> HIDE DEF p
        <3> QED BY <2>1
    <2> HIDE DEF p, f, n
    <2>3. Lookup(parts) = LongestRule(candidate[p])
        <3> HIDE DEF exact, plain
        <3> QED BY <1>2, <1>5
    <2>4. candidate[p] \in Strings
        BY <1>1, <2>2
    <2>5. Found(Lookup(parts), candidate[p])
        BY <2>2, <2>3, <2>4, LongestIs DEF Found
    <2> QED BY <2>2, <2>5 DEF candidate
<1>6. CASE exact = {} /\ plain = {}
    <2> HIDE DEF exact, plain, f, p, n
    <2> QED BY <1>2, <1>6
<1> QED BY <1>4, <1>5, <1>6

-----------------------------------------------------------------------------
LEMMA CallIsParts ==
    ASSUME CallShape
    PROVE  call \in Seq(Strings) /\ call # <<>> /\ call[1] \in MainParts /\ entities \in Seq(Entity)
<1>1. MainParts \cup Endings \subseteq Strings
    BY DEF Strings
<1>2. Seq(MainParts \cup Endings) \subseteq Seq(Strings)
    BY <1>1
<1> QED BY <1>2 DEF CallShape

LEMMA EitherSideHolds ==
    ASSUME CountryInv
    PROVE  EitherSide
<1> SUFFICES ASSUME match # <<>> PROVE EitherSide
    BY DEF EitherSide
<1>1. match[1] = Lookup(call)
    BY DEF CountryInv
<1>2. call \in Seq(Strings) /\ call # <<>> /\ call[1] \in MainParts
    BY CallIsParts DEF CountryInv
<1> DEFINE main == Stripped(call)
<1>3. /\ main \in Seq(Strings) /\ main # <<>> /\ Len(main) \in 1..Len(call)
      /\ \A i \in 1..Len(main) : main[i] = call[i]
      /\ Len(main) = 1 \/ ~NonEntity(main[Len(main)])
      /\ Stripped(main) = main /\ Candidates(main) = Candidates(call)
    BY <1>2, StrippedParts, CandidateParts
<1> HIDE DEF main
<1>4. match[1] = Lookup(main)
    BY <1>1, <1>3 DEF Lookup
<1>5. ASSUME Len(main) = 2, Len(main[1]) # Len(main[2]) \/ HasDigit(main[1]) # HasDigit(main[2])
      PROVE  match[1] = Lookup(<<main[2], main[1]>>)
    <2> DEFINE swapped == <<main[2], main[1]>>
    <2>1. main[1] \in Strings /\ main[2] \in Strings /\ main[1] = call[1]
        <3>1. 1 \in 1..Len(main) /\ 2 \in 1..Len(main)
            BY <1>5
        <3> QED BY <1>3, <3>1
    <2>2. ~NonEntity(main[1])
        BY <1>2, <2>1, MainPartsAssumption DEF MainPartsAssumption
    <2>3. swapped \in Seq(Strings) /\ Len(swapped) = 2 /\ swapped[1] = main[2] /\ swapped[2] = main[1]
        BY <2>1
    <2> HIDE DEF swapped
    <2>4. Stripped(swapped) = SubSeq(swapped, 1, 2)
        <3>1. 2 \in 1..Len(swapped) /\ \A i \in 2 + 1..Len(swapped) : NonEntity(swapped[i])
            BY <2>3
        <3> QED BY <2>2, <2>3, <3>1, StrippedAt
    <2>5. SubSeq(swapped, 1, 2) = swapped
        BY <2>3
    <2>6. Candidates(swapped) = InOrder(main[2], main[1])
        BY <2>3, <2>4, <2>5 DEF Candidates
    <2>7. Candidates(main) = InOrder(main[1], main[2])
        BY <1>3, <1>5 DEF Candidates
    <2>8. Candidates(swapped) = Candidates(main)
        BY <1>5, <2>1, <2>6, <2>7, OrderOfTwo
    <2>9. Lookup(swapped) = Lookup(main)
        BY <2>8 DEF Lookup
    <2> QED BY <1>4, <2>9 DEF swapped
<1> QED BY <1>4, <1>5 DEF EitherSide, main

LEMMA PrefixOfItself ==
    ASSUME NEW p \in Strings
    PROVE  IsPrefix(p, p)
BY StringLength DEF IsPrefix

LEMMA MostSpecificHolds ==
    ASSUME CountryInv
    PROVE  MostSpecific
<1> SUFFICES ASSUME match # <<>>, match[1] # NoMatch PROVE MostSpecific
    BY DEF MostSpecific
<1>1. match[1] = Lookup(call)
    BY DEF CountryInv
<1>2. call \in Seq(Strings) /\ call # <<>> /\ entities \in Seq(Entity)
    BY CallIsParts DEF CountryInv
<1>3. PICK i \in DOMAIN Candidates(call) : Found(match[1], Candidates(call)[i])
    BY <1>1, <1>2, LookupFinds
<1>4. /\ Candidates(call) \in Seq(Strings)
      /\ \E j \in DOMAIN Stripped(call) : Candidates(call)[i] = Stripped(call)[j]
    BY <1>2, CandidateParts
<1> DEFINE piece == Candidates(call)[i]
<1>5. piece \in {Stripped(call)[j] : j \in DOMAIN Stripped(call)} /\ piece \in Strings
    BY <1>3, <1>4
<1> HIDE DEF piece
<1>6. Found(match[1], piece)
    BY <1>3 DEF piece
<1>7. IsPrefix(match[1].prefix, piece)
    BY <1>5, <1>6, PrefixOfItself DEF Found, Matching
<1>8. ASSUME Exact(piece) = {}, NEW n \in DOMAIN entities, NEW t \in Tokened,
             t \in Rules(n), ~t.exact, IsPrefix(t.prefix, piece)
      PROVE  Len(t.prefix) <= Len(match[1].prefix)
    <2> DEFINE s == [entity |-> n, prefix |-> t.prefix]
    <2>1. t.prefix \in PrefixNames /\ t = [prefix |-> t.prefix, exact |-> FALSE]
        BY <1>8 DEF Tokened
    <2>2. s \in Matching(piece)
        BY <1>8, <2>1 DEF Matching
    <2>3. Len(s.prefix) <= Len(match[1].prefix)
        <3> HIDE DEF s
        <3> QED BY <1>6, <1>8, <2>2 DEF Found
    <2> QED BY <2>3
<1> QED BY <1>5, <1>7, <1>8 DEF MostSpecific

\* The part that sorts before all others is the base call.
LEMMA BaseIsFirst ==
    ASSUME NEW parts \in Seq(Strings), NEW h \in DOMAIN parts,
           \A j \in DOMAIN parts \ {h} : SortsBefore(parts[h], parts[j])
    PROVE  BaseCall(parts) = parts[h]
<1> DEFINE First(i) == \A j \in DOMAIN parts :
              SortsBefore(parts[i], parts[j]) \/ (~SortsBefore(parts[j], parts[i]) /\ i <= j)
<1>1. ASSUME NEW i \in DOMAIN parts, NEW j \in DOMAIN parts
      PROVE  ~(SortsBefore(parts[i], parts[j]) /\ SortsBefore(parts[j], parts[i]))
    <2>1. parts[i] \in Strings /\ parts[j] \in Strings
        BY ElementOfSeq
    <2>2. Len(parts[i]) \in Nat /\ Len(parts[j]) \in Nat
        BY <2>1, StringLength
    <2> QED BY <2>2 DEF SortsBefore
<1>2. First(h)
    <2> SUFFICES ASSUME NEW j \in DOMAIN parts
                 PROVE  SortsBefore(parts[h], parts[j]) \/ (~SortsBefore(parts[j], parts[h]) /\ h <= j)
        OBVIOUS
    <2>1. CASE j = h
        <3>1. ~SortsBefore(parts[h], parts[h]) /\ h <= h
            BY <1>1
        <3> QED BY <2>1, <3>1
    <2>2. CASE j # h
        BY <2>2
    <2> QED BY <2>1, <2>2
<1>3. ASSUME NEW i \in DOMAIN parts, First(i) PROVE i = h
    <2>1. SortsBefore(parts[i], parts[h]) \/ ~SortsBefore(parts[h], parts[i])
        BY <1>3
    <2> QED BY <1>1, <2>1
<1>4. BaseCall(parts) = parts[CHOOSE i \in DOMAIN parts : First(i)]
    BY DEF BaseCall
<1> HIDE DEF First
<1>5. (CHOOSE i \in DOMAIN parts : First(i)) = h
    BY <1>2, <1>3
<1> QED BY <1>4, <1>5

\* A part that is no suffix and has a digit sorts before every suffix.
LEMMA HomeBeforeEnding ==
    ASSUME NEW home \in MainParts, HasDigit(home), NEW ending \in Endings
    PROVE  SortsBefore(home, ending)
<1>1. home \in Strings /\ ending \in Strings
    BY DEF Strings
<1>2. CASE ending \in Portable
    <2>1. ~HasDigit(ending)
        BY <1>2, PartsAssumption DEF PartsAssumption, HasDigit
    <2> QED BY <2>1 DEF SortsBefore
<1>3. CASE ending \notin Portable
    <2>1. PICK d \in Digits : ending = <<d>>
        BY <1>3 DEF Endings
    <2>2. Len(ending) = 1 /\ HasDigit(ending)
        BY <2>1 DEF HasDigit
    <2>3. Len(home) \in Nat /\ home \in Seq({home[i] : i \in DOMAIN home})
        BY <1>1, StringLength
    <2>4. DOMAIN home = 1..Len(home)
        BY <2>3
    <2>5. PICK i \in DOMAIN home : home[i] \in Digits
        BY DEF HasDigit
    <2>6. ~NonEntity(home)
        BY MainPartsAssumption DEF MainPartsAssumption
    <2>7. Len(home) > 1
        <3> SUFFICES ASSUME Len(home) <= 1 PROVE FALSE
            BY <2>3
        <3>1. i \in 1..Len(home)
            BY <2>4, <2>5
        <3>2. Len(home) = 1 /\ i = 1
            <4> DEFINE l == Len(home)
            <4>1. l \in Nat /\ l <= 1 /\ i \in 1..l
                BY <2>3, <3>1
            <4> HIDE DEF l
            <4>2. l = 1 /\ i = 1
                BY <4>1
            <4> QED BY <4>2 DEF l
        <3>3. \A j \in DOMAIN home : home[j] \in Digits
            BY <2>4, <2>5, <3>2
        <3> QED BY <2>6, <3>2, <3>3 DEF NonEntity
    <2> QED BY <2>2, <2>7 DEF SortsBefore
<1> QED BY <1>2, <1>3

\* The longest of the prefixes of a prefix that cty.dat has is itself.
LEMMA LongestIsItself ==
    ASSUME entities \in Seq(Entity), NEW piece \in Strings, KnownPrefix(piece)
    PROVE  Matching(piece) # {} /\ LongestRule(piece).prefix = piece
<1>1. PICK n \in DOMAIN entities : [prefix |-> piece, exact |-> FALSE] \in Rules(n)
    BY DEF KnownPrefix
<1>2. piece \in PrefixNames
    <2>1. [prefix |-> piece, exact |-> FALSE] \in Tokened
        BY <1>1, RulesAreTokens
    <2> QED BY <2>1 DEF Tokened
<1> DEFINE itself == [entity |-> n, prefix |-> piece]
<1>3. itself \in Matching(piece)
    BY <1>1, <1>2, PrefixOfItself DEF Matching
<1>4. itself.prefix = piece
    OBVIOUS
<1> HIDE DEF itself
<1>5. Matching(piece) # {}
    BY <1>3
<1> DEFINE r == LongestRule(piece)
<1>6. r \in Matching(piece) /\ Len(piece) <= Len(r.prefix)
    BY <1>3, <1>4, <1>5, LongestIs
<1> HIDE DEF r
<1>7. r.prefix \in Strings /\ IsPrefix(r.prefix, piece)
    BY <1>6 DEF Matching, Strings
<1> DEFINE p == r.prefix
<1>8. p \in Strings /\ IsPrefix(p, piece) /\ Len(piece) <= Len(p)
    BY <1>6, <1>7
<1> HIDE DEF p
<1>9. /\ Len(p) \in Nat /\ p \in Seq({p[i] : i \in DOMAIN p})
      /\ Len(piece) \in Nat /\ piece \in Seq({piece[i] : i \in DOMAIN piece})
    BY <1>8, StringLength
<1>10. Len(p) = Len(piece) /\ SubSeq(p, 1, Len(p)) = SubSeq(piece, 1, Len(p))
    BY <1>8, <1>9 DEF IsPrefix
<1>11. SubSeq(p, 1, Len(p)) = p /\ SubSeq(piece, 1, Len(piece)) = piece
    BY <1>9
<1>12. p = piece
    BY <1>10, <1>11
<1> QED BY <1>5, <1>12 DEF p, r

\* Of two candidates the first decides, if no "=" rule is of the second.
LEMMA FirstDecides ==
    ASSUME entities \in Seq(Entity), NEW parts, NEW prefix \in Strings, NEW home \in Strings,
           Candidates(parts) = <<prefix, home>>, KnownPrefix(prefix), Exact(home) = {}
    PROVE  Lookup(parts).prefix = prefix
<1> DEFINE candidate == Candidates(parts)
           exact == {i \in DOMAIN candidate : Exact(candidate[i]) # {}}
           plain == {i \in DOMAIN candidate : Matching(candidate[i]) # {}}
           f == CHOOSE i \in exact : \A j \in exact : i <= j
           p == CHOOSE i \in plain : \A j \in plain : i <= j
           n == CHOOSE k \in Exact(candidate[f]) : \A o \in Exact(candidate[f]) : o <= k
<1>1. DOMAIN candidate = {1, 2} /\ candidate[1] = prefix /\ candidate[2] = home
    OBVIOUS
<1>2. Lookup(parts) =
         IF exact # {} THEN [entity |-> n, prefix |-> candidate[f]]
         ELSE IF plain # {} THEN LongestRule(candidate[p]) ELSE NoMatch
    BY DEF Lookup
<1> HIDE DEF candidate
<1>3. exact \subseteq {1}
    BY <1>1
<1>4. CASE exact # {}
    <2>1. exact = {1}
        <3> HIDE DEF exact
        <3> QED BY <1>3, <1>4
    <2>2. f = 1
        <3> HIDE DEF exact
        <3> QED BY <2>1
    <2> HIDE DEF exact, f
    <2>3. Lookup(parts) = [entity |-> n, prefix |-> candidate[1]]
        BY <1>2, <1>4, <2>2
    <2> HIDE DEF n
    <2> QED BY <1>1, <2>3
<1>5. CASE exact = {}
    <2>1. Matching(prefix) # {} /\ LongestRule(prefix).prefix = prefix
        BY LongestIsItself
    <2>2. 1 \in plain /\ plain \subseteq {1, 2}
        BY <1>1, <2>1
    <2>3. p = 1
        <3> HIDE DEF plain
        <3>1. \A i \in plain : i \in {1, 2}
            BY <2>2
        <3>2. \A j \in plain : 1 <= j
            BY <3>1
        <3>3. \A i \in plain : (\A j \in plain : i <= j) => i = 1
            BY <2>2, <3>1
        <3> QED BY <2>2, <3>2, <3>3
    <2> HIDE DEF exact, plain, p, f, n
    <2>4. Lookup(parts) = LongestRule(prefix)
        BY <1>1, <1>2, <1>5, <2>2, <2>3
    <2> QED BY <2>1, <2>4
<1> QED BY <1>4, <1>5

LEMMA PrefixDecidesHolds ==
    ASSUME CountryInv
    PROVE  PrefixDecides
<1> SUFFICES ASSUME match # <<>>, NEW prefix \in MainParts, NEW home \in MainParts,
                    IsPortable(prefix, home), ToldByForm(prefix, home), Exact(home) = {}
             PROVE  match[1].prefix = prefix /\ BaseCall(call) = home
    BY DEF PrefixDecides
<1>1. match[1] = Lookup(call)
    BY DEF CountryInv
<1>2. call \in Seq(Strings) /\ call # <<>> /\ entities \in Seq(Entity)
    BY CallIsParts DEF CountryInv
<1>3. /\ prefix \in Strings /\ home \in Strings
      /\ Len(prefix) \in Nat /\ Len(home) \in Nat
    BY StringLength DEF Strings
<1>4. /\ SortsBefore(home, prefix)
      /\ InOrder(prefix, home) = <<prefix, home>> /\ InOrder(home, prefix) = <<prefix, home>>
    <2>1. /\ HasDigit(home) /\ HasDigit(prefix) \in BOOLEAN
          /\ ~HasDigit(prefix) \/ Len(prefix) < Len(home)
        BY DEF IsPortable, ToldByForm, HasDigit
    <2>2. CASE ~HasDigit(prefix)
        BY <2>1, <2>2 DEF SortsBefore, InOrder
    <2>3. CASE HasDigit(prefix)
        <3>1. Len(prefix) < Len(home) /\ Len(prefix) <= Len(home) /\ ~(Len(home) <= Len(prefix))
            BY <1>3, <2>1, <2>3
        <3> QED BY <2>1, <2>3, <3>1 DEF SortsBefore, InOrder
    <2> QED BY <2>1, <2>2, <2>3
<1> DEFINE main == Stripped(call)
<1>5. /\ main \in {<<prefix, home>>, <<home, prefix>>}
      /\ Len(main) = 2 /\ Len(main) \in 1..Len(call)
      /\ \A i \in 1..Len(main) : main[i] = call[i]
    <2>1. main \in {<<prefix, home>>, <<home, prefix>>}
        BY DEF IsPortable
    <2> HIDE DEF main
    <2>2. Len(main) = 2
        BY <2>1
    <2> QED BY <1>2, <2>1, <2>2, StrippedParts DEF main
<1>6. ASSUME NEW i \in 3..Len(call) PROVE call[i] \in Endings
    <2>1. PICK n \in 1..Len(call) :
              /\ \A j \in n + 1..Len(call) : NonEntity(call[j])
              /\ Stripped(call) = SubSeq(call, 1, n)
        BY <1>2, StrippedIs
    <2>2. n = 2
        <3>1. Len(SubSeq(call, 1, n)) = n
            BY <1>2
        <3> QED BY <1>5, <2>1, <3>1
    <2>3. i \in n + 1..Len(call) /\ i \in DOMAIN call
        BY <1>2, <2>2
    <2>4. NonEntity(call[i])
        BY <2>1, <2>3
    <2>5. call[i] \in MainParts \cup Endings
        <3>1. call \in Seq(MainParts \cup Endings)
            BY DEF CountryInv, CallShape
        <3> QED BY <2>3, <3>1, ElementOfSeq
    <2> QED BY <2>4, <2>5, MainPartsAssumption DEF MainPartsAssumption
<1> HIDE DEF main
<1>7. Len(call) \in Nat /\ Len(call) >= 2 /\ DOMAIN call = 1..Len(call)
    BY <1>2, <1>5
<1>8. main[1] = call[1] /\ main[2] = call[2]
    <2>1. 1 \in 1..Len(main) /\ 2 \in 1..Len(main)
        BY <1>5
    <2> QED BY <1>5, <2>1
<1>9. Candidates(call) = InOrder(call[1], call[2])
    BY <1>5 DEF Candidates, main
<1>10. \/ call[1] = prefix /\ call[2] = home
       \/ call[1] = home /\ call[2] = prefix
    BY <1>5, <1>8
<1>11. match[1].prefix = prefix
    <2>1. Candidates(call) = <<prefix, home>>
        BY <1>4, <1>9, <1>10
    <2>2. KnownPrefix(prefix)
        BY DEF IsPortable
    <2> QED BY <1>1, <1>2, <1>3, <2>1, <2>2, FirstDecides
<1>12. ASSUME NEW h \in {1, 2}, call[h] = home, call[3 - h] = prefix
       PROVE  BaseCall(call) = home
    <2>1. h \in DOMAIN call
        BY <1>7
    <2>2. \A j \in DOMAIN call \ {h} : SortsBefore(call[h], call[j])
        <3> SUFFICES ASSUME NEW j \in DOMAIN call, j # h PROVE SortsBefore(call[h], call[j])
            OBVIOUS
        <3>1. CASE j \in 3..Len(call)
            BY <1>6, <1>12, <3>1, HomeBeforeEnding DEF IsPortable
        <3>2. CASE j \notin 3..Len(call)
            <4>1. j = 3 - h
                BY <1>7, <3>2
            <4> QED BY <1>4, <1>12, <4>1
        <3> QED BY <3>1, <3>2
    <2>3. BaseCall(call) = call[h]
        BY <1>2, <2>1, <2>2, BaseIsFirst
    <2> QED BY <1>12, <2>3
<1>13. BaseCall(call) = home
    <2>1. CASE call[1] = prefix /\ call[2] = home
        <3>1. call[2] = home /\ call[3 - 2] = prefix /\ 2 \in {1, 2}
            BY <2>1
        <3> QED BY <1>12, <3>1
    <2>2. CASE call[1] = home /\ call[2] = prefix
        <3>1. call[1] = home /\ call[3 - 1] = prefix /\ 1 \in {1, 2}
            BY <2>2
        <3> QED BY <1>12, <3>1
    <2> QED BY <1>10, <2>1, <2>2
<1> QED BY <1>11, <1>13

LEMMA CountryTypesHold ==
    ASSUME CountryInv
    PROVE  CountryTypeOK
<1> SUFFICES ASSUME match # <<>>, match[1] # NoMatch PROVE CountryTypeOK
    BY DEF CountryTypeOK
<1>1. match[1] = Lookup(call)
    BY DEF CountryInv
<1>2. call \in Seq(Strings) /\ call # <<>> /\ entities \in Seq(Entity)
    BY CallIsParts DEF CountryInv
<1>3. PICK i \in DOMAIN Candidates(call) : Found(match[1], Candidates(call)[i])
    BY <1>1, <1>2, LookupFinds
<1>4. PICK j \in DOMAIN call : Candidates(call)[i] = call[j]
    <2>1. \E k \in DOMAIN Stripped(call) : Candidates(call)[i] = Stripped(call)[k]
        BY <1>2, CandidateParts
    <2>2. /\ Stripped(call) \in Seq(Strings) /\ Len(Stripped(call)) \in 1..Len(call)
          /\ \A k \in 1..Len(Stripped(call)) : Stripped(call)[k] = call[k]
        BY <1>2, StrippedParts
    <2>3. PICK k \in 1..Len(Stripped(call)) : Candidates(call)[i] = Stripped(call)[k]
        BY <2>1, <2>2
    <2>4. k \in DOMAIN call
        BY <1>2, <2>2
    <2> QED BY <2>2, <2>3, <2>4
<1>5. CASE match[1].entity \in Exact(call[j]) /\ match[1].prefix = call[j]
    BY <1>5 DEF Exact, CountryTypeOK
<1>6. CASE match[1] \in Matching(call[j])
    BY <1>6 DEF Matching, CountryTypeOK
<1> QED BY <1>3, <1>4, <1>5, <1>6 DEF Found

LEMMA CountryStarts ==
    ASSUME CountryInit
    PROVE  CountryInv
<1>1. entities \in Seq(Entity)
    <2>1. PICK n \in 1..MaxEntities : entities \in [1..n -> Entity]
        BY DEF CountryInit
    <2>2. n \in Nat
        BY PartsAssumption DEF PartsAssumption
    <2> QED BY <2>1, <2>2
<1>2. PICK main \in [1..1 -> MainParts] \cup [1..2 -> MainParts], n \in 0..2 :
         \E rest \in [1..n -> Endings] : call = main \o rest
    BY DEF CountryInit
<1>3. PICK rest \in [1..n -> Endings] : call = main \o rest
    BY <1>2
<1> DEFINE P == MainParts \cup Endings
<1>4. main \in Seq(P) /\ Len(main) \in {1, 2} /\ main[1] \in MainParts
    <2>1. CASE main \in [1..1 -> MainParts]
        <3>1. main \in Seq(MainParts) /\ Len(main) = 1
            BY <2>1, FunctionIsSequence
        <3> QED BY <2>1, <3>1
    <2>2. CASE main \in [1..2 -> MainParts]
        <3>1. main \in Seq(MainParts) /\ Len(main) = 2
            BY <2>2, FunctionIsSequence
        <3> QED BY <2>2, <3>1
    <2> QED BY <2>1, <2>2
<1>5. rest \in Seq(P)
    <2>1. n \in Nat
        OBVIOUS
    <2>2. rest \in Seq(Endings)
        BY <2>1, FunctionIsSequence
    <2> QED BY <2>2
<1> HIDE DEF P
<1>6. call \in Seq(P) /\ Len(call) >= 1 /\ call[1] = main[1]
    <2>1. call \in Seq(P) /\ Len(call) = Len(main) + Len(rest) /\ Len(rest) \in Nat
        BY <1>3, <1>4, <1>5
    <2>2. 1 \in 1..Len(main)
        BY <1>4
    <2>3. call[1] = main[1]
        BY <1>3, <1>4, <1>5, <2>2
    <2> QED BY <1>4, <2>1, <2>3
<1>7. call # <<>>
    BY <1>6
<1> QED BY <1>1, <1>4, <1>6, <1>7 DEF CountryInv, CallShape, CountryInit, P

LEMMA CountryStep ==
    ASSUME CountryInv, [CountryNext]_countryVars
    PROVE  CountryInv'
<1>1. UNCHANGED <<entities, call>>
    BY DEF CountryNext, LookUpCall, countryVars
<1>2. CallShape'
    BY <1>1 DEF CountryInv, CallShape
<1>3. match' = match \/ match' = <<Lookup(call)>>
    BY DEF CountryNext, LookUpCall, countryVars
<1>4. \A parts : Lookup(parts)' = Lookup(parts)
    BY <1>1 DEF Lookup, LongestRule, Matching, Exact, Rules
<1> QED BY <1>1, <1>2, <1>3, <1>4 DEF CountryInv

LEMMA CountryHolds == CountryInv => CountryTypeOK /\ CountryOfOperation
BY CountryTypesHold, EitherSideHolds, MostSpecificHolds, PrefixDecidesHolds DEF CountryOfOperation

\* The rule that is used for a callsign says most of those for the part that decides, and
\* is the same on either side of the stroke (DxccLookup.lookup, _dxcc_candidates).  Where
\* the form of a portable call tells its prefix, which it does if that has no digit or is
\* shorter, and no "=" rule is of the home call, the rule is that of the prefix and the
\* station is kept under the home call (extract_base_call).
THEOREM CountryIsOfOperation == CountrySpec => [](CountryTypeOK /\ CountryOfOperation)
<1>1. CountryInit => CountryInv
    BY CountryStarts
<1>2. CountryInv /\ [CountryNext]_countryVars => CountryInv'
    BY CountryStep
<1> QED BY <1>1, <1>2, CountryHolds, PTL DEF CountrySpec

-----------------------------------------------------------------------------
(***************************************************************************)
(* Packets, for any number of ticks of a day: the reader after each field. *)
(* While it is not refused it has taken a number of fields whole, and the  *)
(* others are missing because nothing was left for them (ReadTo).          *)
(***************************************************************************)
PacketsSpec == PacketsInit /\ [][PacketsNext]_packetVars

Kinds == {"u8", "bool", "u32", "i32", "time", "type", "u64", "f64", "text"}

Names ==
    {"magic", "schema", "type", "id", "max_schema", "version", "revision", "dial_frequency_hz",
     "mode", "dx_call", "report", "tx_mode", "tx_enabled", "transmitting", "decoding", "rx_df",
     "tx_df", "de_call", "de_grid", "dx_grid", "tx_watchdog", "sub_mode", "fast_mode",
     "special_op_mode", "frequency_tolerance", "tr_period", "configuration_name", "tx_message",
     "is_new", "time_ms", "snr", "dt", "df", "message", "low_confidence", "off_air", "window"}

\* The only field of eight bytes without sign is the dial frequency.
Field ==
    {f \in [name : Names, kind : Kinds, required : BOOLEAN] :
        f.kind = "u64" <=> f.name = "dial_frequency_hz"}

LEMMA HeaderFields ==
    /\ Header \in Seq(Field) /\ Len(Header) = 4
    /\ \A i \in 1..4 : Header[i].required
<1>1. Must("magic", "u32") \in Field /\ Must("schema", "u32") \in Field
      /\ Must("type", "type") \in Field /\ Must("id", "text") \in Field
    BY DEF Kinds, Names, Field, Must
<1>2. Header \in Seq(Field) /\ Len(Header) = 4
    BY <1>1 DEF Header
<1>3. \A i \in 1..4 : Header[i].required
    <2>1. \A i \in 1..4 : i = 1 \/ i = 2 \/ i = 3 \/ i = 4
        OBVIOUS
    <2>2. Header[1].required /\ Header[2].required /\ Header[3].required /\ Header[4].required
        BY DEF Header, Must
    <2> QED BY <2>1, <2>2
<1> QED BY <1>2, <1>3

LEMMA StatusFields ==
    /\ Layout.status \in Seq(Field) /\ Len(Layout.status) = 21
    /\ \A i \in 13..21 : ~Layout.status[i].required
<1> DEFINE L == Layout.status
<1>1. Must("dial_frequency_hz", "u64") \in Field /\ Must("mode", "text") \in Field
    BY DEF Kinds, Names, Field, Must
<1>2. /\ Can("dx_call", "text") \in Field /\ Can("report", "text") \in Field
      /\ Can("tx_mode", "text") \in Field /\ Can("de_call", "text") \in Field
      /\ Can("de_grid", "text") \in Field /\ Can("dx_grid", "text") \in Field
    BY DEF Kinds, Names, Field, Can
<1>3. /\ Can("sub_mode", "text") \in Field /\ Can("configuration_name", "text") \in Field
      /\ Can("tx_message", "text") \in Field /\ Can("special_op_mode", "u8") \in Field
    BY DEF Kinds, Names, Field, Can
<1>4. /\ Can("tx_enabled", "bool") \in Field /\ Can("transmitting", "bool") \in Field
      /\ Can("decoding", "bool") \in Field /\ Can("tx_watchdog", "bool") \in Field
      /\ Can("fast_mode", "bool") \in Field
    BY DEF Kinds, Names, Field, Can
<1>5. /\ Can("rx_df", "u32") \in Field /\ Can("tx_df", "u32") \in Field
      /\ Can("frequency_tolerance", "u32") \in Field /\ Can("tr_period", "u32") \in Field
    BY DEF Kinds, Names, Field, Can
<1> HIDE DEF Field
<1>6. L \in Seq(Field) /\ Len(L) = 21
    BY <1>1, <1>2, <1>3, <1>4, <1>5 DEF Layout
<1>7. \A i \in 13..21 : ~L[i].required
    BY DEF Layout, Can
<1> QED BY <1>6, <1>7

LEMMA DecodeFields ==
    /\ Layout.decode \in Seq(Field) /\ Len(Layout.decode) = 9
<1> DEFINE L == Layout.decode
<1>1. /\ Must("is_new", "bool") \in Field /\ Must("time_ms", "time") \in Field
      /\ Must("snr", "i32") \in Field /\ Must("dt", "f64") \in Field
    BY DEF Kinds, Names, Field, Must
<1>2. /\ Must("df", "u32") \in Field /\ Must("mode", "text") \in Field
      /\ Must("message", "text") \in Field
    BY DEF Kinds, Names, Field, Must
<1>3. Can("low_confidence", "bool") \in Field /\ Can("off_air", "bool") \in Field
    BY DEF Kinds, Names, Field, Can
<1> HIDE DEF Field
<1> QED BY <1>1, <1>2, <1>3 DEF Layout

LEMMA OtherFields ==
    /\ Layout.heartbeat \in Seq(Field) /\ Len(Layout.heartbeat) = 3
    /\ Layout.clear \in Seq(Field) /\ Len(Layout.clear) = 1 /\ ~Layout.clear[1].required
    /\ Layout.close \in Seq(Field) /\ Len(Layout.close) = 0
    /\ Layout.unknown \in Seq(Field) /\ Len(Layout.unknown) = 0
<1>1. /\ Can("max_schema", "u32") \in Field /\ Can("version", "text") \in Field
      /\ Can("revision", "text") \in Field /\ Can("window", "u8") \in Field
    BY DEF Kinds, Names, Field, Can
<1>2. ~Can("window", "u8").required
    BY DEF Can
<1> HIDE DEF Field
<1> QED BY <1>1, <1>2 DEF Layout

LEMMA TypesAre ==
    Types = {"heartbeat", "status", "decode", "clear", "close", "unknown"}
BY DEF Types, Layout

LEMMA WrittenAre ==
    /\ DOMAIN Written = {"heartbeat", "status", "decode", "clear", "close"}
    /\ Written.heartbeat = 3 /\ Written.status = 16 /\ Written.decode = 9
    /\ Written.clear = 0 /\ Written.close = 0
BY DEF Written

LEMMA JoinedFields ==
    ASSUME NEW S, NEW a \in Seq(S), NEW b \in Seq(S), Len(a) = 4
    PROVE  /\ a \o b \in Seq(S) /\ Len(b) \in Nat /\ Len(a \o b) = 4 + Len(b)
           /\ \A i \in 1..4 : (a \o b)[i] = a[i]
           /\ \A i \in 5..4 + Len(b) : (a \o b)[i] = b[i - 4]
<1>1. a \o b \in Seq(S) /\ Len(b) \in Nat /\ Len(a \o b) = Len(a) + Len(b)
    <2>1. a \o b \in Seq(S) /\ Len(a \o b) = Len(a) + Len(b)
        BY ConcatProperties
    <2>2. Len(b) \in Nat
        OBVIOUS
    <2> QED BY <2>1, <2>2
<1>2. \A i \in 1..Len(a) + Len(b) : (a \o b)[i] = IF i <= Len(a) THEN a[i] ELSE b[i - Len(a)]
    BY ConcatProperties
<1>3. \A i \in 1..4 + Len(b) : (a \o b)[i] = IF i <= 4 THEN a[i] ELSE b[i - 4]
    BY <1>2
<1>4. \A i \in 1..4 : (a \o b)[i] = a[i]
    BY <1>1, <1>3
<1>5. \A i \in 5..4 + Len(b) : (a \o b)[i] = b[i - 4]
    BY <1>1, <1>3
<1> QED BY <1>1, <1>4, <1>5

\* The fields of any type: the header, which is required, and those of the type.  What
\* the encoders leave out is not required.
LEMMA FieldsOfType ==
    ASSUME NEW t \in Types
    PROVE  /\ Fields(t) \in Seq(Field) /\ Len(Fields(t)) \in Nat /\ Len(Fields(t)) >= 4
           /\ \A i \in 1..4 : Fields(t)[i].required
           /\ t \in DOMAIN Written =>
                /\ Written[t] \in Nat /\ Written[t] + 4 <= Len(Fields(t))
                /\ \A i \in Written[t] + 5..Len(Fields(t)) : ~Fields(t)[i].required
<1> DEFINE L == Layout[t]
<1>1. L \in Seq(Field)
    BY TypesAre, StatusFields, DecodeFields, OtherFields
<1>2. Header \in Seq(Field) /\ Len(Header) = 4 /\ \A i \in 1..4 : Header[i].required
    BY HeaderFields
<1>3. t \in DOMAIN Written =>
         /\ Written[t] \in Nat /\ Written[t] <= Len(L)
         /\ \A i \in Written[t] + 1..Len(L) : ~L[i].required
    <2> USE TypesAre, WrittenAre
    <2>1. CASE t = "status"
        <3>1. Written[t] = 16 /\ Len(L) = 21 /\ \A i \in 13..21 : ~L[i].required
            BY <2>1, StatusFields
        <3> HIDE DEF L
        <3> QED BY <3>1
    <2>2. CASE t = "decode"
        <3>1. Written[t] = 9 /\ Len(L) = 9
            BY <2>2, DecodeFields
        <3> HIDE DEF L
        <3> QED BY <3>1
    <2>3. CASE t = "heartbeat"
        <3>1. Written[t] = 3 /\ Len(L) = 3
            BY <2>3, OtherFields
        <3> HIDE DEF L
        <3> QED BY <3>1
    <2>4. CASE t = "clear"
        <3>1. Written[t] = 0 /\ Len(L) = 1 /\ ~L[1].required
            BY <2>4, OtherFields
        <3> HIDE DEF L
        <3> QED BY <3>1
    <2>5. CASE t = "close"
        <3>1. Written[t] = 0 /\ Len(L) = 0
            BY <2>5, OtherFields
        <3> HIDE DEF L
        <3> QED BY <3>1
    <2>6. CASE t = "unknown"
        BY <2>6
    <2> QED BY <2>1, <2>2, <2>3, <2>4, <2>5, <2>6
<1>4. Fields(t) = Header \o L
    BY DEF Fields
<1> HIDE DEF L
<1>5. /\ Fields(t) \in Seq(Field) /\ Len(Fields(t)) = 4 + Len(L) /\ Len(L) \in Nat
      /\ \A i \in 1..4 : Fields(t)[i] = Header[i]
      /\ \A i \in 5..4 + Len(L) : Fields(t)[i] = L[i - 4]
    <2> DEFINE H == Header
               F == Fields(t)
    <2>1. F = H \o L /\ H \in Seq(Field) /\ L \in Seq(Field) /\ Len(H) = 4
        BY <1>1, <1>2, <1>4
    <2> HIDE DEF H, F, Field
    <2>2. F \in Seq(Field) /\ Len(F) = 4 + Len(L) /\ Len(L) \in Nat
        BY <2>1, JoinedFields
    <2>3. \A i \in 1..4 : F[i] = H[i]
        BY <2>1, JoinedFields
    <2>4. \A i \in 5..4 + Len(L) : F[i] = L[i - 4]
        BY <2>1, JoinedFields
    <2> QED BY <2>2, <2>3, <2>4 DEF F, H
<1>6. t \in DOMAIN Written =>
        /\ Written[t] \in Nat /\ Written[t] + 4 <= Len(Fields(t))
        /\ \A i \in Written[t] + 5..Len(Fields(t)) : ~Fields(t)[i].required
    <2> SUFFICES ASSUME t \in DOMAIN Written
                 PROVE  /\ Written[t] \in Nat /\ Written[t] + 4 <= Len(Fields(t))
                        /\ \A i \in Written[t] + 5..Len(Fields(t)) : ~Fields(t)[i].required
        OBVIOUS
    <2>1. Written[t] \in Nat /\ Written[t] + 4 <= Len(Fields(t))
        BY <1>3, <1>5
    <2>2. ASSUME NEW i \in Written[t] + 5..Len(Fields(t)) PROVE ~Fields(t)[i].required
        <3>1. i \in 5..4 + Len(L) /\ i - 4 \in Written[t] + 1..Len(L)
            BY <1>5, <2>1
        <3> QED BY <1>3, <1>5, <3>1
    <2> QED BY <2>1, <2>2
<1> QED BY <1>2, <1>5, <1>6

-----------------------------------------------------------------------------
\* A datagram has at most one odd value.
Datagram(p) ==
    /\ p.type \in Types /\ p.odd \in 0..Len(Fields(p.type))
    /\ p.value \in IF p.odd = 0 THEN {"usual"} ELSE Odd(Fields(p.type)[p.odd].kind)

LEMMA ValueOfField ==
    ASSUME NEW p, Datagram(p), NEW i \in 1..Len(Fields(p.type))
    PROVE  /\ Fields(p.type)[i] \in Field
           /\ Value(p, i) \in {"usual"} \cup Odd(Fields(p.type)[i].kind)
           /\ Value(p, i) = "zero" => Fields(p.type)[i].kind = "u64"
           /\ Size(Fields(p.type)[i].kind, Value(p, i)) \in {1, 4, 5, 8}
<1> DEFINE f == Fields(p.type)[i]
           v == Value(p, i)
<1>1. f \in Field /\ i # 0
    BY FieldsOfType DEF Datagram
<1>2. v \in {"usual"} \cup Odd(f.kind)
    BY <1>1 DEF Value, Datagram
<1>3. f.kind \in Kinds
    BY <1>1 DEF Field
<1> HIDE DEF f, v
<1>4. v = "zero" => f.kind = "u64"
    BY <1>2, <1>3 DEF Odd, Kinds
<1>5. Size(f.kind, v) \in {1, 4, 5, 8}
    BY <1>3 DEF Size, Kinds
<1> QED BY <1>1, <1>2, <1>4, <1>5 DEF f, v

LEMMA BeginIs ==
    ASSUME NEW p, Datagram(p)
    PROVE  LET n == Len(Fields(p.type))
           IN /\ Begin(p)[1] = 0
              /\ \A i \in 1..n : Begin(p)[i + 1] = Begin(p)[i] + Size(Fields(p.type)[i].kind, Value(p, i))
<1> DEFINE n == Len(Fields(p.type))
           s == [i \in 1..n |-> Size(Fields(p.type)[i].kind, Value(p, i))]
           begin[i \in 1..n + 1] ==
               IF i = 1 THEN 0 ELSE begin[i - 1] + Size(Fields(p.type)[i - 1].kind, Value(p, i - 1))
<1>1. Begin(p) = begin
    BY DEF Begin
<1>2. n \in Nat
    BY FieldsOfType DEF Datagram
<1>3. begin = [i \in 1..n + 1 |->
                  IF i = 1 THEN 0 ELSE begin[i - 1] + Size(Fields(p.type)[i - 1].kind, Value(p, i - 1))]
    <2> HIDE DEF n
    <2>1. PICK f : f = [k \in 0..n |-> IF k = 0 THEN 0 ELSE f[k - 1] + s[k]]
        <3> HIDE DEF s
        <3> QED BY <1>2, RunningSumExists DEF IsRunningSum
    <2> DEFINE g == [i \in 1..n + 1 |-> f[i - 1]]
    <2>2. g = [i \in 1..n + 1 |->
                  IF i = 1 THEN 0 ELSE g[i - 1] + Size(Fields(p.type)[i - 1].kind, Value(p, i - 1))]
        <3> SUFFICES ASSUME NEW i \in 1..n + 1
                     PROVE  g[i] = IF i = 1 THEN 0
                                   ELSE g[i - 1] + Size(Fields(p.type)[i - 1].kind, Value(p, i - 1))
            OBVIOUS
        <3>1. CASE i = 1
            BY <1>2, <2>1, <3>1
        <3>2. CASE i # 1
            <4>1. i - 1 \in 1..n /\ i - 1 \in 0..n /\ i - 1 # 0 /\ i - 1 \in 1..n + 1
                BY <1>2, <3>2
            <4>2. f[i - 1] = f[(i - 1) - 1] + s[i - 1]
                BY <2>1, <4>1
            <4>3. g[i] = f[i - 1] /\ g[i - 1] = f[(i - 1) - 1]
                BY <4>1
            <4>4. s[i - 1] = Size(Fields(p.type)[i - 1].kind, Value(p, i - 1))
                BY <4>1
            <4> HIDE DEF g, s
            <4> QED BY <3>2, <4>2, <4>3, <4>4
        <3> QED BY <3>1, <3>2
    <2> HIDE DEF g
    <2> QED BY <2>2
<1> HIDE DEF begin
<1>4. begin[1] = 0
    BY <1>2, <1>3
<1>5. \A i \in 1..n : begin[i + 1] = begin[i] + Size(Fields(p.type)[i].kind, Value(p, i))
    <2> HIDE DEF n
    <2> SUFFICES ASSUME NEW i \in 1..n
                 PROVE  begin[i + 1] = begin[i] + Size(Fields(p.type)[i].kind, Value(p, i))
        OBVIOUS
    <2>1. i + 1 \in 1..n + 1 /\ i + 1 # 1 /\ (i + 1) - 1 = i
        BY <1>2
    <2> QED BY <1>3, <2>1
<1> QED BY <1>1, <1>4, <1>5

\* Fields begin one after another.
LEMMA BeginGrows ==
    ASSUME NEW p, Datagram(p)
    PROVE  LET n == Len(Fields(p.type))
           IN /\ \A i \in 1..n + 1 : Begin(p)[i] \in Nat
              /\ \A i, j \in 1..n + 1 : i < j => Begin(p)[i] < Begin(p)[j]
<1> DEFINE n == Len(Fields(p.type))
           b == Begin(p)
           Good(j) == b[j] \in Nat /\ \A i \in 1..j - 1 : b[i] \in Nat /\ b[i] < b[j]
           Bad == {j \in 1..n + 1 : ~Good(j)}
<1>1. n \in Nat
    BY FieldsOfType DEF Datagram
<1>2. b[1] = 0 /\ \A i \in 1..n : b[i + 1] = b[i] + Size(Fields(p.type)[i].kind, Value(p, i))
    BY BeginIs
<1>3. \A i \in 1..n : Size(Fields(p.type)[i].kind, Value(p, i)) \in {1, 4, 5, 8}
    BY ValueOfField
<1> DEFINE s == [i \in 1..n |-> Size(Fields(p.type)[i].kind, Value(p, i))]
<1>4. \A i \in 1..n : b[i + 1] = b[i] + s[i] /\ s[i] \in {1, 4, 5, 8}
    BY <1>2, <1>3
<1> HIDE DEF n, b, s
<1>5. Bad = {}
    <2> SUFFICES ASSUME Bad # {} PROVE FALSE
        OBVIOUS
    <2>1. PICK m \in Bad : \A k \in Bad : m <= k
        <3>1. Bad \in SUBSET Nat
            BY <1>1
        <3> HIDE DEF Bad
        <3> QED BY <3>1, LeastNumber
    <2>2. m # 1
        <3>1. Good(1)
            BY <1>2
        <3> QED BY <3>1
    <2>3. m \in 1..n + 1 /\ m - 1 \in 1..n /\ m - 1 \in 1..n + 1 /\ m - 1 < m /\ (m - 1) + 1 = m
        BY <1>1, <2>2
    <2>4. Good(m - 1)
        <3>1. m - 1 \notin Bad
            <4> HIDE DEF Bad
            <4> QED BY <2>1, <2>3
        <3> QED BY <2>3, <3>1
    <2>5. b[m] = b[m - 1] + s[m - 1] /\ s[m - 1] \in {1, 4, 5, 8}
        BY <1>4, <2>3
    <2>6. b[m - 1] \in Nat /\ b[m] \in Nat /\ b[m - 1] < b[m]
        BY <2>4, <2>5
    <2>7. \A i \in 1..m - 1 : i = m - 1 \/ i \in 1..(m - 1) - 1
        BY <2>3
    <2>8. ASSUME NEW i \in 1..m - 1 PROVE b[i] \in Nat /\ b[i] < b[m]
        <3>1. CASE i = m - 1
            BY <2>6, <3>1
        <3>2. CASE i \in 1..(m - 1) - 1
            <4>1. b[i] \in Nat /\ b[i] < b[m - 1]
                BY <2>4, <3>2
            <4> QED BY <2>6, <4>1
        <3> QED BY <2>7, <3>1, <3>2
    <2>9. Good(m)
        BY <2>6, <2>8
    <2> QED BY <2>9
<1>6. \A j \in 1..n + 1 : Good(j)
    BY <1>5
<1>7. ASSUME NEW i \in 1..n + 1, NEW j \in 1..n + 1, i < j PROVE b[i] < b[j]
    <2>1. i \in 1..j - 1
        BY <1>1, <1>7
    <2> QED BY <1>6, <2>1
<1> QED BY <1>6, <1>7 DEF n, b

-----------------------------------------------------------------------------
IsReading(f, n, p) == f = [i \in 0..n |-> IF i = 0 THEN Unread ELSE Read(p, f[i - 1], i)]

\* The reader after each of the fields exists.
LEMMA ReadingExists ==
    ASSUME NEW N \in Nat, NEW p
    PROVE  \E f : IsReading(f, N, p)
<1> DEFINE Good(n) == \E f : f = [i \in 0..n |-> IF i = 0 THEN Unread ELSE Read(p, f[i - 1], i)]
           Bad == {n \in Nat : ~Good(n)}
<1> SUFFICES ASSUME Bad # {} PROVE FALSE
    <2>1. CASE Bad = {}
        <3>1. PICK f : f = [i \in 0..N |-> IF i = 0 THEN Unread ELSE Read(p, f[i - 1], i)]
            BY <2>1
        <3> QED BY <3>1 DEF IsReading
    <2> QED BY <2>1
<1>1. PICK m \in Bad : \A n \in Bad : m <= n
    <2> HIDE DEF Good
    <2> QED BY LeastNumber
<1>2. m # 0
    <2>1. Good(0)
        <3> DEFINE f == [i \in 0..0 |-> Unread]
        <3>1. f = [i \in 0..0 |-> IF i = 0 THEN Unread ELSE Read(p, f[i - 1], i)]
            OBVIOUS
        <3> QED BY <3>1
    <2> QED BY <2>1
<1>3. PICK g : g = [i \in 0..(m - 1) |-> IF i = 0 THEN Unread ELSE Read(p, g[i - 1], i)]
    <2>1. m \in Nat /\ m - 1 \in Nat /\ m - 1 < m
        BY <1>2
    <2>2. m - 1 \notin Bad
        <3> HIDE DEF Bad
        <3> QED BY <1>1, <2>1
    <2>3. Good(m - 1)
        <3> HIDE DEF Good
        <3> QED BY <2>1, <2>2
    <2> QED BY <2>3
<1> DEFINE f == [i \in 0..m |-> IF i = 0 THEN Unread ELSE Read(p, g[i - 1], i)]
<1>4. \A i \in 0..(m - 1) : f[i] = g[i]
    BY <1>2, <1>3
<1>5. \A i \in 0..m : i # 0 => g[i - 1] = f[i - 1]
    <2> HIDE DEF f
    <2> QED BY <1>2, <1>4
<1>6. f = [i \in 0..m |-> IF i = 0 THEN Unread ELSE Read(p, f[i - 1], i)]
    BY <1>5
<1>7. Good(m)
    BY <1>6
<1> QED BY <1>7

Got ==
    {"missing", "usual", "zero", "greatest", "invalid", "not finite", "next day", "null",
     "empty", "too long"}
Readers == [at : Nat, got : Seq(Got), bad : BOOLEAN]

\* The reader r after the field i has taken the first m fields whole; nothing was left for
\* the others, and none of them is required.
ReadTo(p, r, i, m) ==
    LET fields == Fields(p.type)
    IN /\ r.at = Begin(p)[m + 1]
       /\ m < i => r.at = p.length
       /\ \A k \in m + 1..i : ~fields[k].required
       /\ Len(r.got) = i
       /\ \A k \in 1..m : r.got[k] = FieldValue(fields[k], Value(p, k))
       /\ \A k \in m + 1..i : r.got[k] = "missing"

Sound(p, r, i) ==
    /\ r \in Readers /\ r.at <= p.length
    /\ ~r.bad => \E m \in 0..i : ReadTo(p, r, i, m)

LEMMA ReaderChanged ==
    ASSUME NEW r \in Readers, NEW x, NEW y
    PROVE  /\ [r EXCEPT !.got = Append(@, y)] = [at |-> r.at, got |-> Append(r.got, y), bad |-> r.bad]
           /\ [r EXCEPT !.at = x, !.got = Append(@, y)] =
                [at |-> x, got |-> Append(r.got, y), bad |-> r.bad]
<1>1. DOMAIN r = {"at", "got", "bad"} /\ r = [k \in {"at", "got", "bad"} |-> r[k]]
    BY DEF Readers
<1>2. \A z : [r EXCEPT !.got = z] = [at |-> r.at, got |-> z, bad |-> r.bad]
    BY <1>1
<1> DEFINE q == [r EXCEPT !.at = x]
<1>3. q = [at |-> x, got |-> r.got, bad |-> r.bad]
    BY <1>1
<1>4. DOMAIN q = {"at", "got", "bad"} /\ q.at = x /\ q.got = r.got /\ q.bad = r.bad
      /\ q = [k \in {"at", "got", "bad"} |-> q[k]]
    <2> HIDE DEF q
    <2> QED BY <1>3
<1>5. \A z : [q EXCEPT !.got = z] = [at |-> x, got |-> z, bad |-> r.bad]
    <2> HIDE DEF q
    <2> QED BY <1>4
<1>6. [r EXCEPT !.at = x, !.got = Append(@, y)] = [q EXCEPT !.got = Append(r.got, y)]
    BY <1>1
<1> QED BY <1>2, <1>5, <1>6

LEMMA ReadNext ==
    ASSUME NEW p, Datagram(p), p.length \in Nat, NEW i \in 1..Len(Fields(p.type)),
           NEW r, Sound(p, r, i - 1)
    PROVE  Sound(p, Read(p, r, i), i)
<1> DEFINE f == Fields(p.type)[i]
           value == Value(p, i)
           size == Size(f.kind, value)
           left == p.length - r.at
           got == FieldValue(f, value)
<1>1. /\ f \in Field /\ value \in {"usual"} \cup Odd(f.kind) /\ size \in {1, 4, 5, 8}
      /\ i \in Nat /\ i # 0
    <2>1. Len(Fields(p.type)) \in Nat
        BY FieldsOfType DEF Datagram
    <2> QED BY <2>1, ValueOfField
<1>2. r \in Readers /\ r.at \in Nat /\ r.at <= p.length /\ r.got \in Seq(Got) /\ r.bad \in BOOLEAN
    BY DEF Sound, Readers
<1>3. CASE r.bad
    <2>1. Read(p, r, i) = r
        BY <1>3 DEF Read
    <2> QED BY <1>2, <1>3, <2>1 DEF Sound
<1>4. CASE ~r.bad
    <2>1. PICK m \in 0..i - 1 : ReadTo(p, r, i - 1, m)
        BY <1>4 DEF Sound
    <2>2. CASE Missing(f, left)
        <3> DEFINE s == [r EXCEPT !.got = Append(@, "missing")]
        <3>1. Read(p, r, i) = s
            BY <1>4, <2>2 DEF Read
        <3>2. left = 0 /\ ~f.required
            BY <2>2 DEF Missing
        <3>3. r.at = p.length
            BY <1>2, <3>2
        <3>4. "missing" \in Got
            BY DEF Got
        <3>5. /\ s \in Readers /\ s.at = r.at /\ s.bad = r.bad /\ s.got = Append(r.got, "missing")
            <4>1. Append(r.got, "missing") \in Seq(Got)
                BY <1>2, <3>4
            <4>3. s = [at |-> r.at, got |-> Append(r.got, "missing"), bad |-> r.bad]
                BY <1>2, ReaderChanged
            <4> HIDE DEF s
            <4> QED BY <1>2, <4>1, <4>3 DEF Readers
        <3>6. Len(r.got) = i - 1
            BY <2>1 DEF ReadTo
        <3> HIDE DEF s
        <3>7. Len(s.got) = i /\ s.got[i] = "missing" /\ \A k \in 1..i - 1 : s.got[k] = r.got[k]
            BY <1>1, <1>2, <3>4, <3>5, <3>6
        <3>8. m \in 0..i /\ \A k \in m + 1..i : k = i \/ k \in m + 1..i - 1
            BY <1>1
        <3>9. \A k \in m + 1..i : ~Fields(p.type)[k].required /\ s.got[k] = "missing"
            <4> SUFFICES ASSUME NEW k \in m + 1..i
                         PROVE  ~Fields(p.type)[k].required /\ s.got[k] = "missing"
                OBVIOUS
            <4>1. CASE k = i
                BY <3>2, <3>7, <4>1
            <4>2. CASE k \in m + 1..i - 1
                <5>1. k \in 1..i - 1
                    BY <1>1, <4>2
                <5> QED BY <2>1, <3>7, <4>2, <5>1 DEF ReadTo
            <4> QED BY <3>8, <4>1, <4>2
        <3>10. \A k \in 1..m : s.got[k] = FieldValue(Fields(p.type)[k], Value(p, k))
            <4>1. \A k \in 1..m : k \in 1..i - 1
                BY <1>1
            <4> QED BY <2>1, <3>7, <4>1 DEF ReadTo
        <3>11. ReadTo(p, s, i, m)
            BY <2>1, <3>3, <3>5, <3>7, <3>9, <3>10 DEF ReadTo
        <3> QED BY <1>2, <3>1, <3>5, <3>8, <3>11 DEF Sound
    <2>3. CASE ~Missing(f, left) /\ (Short(left, size) \/ Refused(f, value))
        <3> DEFINE s == [r EXCEPT !.bad = TRUE]
        <3>1. Read(p, r, i) = s
            BY <1>4, <2>3 DEF Read
        <3>2. s \in Readers /\ s.at = r.at /\ s.bad
            BY <1>2 DEF Readers
        <3> HIDE DEF s
        <3> QED BY <1>2, <3>1, <3>2 DEF Sound
    <2>4. CASE ~Missing(f, left) /\ ~Short(left, size) /\ ~Refused(f, value)
        <3> DEFINE s == [r EXCEPT !.at = Taken(r, f, value), !.got = Append(@, got)]
        <3>1. Read(p, r, i) = s
            BY <1>4, <2>4 DEF Read
        <3>2. left >= size
            BY <1>1, <1>2, <2>4 DEF Short
        <3>3. r.at + size <= p.length /\ r.at # p.length
            BY <1>1, <1>2, <3>2
        <3>4. m = i - 1
            BY <1>1, <2>1, <3>3 DEF ReadTo
        <3>5. got \in Got
            <4>1. f.kind \in Kinds
                BY <1>1 DEF Field
            <4> HIDE DEF f, value
            <4> QED BY <1>1, <4>1 DEF FieldValue, Got, Odd, Kinds
        <3> HIDE DEF got
        <3>6. Taken(r, f, value) = r.at + size
            BY DEF Taken
        <3> HIDE DEF size
        <3>7. r.at + size \in Nat
            BY <1>1, <1>2
        <3>8. /\ s \in Readers /\ s.at = r.at + size /\ s.bad = r.bad /\ s.got = Append(r.got, got)
            <4>1. Append(r.got, got) \in Seq(Got)
                BY <1>2, <3>5
            <4> DEFINE a == Taken(r, f, value)
            <4> HIDE DEF a
            <4>5. s = [r EXCEPT !.at = a, !.got = Append(@, got)]
                BY DEF a
            <4> HIDE DEF s
            <4>6. s = [at |-> a, got |-> Append(r.got, got), bad |-> r.bad]
                BY <1>2, <4>5, ReaderChanged
            <4>3. s = [at |-> r.at + size, got |-> Append(r.got, got), bad |-> r.bad]
                BY <3>6, <4>6 DEF a
            <4> QED BY <1>2, <3>7, <4>1, <4>3 DEF Readers
        <3>9. Len(r.got) = i - 1
            BY <2>1 DEF ReadTo
        <3> HIDE DEF s
        <3>10. Len(s.got) = i /\ s.got[i] = got /\ \A k \in 1..i - 1 : s.got[k] = r.got[k]
            BY <1>1, <1>2, <3>5, <3>8, <3>9
        <3>11. Begin(p)[i + 1] = r.at + size
            <4>1. Begin(p)[i + 1] = Begin(p)[i] + size
                BY BeginIs DEF size
            <4>2. r.at = Begin(p)[i]
                <5>1. (i - 1) + 1 = i
                    BY <1>1
                <5> QED BY <2>1, <3>4, <5>1 DEF ReadTo
            <4> QED BY <4>1, <4>2
        <3>12. \A k \in 1..i : s.got[k] = FieldValue(Fields(p.type)[k], Value(p, k))
            <4> SUFFICES ASSUME NEW k \in 1..i PROVE s.got[k] = FieldValue(Fields(p.type)[k], Value(p, k))
                OBVIOUS
            <4>1. CASE k = i
                BY <3>10, <4>1 DEF got
            <4>2. CASE k \in 1..i - 1
                BY <2>1, <3>4, <3>10, <4>2 DEF ReadTo
            <4> QED BY <1>1, <4>1, <4>2
        <3>13. ReadTo(p, s, i, i)
            BY <1>1, <3>8, <3>10, <3>11, <3>12 DEF ReadTo
        <3> QED BY <1>1, <3>1, <3>3, <3>8, <3>13 DEF Sound
    <2> QED BY <2>2, <2>3, <2>4
<1> QED BY <1>2, <1>3, <1>4

\* What the reader has after the last field
LEMMA ParseIsSound ==
    ASSUME NEW p, Datagram(p), p.length \in Nat
    PROVE  Sound(p, ParsePacket(p), Len(Fields(p.type)))
<1> DEFINE n == Len(Fields(p.type))
           reader[i \in 0..n] == IF i = 0 THEN Unread ELSE Read(p, reader[i - 1], i)
           Bad == {i \in 0..n : ~Sound(p, reader[i], i)}
<1>1. ParsePacket(p) = reader[n]
    BY DEF ParsePacket
<1>2. n \in Nat
    BY FieldsOfType DEF Datagram
<1>3. reader = [i \in 0..n |-> IF i = 0 THEN Unread ELSE Read(p, reader[i - 1], i)]
    <2> HIDE DEF n
    <2>2. PICK f : IsReading(f, n, p)
        BY <1>2, ReadingExists
    <2>1. f = [i \in 0..n |-> IF i = 0 THEN Unread ELSE Read(p, f[i - 1], i)]
        BY <2>2 DEF IsReading
    <2> QED BY <2>1
<1> HIDE DEF reader
<1>4. Bad = {}
    <2> SUFFICES ASSUME Bad # {} PROVE FALSE
        OBVIOUS
    <2>1. PICK m \in Bad : \A k \in Bad : m <= k
        <3>1. Bad \in SUBSET Nat
            OBVIOUS
        <3> HIDE DEF Bad
        <3> QED BY <3>1, LeastNumber
    <2>2. m # 0
        <3>1. reader[0] = Unread
            BY <1>2, <1>3
        <3>2. Unread \in Readers /\ Unread.at = 0 /\ Unread.got = <<>> /\ ~Unread.bad
            BY DEF Unread, Readers
        <3>3. Begin(p)[0 + 1] = 0
            BY BeginIs
        <3>4. ReadTo(p, Unread, 0, 0)
            BY <3>2, <3>3 DEF ReadTo
        <3>5. Sound(p, Unread, 0)
            BY <3>2, <3>4 DEF Sound
        <3> QED BY <3>1, <3>5
    <2>3. m \in 1..n /\ m - 1 \in 0..n /\ m - 1 < m
        BY <1>2, <2>2
    <2>4. m - 1 \notin Bad
        <3> HIDE DEF Bad
        <3> QED BY <2>1, <2>3
    <2>5. Sound(p, reader[m - 1], m - 1)
        BY <2>3, <2>4
    <2>6. reader[m] = Read(p, reader[m - 1], m)
        BY <1>3, <2>2, <2>3
    <2>7. Sound(p, reader[m], m)
        BY <2>3, <2>5, <2>6, ReadNext
    <2> QED BY <2>7
<1>5. n \in 0..n
    BY <1>2
<1> HIDE DEF n
<1> QED BY <1>1, <1>4, <1>5 DEF n

\* What is written by an encoder, and comes whole, is read: its first w fields are there.
LEMMA WrittenIsTaken ==
    ASSUME NEW p, Datagram(p), p.odd = 0, NEW w \in 0..Len(Fields(p.type)),
           p.length = Begin(p)[w + 1],
           \A i \in w + 1..Len(Fields(p.type)) : ~Fields(p.type)[i].required
    PROVE  ~ParsePacket(p).bad /\ ParsePacket(p).at = p.length
<1> DEFINE n == Len(Fields(p.type))
           reader[i \in 0..n] == IF i = 0 THEN Unread ELSE Read(p, reader[i - 1], i)
           Whole(i) == /\ reader[i].bad = FALSE /\ reader[i].at = Begin(p)[IF i <= w THEN i + 1 ELSE w + 1]
                       /\ reader[i] \in [at : Nat, got : Seq(Got), bad : BOOLEAN]
           Bad == {i \in 0..n : ~Whole(i)}
<1>1. ParsePacket(p) = reader[n]
    BY DEF ParsePacket
<1>2. n \in Nat
    BY FieldsOfType DEF Datagram
<1>3. reader = [i \in 0..n |-> IF i = 0 THEN Unread ELSE Read(p, reader[i - 1], i)]
    <2> HIDE DEF n
    <2>2. PICK f : IsReading(f, n, p)
        BY <1>2, ReadingExists
    <2>1. f = [i \in 0..n |-> IF i = 0 THEN Unread ELSE Read(p, f[i - 1], i)]
        BY <2>2 DEF IsReading
    <2> QED BY <2>1
<1> HIDE DEF reader
<1>4. Bad = {}
    <2> SUFFICES ASSUME Bad # {} PROVE FALSE
        OBVIOUS
    <2>1. PICK m \in Bad : \A k \in Bad : m <= k
        <3>1. Bad \in SUBSET Nat
            OBVIOUS
        <3> HIDE DEF Bad
        <3> QED BY <3>1, LeastNumber
    <2>2. m # 0
        <3>1. reader[0] = Unread
            BY <1>2, <1>3
        <3>2. Unread.at = 0 /\ Unread.bad = FALSE /\ Unread \in [at : Nat, got : Seq(Got), bad : BOOLEAN]
            BY DEF Unread
        <3>3. Begin(p)[0 + 1] = 0 /\ 0 <= w
            BY BeginIs
        <3>4. Whole(0)
            BY <3>1, <3>2, <3>3
        <3> QED BY <3>4
    <2>3. m \in 1..n /\ m - 1 \in 0..n /\ m - 1 < m /\ (m - 1) + 1 = m /\ m \in Nat
        BY <1>2, <2>2
    <2>4. m - 1 \notin Bad
        <3> HIDE DEF Bad
        <3> QED BY <2>1, <2>3
    <2>5. Whole(m - 1)
        BY <2>3, <2>4
    <2> DEFINE r == reader[m - 1]
               f == Fields(p.type)[m]
               size == Size(f.kind, "usual")
               left == p.length - r.at
               got == FieldValue(f, "usual")
    <2>6. reader[m] = Read(p, r, m) /\ Value(p, m) = "usual" /\ r.bad = FALSE
        BY <1>3, <2>2, <2>3, <2>5 DEF Value
    <2>7. ~Refused(f, "usual") /\ got = "usual" /\ size \in {1, 4, 5, 8} /\ "usual" \in Got
        BY <2>3, <2>6, ValueOfField DEF Refused, FieldValue, Got
    <2>8. /\ Begin(p)[m] \in Nat /\ Begin(p)[w + 1] \in Nat
          /\ m < w + 1 => Begin(p)[m] < Begin(p)[w + 1] /\ Begin(p)[m + 1] <= Begin(p)[w + 1]
          /\ Begin(p)[m + 1] = Begin(p)[m] + size
        <3>1. m \in 1..n + 1 /\ m + 1 \in 1..n + 1 /\ w + 1 \in 1..n + 1
            BY <1>2, <2>3
        <3>2. Begin(p)[m] \in Nat /\ Begin(p)[m + 1] \in Nat /\ Begin(p)[w + 1] \in Nat
            BY <3>1, BeginGrows
        <3>3. Begin(p)[m + 1] = Begin(p)[m] + size
            BY <2>3, <2>6, BeginIs
        <3>4. m < w + 1 => Begin(p)[m] < Begin(p)[w + 1]
            BY <3>1, BeginGrows
        <3>5. m + 1 < w + 1 => Begin(p)[m + 1] < Begin(p)[w + 1]
            BY <3>1, BeginGrows
        <3>6. m < w + 1 => m + 1 < w + 1 \/ m + 1 = w + 1
            BY <2>3
        <3> QED BY <3>2, <3>3, <3>4, <3>5, <3>6
    <2>9. r = [at |-> r.at, got |-> r.got, bad |-> r.bad] /\ r.got \in Seq(Got) /\ r.at \in Nat
        BY <2>5
    <2>10. CASE m <= w
        <3>1. r.at = Begin(p)[m]
            BY <2>3, <2>5, <2>10
        <3> HIDE DEF size
        <3>2. left # 0 /\ ~(left < size) /\ Begin(p)[m] + size \in Nat
            <4> DEFINE b == Begin(p)[m]
                       e == Begin(p)[w + 1]
            <4>1. m < w + 1
                BY <2>3, <2>10
            <4>2. b \in Nat /\ e \in Nat /\ b < e /\ b + size <= e /\ left = e - b
                BY <2>8, <3>1, <4>1
            <4> HIDE DEF b, e, left
            <4>3. size \in Nat
                BY <2>7
            <4>4. left # 0 /\ ~(left < size) /\ b + size \in Nat
                BY <4>2, <4>3
            <4> QED BY <4>4 DEF b
        <3>3. ~Missing(f, left) /\ ~Short(left, size)
            BY <3>2 DEF Missing, Short
        <3> HIDE DEF left, r
        <3>4. Read(p, r, m) = [r EXCEPT !.at = Begin(p)[m] + size, !.got = Append(@, got)]
            BY <2>6, <2>7, <3>1, <3>3 DEF Read, Taken, left, size
        <3>5. Append(r.got, got) \in Seq(Got)
            BY <2>7, <2>9 DEF r
        <3>6. Read(p, r, m) = [at |-> Begin(p)[m] + size, got |-> Append(r.got, got), bad |-> FALSE]
            BY <2>6, <2>9, <3>4 DEF r
        <3> HIDE DEF got
        <3>7. Whole(m)
            BY <2>6, <2>8, <2>10, <3>2, <3>5, <3>6
        <3> QED BY <3>7
    <2>11. CASE m > w
        <3>1. r.at = Begin(p)[w + 1]
            <4>1. (m - 1 <= w) => m - 1 = w
                BY <2>3, <2>11
            <4> QED BY <2>5, <4>1
        <3>2. left = 0
            BY <2>9, <3>1
        <3>3. ~f.required
            <4>1. m \in w + 1..n
                BY <2>3, <2>11
            <4> QED BY <4>1
        <3>4. Missing(f, left)
            BY <3>2, <3>3 DEF Missing
        <3> HIDE DEF left, r
        <3>5. Read(p, r, m) = [r EXCEPT !.got = Append(@, "missing")]
            BY <2>6, <3>4 DEF Read, left
        <3>6. Append(r.got, "missing") \in Seq(Got)
            <4>1. "missing" \in Got /\ r.got \in Seq(Got)
                BY <2>9 DEF r, Got
            <4> HIDE DEF Got
            <4> QED BY <4>1
        <3>7. Read(p, r, m) = [at |-> r.at, got |-> Append(r.got, "missing"), bad |-> FALSE]
            BY <2>6, <2>9, <3>5 DEF r
        <3>8. Whole(m)
            <4>1. ~(m <= w)
                BY <2>3, <2>11
            <4>2. r.at \in Nat /\ Read(p, r, m).at = r.at /\ Read(p, r, m).bad = FALSE
                BY <2>9, <3>7 DEF r
            <4> QED BY <2>6, <3>1, <3>6, <3>7, <4>1, <4>2
        <3> QED BY <3>8
    <2> QED BY <2>3, <2>10, <2>11
<1>5. Whole(n)
    BY <1>2, <1>4
<1>6. n <= w => n = w
    BY <1>2
<1> HIDE DEF n
<1> QED BY <1>1, <1>5, <1>6

-----------------------------------------------------------------------------
PacketsInv ==
    /\ Datagram(packet) /\ packet.length \in 0..End(packet)
    /\ packet.time \in 0..Day - 1 /\ packet.received \in Day..2 * Day - 1
    /\ \/ parsed = <<>>
       \/ LET r == ParsePacket(packet)
          IN parsed = <<[at |-> r.at, bad |-> r.bad, got |-> IF r.bad THEN <<>> ELSE r.got,
                         dated |-> Dated(packet.received, packet.time)]>>

LEMMA EndType ==
    ASSUME NEW p, Datagram(p)
    PROVE  End(p) \in Nat
<1>1. Len(Fields(p.type)) + 1 \in 1..Len(Fields(p.type)) + 1
    BY FieldsOfType DEF Datagram
<1> QED BY <1>1, BeginGrows DEF End

\* Where the fields begin depends on the type and on the odd value only.
LEMMA EndOfSame ==
    ASSUME NEW p, NEW q, q.type = p.type, q.odd = p.odd, q.value = p.value
    PROVE  End(q) = End(p)
<1>1. \A i : Value(q, i) = Value(p, i)
    BY DEF Value
<1>2. Begin(q) = Begin(p)
    BY <1>1 DEF Begin
<1> QED BY <1>2 DEF End

LEMMA PacketsStart ==
    ASSUME PacketsInit
    PROVE  PacketsInv
<1> DEFINE P(t, i, v) ==
               [type |-> t, odd |-> i, value |-> v, length |-> 0, time |-> 0, received |-> Day]
           Usual(t, i, v) ==
               \/ \E n \in 0..End(P(t, i, v)) : packet = [P(t, i, v) EXCEPT !.length = n]
               \/ /\ t = "decode" /\ i = 0
                  /\ \E time \in 0..Day - 1, received \in Day..2 * Day - 1 :
                        packet = [P(t, i, v) EXCEPT !.length = End(P(t, i, v)), !.time = time,
                                                    !.received = received]
<1>0. \E t \in Types : \E i \in 0..Len(Fields(t)) :
         \E v \in IF i = 0 THEN {"usual"} ELSE Odd(Fields(t)[i].kind) : Usual(t, i, v)
    BY DEF PacketsInit
<1> HIDE DEF Usual
<1>1. PICK t, i, v :
         /\ t \in Types /\ i \in 0..Len(Fields(t))
         /\ v \in IF i = 0 THEN {"usual"} ELSE Odd(Fields(t)[i].kind)
         /\ Usual(t, i, v)
    BY <1>0
<1> DEFINE p == P(t, i, v)
<1>2. PICK n \in 0..End(p), time \in 0..Day - 1, received \in Day..2 * Day - 1 :
        packet = [type |-> t, odd |-> i, value |-> v, length |-> n, time |-> time, received |-> received]
    <2>1. Datagram(p)
        BY <1>1 DEF Datagram
    <2>2. End(p) \in Nat /\ Day \in Nat /\ Day # 0
        <3> HIDE DEF p
        <3> QED BY <2>1, EndType, PacketsAssumption
    <2>3. 0 \in 0..Day - 1 /\ Day \in Day..2 * Day - 1
        BY <2>2
    <2>4. End(p) \in 0..End(p)
        BY <2>2
    <2> DEFINE e == End(p)
    <2>5. CASE \E n \in 0..e : packet = [p EXCEPT !.length = n]
        <3> HIDE DEF e
        <3>1. PICK n \in 0..e : packet = [p EXCEPT !.length = n]
            BY <2>5
        <3>2. packet = [type |-> t, odd |-> i, value |-> v, length |-> n, time |-> 0, received |-> Day]
            BY <3>1
        <3> QED BY <2>3, <3>2 DEF e
    <2>6. CASE \E time \in 0..Day - 1, received \in Day..2 * Day - 1 :
                   packet = [p EXCEPT !.length = e, !.time = time, !.received = received]
        <3> HIDE DEF e
        <3>1. PICK time \in 0..Day - 1, received \in Day..2 * Day - 1 :
                 packet = [p EXCEPT !.length = e, !.time = time, !.received = received]
            BY <2>6
        <3>2. packet = [type |-> t, odd |-> i, value |-> v, length |-> e, time |-> time, received |-> received]
            BY <3>1
        <3> QED BY <2>4, <3>2 DEF e
    <2> QED BY <1>1, <2>5, <2>6 DEF Usual
<1>3. End(packet) = End(p)
    BY <1>2, EndOfSame
<1>4. Datagram(packet)
    BY <1>1, <1>2 DEF Datagram
<1>5. /\ packet.length \in 0..End(packet)
      /\ packet.time \in 0..Day - 1 /\ packet.received \in Day..2 * Day - 1
    <2> HIDE DEF p
    <2> QED BY <1>2, <1>3
<1>6. parsed = <<>>
    BY DEF PacketsInit
<1> QED BY <1>4, <1>5, <1>6 DEF PacketsInv

LEMMA PacketsStep ==
    ASSUME PacketsInv, [PacketsNext]_packetVars
    PROVE  PacketsInv'
<1>1. packet' = packet
    BY DEF PacketsNext, Parse, packetVars
<1>2. parsed' = parsed \/
        LET r == ParsePacket(packet)
        IN parsed' = <<[at |-> r.at, bad |-> r.bad, got |-> IF r.bad THEN <<>> ELSE r.got,
                        dated |-> Dated(packet.received, packet.time)]>>
    BY DEF PacketsNext, Parse, packetVars
<1> QED BY <1>1, <1>2 DEF PacketsInv

\* What an accepted datagram is: its first m fields, which are there whole, are all
\* that came.
LEMMA AcceptedIs ==
    ASSUME PacketsInv, Accepted
    PROVE  LET n == Len(Fields(packet.type))
           IN /\ parsed[1].got \in Seq(Got) /\ Len(parsed[1].got) = n
              /\ parsed[1].at \in 0..packet.length
              /\ \E m \in 4..n :
                    /\ packet.length = Begin(packet)[m + 1]
                    /\ \A k \in m + 1..n : ~Fields(packet.type)[k].required
                    /\ \A k \in 1..m : parsed[1].got[k] =
                          FieldValue(Fields(packet.type)[k], Value(packet, k))
                    /\ \A k \in m + 1..n : parsed[1].got[k] = "missing"
<1> DEFINE n == Len(Fields(packet.type))
           r == ParsePacket(packet)
<1>1. Datagram(packet) /\ packet.length \in Nat /\ packet.length <= End(packet) /\ End(packet) \in Nat
    <2>1. Datagram(packet) /\ packet.length \in 0..End(packet)
        BY DEF PacketsInv
    <2> QED BY <2>1, EndType
<1>2. parsed # <<>> /\ parsed[1].at = r.at /\ ~r.bad /\ parsed[1].got = r.got
    BY DEF PacketsInv, Accepted, Done
<1>3. Sound(packet, r, n)
    BY <1>1, ParseIsSound
<1> HIDE DEF r
<1>4. PICK m \in 0..n : ReadTo(packet, r, n, m)
    BY <1>2, <1>3 DEF Sound
<1>5. r \in Readers /\ r.at <= packet.length /\ r.at \in Nat /\ r.got \in Seq(Got)
    BY <1>3 DEF Sound, Readers
<1>6. /\ n \in Nat /\ n >= 4 /\ \A k \in 1..4 : Fields(packet.type)[k].required
    BY <1>1, FieldsOfType DEF Datagram
<1>7. m >= 4
    <2> SUFFICES ASSUME ~(m >= 4) PROVE FALSE
        OBVIOUS
    <2>1. m + 1 \in 1..4 /\ m + 1 \in m + 1..n
        BY <1>6
    <2> QED BY <1>4, <1>6, <2>1 DEF ReadTo
<1>8. packet.length = Begin(packet)[m + 1]
    <2>1. r.at = Begin(packet)[m + 1] /\ (m < n => r.at = packet.length)
        BY <1>4 DEF ReadTo
    <2>2. CASE m < n
        BY <2>1, <2>2
    <2>3. CASE m = n
        <3>1. Begin(packet)[n + 1] = End(packet)
            BY DEF End
        <3> QED BY <1>1, <1>5, <2>1, <2>3, <3>1
    <2> HIDE DEF n
    <2> QED BY <1>6, <2>2, <2>3
<1>9. /\ \A k \in m + 1..n : ~Fields(packet.type)[k].required
      /\ Len(r.got) = n
      /\ \A k \in 1..m : r.got[k] = FieldValue(Fields(packet.type)[k], Value(packet, k))
      /\ \A k \in m + 1..n : r.got[k] = "missing"
    BY <1>4 DEF ReadTo
<1>10. m \in 4..n
    <2> HIDE DEF n
    <2> QED BY <1>6, <1>7
<1> HIDE DEF n
<1> QED BY <1>1, <1>2, <1>5, <1>8, <1>9, <1>10 DEF n

LEMMA CutHolds ==
    ASSUME PacketsInv
    PROVE  CutIsRefused
BY AcceptedIs DEF CutIsRefused

LEMMA ShiftHolds ==
    ASSUME PacketsInv
    PROVE  NothingShifted
<1> SUFFICES ASSUME Accepted, NEW i \in 1..Len(parsed[1].got)
             PROVE  LET sent == Value(packet, i) IN
                    parsed[1].got[i] =
                      IF Begin(packet)[i] >= packet.length \/ (Fields(packet.type)[i].kind = "u64" /\ sent = "zero")
                      THEN "missing" ELSE sent
    BY DEF NothingShifted
<1> DEFINE n == Len(Fields(packet.type))
           f == Fields(packet.type)[i]
           sent == Value(packet, i)
<1>1. Datagram(packet) /\ n \in Nat
    BY FieldsOfType DEF PacketsInv, Datagram
<1>2. /\ Len(parsed[1].got) = n
      /\ \E m \in 4..n :
            /\ packet.length = Begin(packet)[m + 1]
            /\ \A k \in 1..m : parsed[1].got[k] = FieldValue(Fields(packet.type)[k], Value(packet, k))
            /\ \A k \in m + 1..n : parsed[1].got[k] = "missing"
    BY AcceptedIs
<1>3. PICK m \in 4..n :
          /\ packet.length = Begin(packet)[m + 1]
          /\ \A k \in 1..m : parsed[1].got[k] = FieldValue(Fields(packet.type)[k], Value(packet, k))
          /\ \A k \in m + 1..n : parsed[1].got[k] = "missing"
    BY <1>2
<1>4. i \in 1..n
    BY <1>2
<1>5. f \in Field /\ (sent = "zero" => f.kind = "u64")
    BY <1>1, <1>4, ValueOfField
<1>6. /\ Begin(packet)[i] \in Nat /\ Begin(packet)[m + 1] \in Nat
      /\ i < m + 1 => Begin(packet)[i] < Begin(packet)[m + 1]
      /\ m + 1 < i => Begin(packet)[m + 1] < Begin(packet)[i]
    <2>1. i \in 1..n + 1 /\ m + 1 \in 1..n + 1
        <3> HIDE DEF n
        <3> QED BY <1>1, <1>4
    <2> QED BY <1>1, <2>1, BeginGrows
<1>7. CASE i <= m
    <2>1. i \in 1..m /\ i < m + 1
        <3> HIDE DEF n
        <3> QED BY <1>1, <1>4, <1>7
    <2>2. ~(Begin(packet)[i] >= packet.length)
        BY <1>3, <1>6, <2>1
    <2>3. parsed[1].got[i] = FieldValue(f, sent)
        BY <1>3, <2>1
    <2>4. f.kind = "u64" <=> f.name = "dial_frequency_hz"
        BY <1>5 DEF Field
    <2> HIDE DEF f, sent
    <2>5. FieldValue(f, sent) = IF f.kind = "u64" /\ sent = "zero" THEN "missing" ELSE sent
        BY <2>4 DEF FieldValue
    <2> QED BY <2>2, <2>3, <2>5 DEF f, sent
<1>8. CASE i > m
    <2>1. i \in m + 1..n /\ (i = m + 1 \/ m + 1 < i)
        <3> HIDE DEF n
        <3> QED BY <1>1, <1>4, <1>8
    <2>2. Begin(packet)[i] >= packet.length
        BY <1>3, <1>6, <2>1
    <2> QED BY <1>3, <2>1, <2>2
<1>9. i <= m \/ i > m
    <2> HIDE DEF n
    <2> QED BY <1>1, <1>4
<1> QED BY <1>7, <1>8, <1>9

LEMMA WrittenHolds ==
    ASSUME PacketsInv
    PROVE  WrittenIsRead
<1> SUFFICES ASSUME Done, packet.odd = 0, packet.type \in DOMAIN Written,
                    packet.length = Begin(packet)[Written[packet.type] + 5]
             PROVE  ~parsed[1].bad /\ parsed[1].at = packet.length
    BY DEF WrittenIsRead
<1> DEFINE w == Written[packet.type] + 4
<1>1. Datagram(packet)
    BY DEF PacketsInv
<1>2. /\ Written[packet.type] \in Nat /\ w <= Len(Fields(packet.type)) /\ Len(Fields(packet.type)) \in Nat
      /\ \A i \in Written[packet.type] + 5..Len(Fields(packet.type)) : ~Fields(packet.type)[i].required
    BY <1>1, FieldsOfType DEF Datagram
<1>3. w + 1 = Written[packet.type] + 5 /\ w \in 0..Len(Fields(packet.type))
    BY <1>2
<1> HIDE DEF w
<1>4. ~ParsePacket(packet).bad /\ ParsePacket(packet).at = packet.length
    BY <1>1, <1>2, <1>3, WrittenIsTaken
<1> QED BY <1>4 DEF PacketsInv, Done

LEMMA NearestHolds ==
    ASSUME PacketsInv
    PROVE  NearestDay
<1> SUFFICES ASSUME Accepted
             PROVE  /\ parsed[1].dated % Day = packet.time
                    /\ 2 * (parsed[1].dated - packet.received) \in -Day..Day
    BY DEF NearestDay
<1> DEFINE d == Dated(packet.received, packet.time)
<1>1. parsed[1].dated = d
    BY DEF PacketsInv, Accepted, Done
<1>2. PICK time \in 0..Day - 1, received \in Day..2 * Day - 1 :
          time = packet.time /\ received = packet.received
    BY DEF PacketsInv
<1>3. Day \in Nat \ {0} /\ Day % 2 = 0
    BY PacketsAssumption
<1>4. received \div Day = 1
    BY <1>2, <1>3
<1>5. Day \div 2 \in Nat /\ 2 * (Day \div 2) = Day
    BY <1>3
<1> DEFINE half == Day \div 2
           today == Day + time
<1>6. (received \div Day) * Day + time = today
    <2> DEFINE q == received \div Day
    <2>1. q = 1
        BY <1>4
    <2> HIDE DEF q
    <2>2. q * Day = Day
        BY <1>3, <2>1
    <2> QED BY <2>2 DEF q
<1>7. d = IF today - received > half THEN today - Day
          ELSE IF today - received < -half THEN today + Day ELSE today
    BY <1>2, <1>6 DEF Dated
<1>8. time % Day = time /\ (Day + time) % Day = time /\ (2 * Day + time) % Day = time
    BY <1>2, <1>3
<1> HIDE DEF d, half
<1>9. d \in {time, Day + time, 2 * Day + time}
    BY <1>2, <1>3, <1>7
<1>10. d % Day = time
    BY <1>8, <1>9
<1>11. 2 * (d - received) \in -Day..Day
    BY <1>2, <1>3, <1>5, <1>7 DEF half
<1> QED BY <1>1, <1>2, <1>10, <1>11

LEMMA PacketTypesHold ==
    ASSUME PacketsInv
    PROVE  PacketsTypeOK
<1>1. packet.length \in 0..End(packet)
    BY DEF PacketsInv
<1>2. Done => parsed[1].at \in 0..packet.length
    <2> SUFFICES ASSUME Done PROVE parsed[1].at \in 0..packet.length
        OBVIOUS
    <2>1. Datagram(packet) /\ packet.length \in Nat
        BY EndType DEF PacketsInv
    <2>2. Sound(packet, ParsePacket(packet), Len(Fields(packet.type)))
        BY <2>1, ParseIsSound
    <2>3. parsed[1].at = ParsePacket(packet).at
        BY DEF PacketsInv, Done
    <2> QED BY <2>1, <2>2, <2>3 DEF Sound, Readers
<1> QED BY <1>1, <1>2, AcceptedIs DEF PacketsTypeOK

LEMMA PacketsHold == PacketsInv => PacketsTypeOK /\ ReadAsSent
BY PacketTypesHold, CutHolds, ShiftHolds, WrittenHolds, NearestHolds DEF ReadAsSent

\* parse_packet reads a datagram as what was sent or refuses it, for any length of the
\* day: no cut moves a value into another field, whatever the encoders write is read, and
\* midnight changes no date (_opt_utf8, _required_utf8, _qtime_to_datetime).
THEOREM PacketsReadAsSent == PacketsSpec => [](PacketsTypeOK /\ ReadAsSent)
<1>1. PacketsInit => PacketsInv
    BY PacketsStart
<1>2. PacketsInv /\ [PacketsNext]_packetVars => PacketsInv'
    BY PacketsStep
<1> QED BY <1>1, <1>2, PacketsHold, PTL DEF PacketsSpec

-----------------------------------------------------------------------------
(***************************************************************************)
(* All of it, for the specification that the run checks.                   *)
(***************************************************************************)

\* What is read of a message fits the columns it is for.
LEMMA MessageTypesHold ==
    ASSUME MessagesInv
    PROVE  MessagesTypeOK
<1> SUFFICES ASSUME reading # <<>>
             PROVE  /\ reading[1].tx \in Callsigns \cup {None}
                    /\ reading[1].rx \in Callsigns \cup {None}
                    /\ reading[1].grid \in Locators \cup {None}
    BY DEF MessagesTypeOK
<1>1. reading[1] = ParseMessage(message)
    BY DEF MessagesInv
<1>2. ASSUME NEW token PROVE CallOrNone(token) \in Callsigns \cup {None}
    BY DEF CallOrNone
<1>3. /\ ParseCq(message).tx \in Callsigns \cup {None}
      /\ ParseCq(message).rx \in Callsigns \cup {None}
      /\ ParseCq(message).grid \in Locators \cup {None}
    BY <1>2 DEF ParseCq, Parsed, GridLike
<1>4. ASSUME NEW rest PROVE ExchangeGrid(rest) \in Locators \cup {None}
    BY DEF ExchangeGrid, GridLike
<1>5. /\ ParseExchange(message).tx \in Callsigns \cup {None}
      /\ ParseExchange(message).rx \in Callsigns \cup {None}
      /\ ParseExchange(message).grid \in Locators \cup {None}
    BY <1>2, <1>4 DEF ParseExchange, Parsed
<1>6. /\ ParseFree(message).tx \in Callsigns \cup {None}
      /\ ParseFree(message).rx \in Callsigns \cup {None}
      /\ ParseFree(message).grid \in Locators \cup {None}
    BY <1>2 DEF ParseFree, Parsed
<1> QED BY <1>1, <1>3, <1>5, <1>6 DEF ParseMessage, Parsed

\* What the tables of the stations hold is of their types.
LEMMA StationTypesHold ==
    ASSUME StationsInv
    PROVE  StationsTypeOK
<1>1. log \in Seq(LogEntry) /\ cache \in [Calls -> Summary] /\ stations \in [Bases -> Summary]
    BY DEF StationsInv, Consistent
<1>2. ASSUME NEW i \in 1..Len(log)
      PROVE  /\ [call |-> log[i].call, at |-> log[i].at, grid |-> log[i].sent] \in Raw
             /\ log[i].grid \in Grids \cup {NoGrid}
             /\ log[i].session \in 1..opened /\ log[i].stored \in BOOLEAN
    <2>1. log[i] \in LogEntry
        BY <1>1
    <2> QED BY <2>1 DEF LogEntry, StationsInv, Consistent
<1> QED BY <1>1, <1>2 DEF StationsInv, StationsTypeOK

\* A behaviour of another part has no callsign to look up, and no report to make.
IngestInv ==
    /\ DedupeInv /\ SendersInv /\ StationsInv /\ PacketsInv /\ MessagesInv
    /\ PagesInv /\ ReportInv
    /\ IF part = "country" THEN CountryInv ELSE match = <<>>

\* The datagram that stays unread in the behaviours of the other parts is one of those
\* of Packets, and the message one without tokens.
LEMMA IngestStart == Init => IngestInv
<1> SUFFICES ASSUME Init PROVE IngestInv
    OBVIOUS
<1>1. DedupeInv /\ SendersInv /\ StationsInv /\ PagesInv /\ ReportInv
    BY DedupeStarts, SendersStarts, StationsStarts, PagesStart, ReportStart DEF Init
<1>2. PacketsInv
    <2>1. CASE part = "packets"
        BY <2>1, PacketsStart DEF Init
    <2>2. CASE part # "packets"
        <3>1. /\ packet = [type |-> "unknown", odd |-> 0, value |-> "usual", length |-> 0,
                           time |-> 0, received |-> Day]
              /\ parsed = <<>>
            BY <2>2 DEF Init
        <3>2. Datagram(packet)
            BY <3>1, TypesAre, FieldsOfType DEF Datagram, Types
        <3>3. End(packet) \in Nat
            BY <3>2, EndType
        <3>4. Day \in Nat /\ Day > 0
            BY PacketsAssumption
        <3> QED BY <3>1, <3>2, <3>3, <3>4 DEF PacketsInv
    <2> QED BY <2>1, <2>2
<1>3. MessagesInv
    <2>1. CASE part = "messages"
        BY <2>1, MessagesStart DEF Init
    <2>2. CASE part # "messages"
        BY <2>2 DEF Init, MessagesInv
    <2> QED BY <2>1, <2>2
<1>4. IF part = "country" THEN CountryInv ELSE match = <<>>
    BY CountryStarts DEF Init
<1> QED BY <1>1, <1>2, <1>3, <1>4 DEF IngestInv

LEMMA IngestStep == IngestInv /\ [Next]_vars => IngestInv'
<1> SUFFICES ASSUME IngestInv, [Next]_vars PROVE IngestInv'
    OBVIOUS
<1>1. /\ [DedupeNext]_dedupeVars /\ [SendersNext]_sendersVars /\ [StationsNext]_stationVars
      /\ [PacketsNext]_packetVars /\ [MessagesNext]_messageVars
      /\ [PagesNext]_pageVars /\ [ReportNext]_reportVars
      /\ part' = part
      /\ part = "country" => [CountryNext]_countryVars
      /\ part # "country" => UNCHANGED countryVars
    <2>1. CASE Next
        BY <2>1 DEF Next, TextsNext, StoringNext, ReportsNext, storing, texts, reports
    <2>2. CASE UNCHANGED vars
        BY <2>2 DEF vars, storing, texts, reports
    <2> QED BY <2>1, <2>2
<1>2. /\ DedupeInv' /\ SendersInv' /\ StationsInv' /\ PacketsInv' /\ MessagesInv'
      /\ PagesInv' /\ ReportInv'
    BY <1>1, DedupeStep, SendersStep, StationsStep, PacketsStep, MessagesStep, PagesStep,
       ReportStep DEF IngestInv
<1>3. CASE part = "country"
    BY <1>1, <1>2, <1>3, CountryStep DEF IngestInv
<1>4. CASE part # "country"
    BY <1>1, <1>2, <1>4 DEF IngestInv, countryVars
<1> QED BY <1>3, <1>4

\* A datagram on its way to a row, and rows on theirs to the reader: every part has its
\* types, what is read fits the fields it is for, and every invariant of the run holds in
\* every state of its own specification; a dial frequency is that of its receiver in every
\* step.
THEOREM IngestHolds ==
    Spec => /\ [](/\ IngestTypeOK /\ ReadAsSent /\ SaidByTransmitter /\ CountryOfOperation
                  /\ OneRowInWindow /\ SuppressedForRow /\ SendersConsistent
                  /\ SummariesHold /\ GridWasSent /\ ReportOfItsRows /\ PagesMissOnlyLate)
            /\ DialFromItsReceiver
<1>1. ASSUME IngestInv
      PROVE  /\ IngestTypeOK /\ ReadAsSent /\ SaidByTransmitter /\ CountryOfOperation
             /\ OneRowInWindow /\ SuppressedForRow /\ SendersConsistent
             /\ SummariesHold /\ GridWasSent /\ ReportOfItsRows /\ PagesMissOnlyLate
    <2>1. CountryTypeOK /\ CountryOfOperation
        <3>1. CASE part = "country"
            BY <1>1, <3>1, CountryHolds DEF IngestInv
        <3>2. CASE part # "country"
            BY <1>1, <3>2 DEF IngestInv, CountryTypeOK, CountryOfOperation, EitherSide,
                              MostSpecific, PrefixDecides
        <3> QED BY <3>1, <3>2
    <2>2. PacketsTypeOK /\ ReadAsSent
        BY <1>1, PacketsHold DEF IngestInv
    <2>3. MessagesTypeOK /\ SaidByTransmitter
        BY <1>1, MessageTypesHold, MessagesHold DEF IngestInv
    <2>4. StationsTypeOK /\ SummariesHold /\ GridWasSent
        BY <1>1, StationTypesHold, StationsHold DEF IngestInv
    <2>5. /\ DedupeTypeOK /\ OneRowInWindow /\ SuppressedForRow
          /\ SendersTypeOK /\ SendersConsistent
        BY <1>1 DEF IngestInv, DedupeInv, SendersInv
    <2>6. PagesTypeOK /\ PagesMissOnlyLate
        BY <1>1 DEF IngestInv, PagesInv
    <2>7. ReportTypeOK /\ ReportOfItsRows
        BY <1>1, ReportHolds DEF IngestInv
    <2> QED BY <2>1, <2>2, <2>3, <2>4, <2>5, <2>6, <2>7 DEF IngestTypeOK
<1>2. Init => SendersInit
    BY DEF Init
<1>3. [Next]_vars => [SendersNext]_sendersVars
    BY DEF Next, TextsNext, StoringNext, ReportsNext, vars, storing, texts, reports
<1>4. Spec => SendersSpec
    BY <1>2, <1>3, PTL DEF Spec, SendersSpec
<1> QED BY IngestStart, IngestStep, <1>1, <1>4, DialsAreTheReceivers, PTL DEF Spec
=============================================================================
