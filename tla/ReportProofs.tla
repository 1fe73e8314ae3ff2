---------------------------- MODULE ReportProofs ----------------------------
(***************************************************************************)
(* Proofs about what is read of the stored rows: the pages of observations *)
(* (ObservationPages) and the hour report (HourReport), for any table, any *)
(* limit, any window, width and zone.                                      *)
(***************************************************************************)
EXTENDS ObservationPages, HourReport, DataLemmas

-----------------------------------------------------------------------------
(***************************************************************************)
(* ObservationPages, for any tables and limits.                            *)
(***************************************************************************)
AllRows == 1..Len(table)

\* What the reader has counted fits the table: a row that came since the count is late.
CountFits ==
    /\ pages = "rows" => Len(table) = total + late
    /\ pages = "start" => offset = 0
    /\ pages = "count" => offset <= Len(table)

PagesInv == PagesTypeOK /\ CountFits /\ PagesMissOnlyLate

LEMMA PagesTypes ==
    ASSUME PagesTypeOK
    PROVE  /\ table \in Seq(PageTimes) /\ Len(table) \in Nat /\ Limit \in Nat \ {0}
           /\ \A i \in AllRows : table[i] \in Nat
           /\ IsFiniteSet(AllRows) /\ Cardinality(AllRows) = Len(table)
           /\ offset \in 0..Len(table) /\ total \in 0..Len(table) /\ late \in 0..Len(table)
           /\ before \subseteq AllRows /\ collected \subseteq AllRows
<1>1. table \in Seq(PageTimes) /\ Len(table) \in Nat
    BY DEF PagesTypeOK
<1>2. \A i \in AllRows : table[i] \in PageTimes
    BY <1>1, ElementOfSeq DEF AllRows
<1>3. IsFiniteSet(AllRows) /\ Cardinality(AllRows) = Len(table)
    <2> DEFINE n == Len(table)
    <2>1. n \in Nat
        BY <1>1
    <2> HIDE DEF n
    <2>2. IsFiniteSet(1..n) /\ Cardinality(1..n) = IF 1 <= n THEN n - 1 + 1 ELSE 0
        BY <2>1, FS_Interval
    <2>3. Cardinality(1..n) = n
        BY <2>1, <2>2
    <2> QED BY <2>2, <2>3 DEF AllRows, n
<1>4. Limit \in Nat \ {0} /\ PageTimes \subseteq Nat
    BY PagesAssumption
<1>5. /\ offset \in 0..Len(table) /\ total \in 0..Len(table) /\ late \in 0..Len(table)
      /\ before \subseteq AllRows /\ collected \subseteq AllRows
    BY DEF PagesTypeOK, AllRows
<1>6. \A i \in AllRows : table[i] \in Nat
    BY <1>2, <1>4
<1> QED BY <1>1, <1>3, <1>4, <1>5, <1>6

-----------------------------------------------------------------------------
\* The order of the query is total, so that rows have places of their own, 0 to the
\* number of rows less one.
LEMMA PlaceType ==
    ASSUME PagesTypeOK, NEW i \in AllRows
    PROVE  Place(i) \in Nat /\ Place(i) < Len(table)
<1> DEFINE S == {j \in AllRows : Later(j, i)}
<1>1. i \notin S
    <2>1. table[i] \in Nat /\ i \in Nat
        BY PagesTypes DEF AllRows
    <2> QED BY <2>1 DEF Later
<1>2. S \in SUBSET (AllRows \ {i})
    BY <1>1
<1>3. IsFiniteSet(AllRows \ {i}) /\ Cardinality(AllRows \ {i}) = Len(table) - 1
    BY PagesTypes, FS_RemoveElement
<1>4. IsFiniteSet(S) /\ Cardinality(S) <= Len(table) - 1
    <2> HIDE DEF S
    <2> QED BY <1>2, <1>3, FS_Subset
<1>5. Cardinality(S) \in Nat
    <2> HIDE DEF S
    <2> QED BY <1>4, FS_CardinalityType
<1>6. Place(i) = Cardinality(S)
    BY DEF Place, AllRows
<1> HIDE DEF S
<1> QED BY <1>4, <1>5, <1>6, PagesTypes

LEMMA PlaceOfLater ==
    ASSUME PagesTypeOK, NEW i \in AllRows, NEW j \in AllRows, Later(j, i)
    PROVE  Place(j) < Place(i)
<1> DEFINE S == {k \in AllRows : Later(k, j)}
           T == {k \in AllRows : Later(k, i)}
<1>1. S \subseteq T
    BY PagesTypes DEF Later, AllRows
<1>2. j \in T /\ j \notin S
    <2>1. table[j] \in Nat /\ j \in Nat
        BY PagesTypes DEF AllRows
    <2> QED BY <2>1 DEF Later
<1>3. IsFiniteSet(T) /\ IsFiniteSet(S)
    <2>1. T \in SUBSET AllRows /\ S \in SUBSET AllRows
        OBVIOUS
    <2> HIDE DEF S, T
    <2> QED BY <2>1, PagesTypes, FS_Subset
<1>4. Cardinality(S) <= Cardinality(T) /\ Cardinality(S) # Cardinality(T)
    <2> HIDE DEF S, T
    <2> QED BY <1>1, <1>2, <1>3, FS_Subset
<1>5. Cardinality(S) \in Nat /\ Cardinality(T) \in Nat
    <2> HIDE DEF S, T
    <2> QED BY <1>3, FS_CardinalityType
<1>6. Place(j) = Cardinality(S) /\ Place(i) = Cardinality(T)
    BY DEF Place, AllRows
<1> HIDE DEF S, T
<1> QED BY <1>4, <1>5, <1>6

LEMMA PlacesDiffer ==
    ASSUME PagesTypeOK, NEW i \in AllRows, NEW j \in AllRows, i # j
    PROVE  Place(i) # Place(j)
<1>1. Later(i, j) \/ Later(j, i)
    BY PagesTypes DEF Later, AllRows
<1> QED BY <1>1, PlaceOfLater, PlaceType

\* Rows between two places are no more than the places.
LEMMA RowsBetween ==
    ASSUME PagesTypeOK, NEW a \in Nat, NEW b \in Nat, a <= b, NEW R \in SUBSET AllRows,
           \A i \in R : a <= Place(i) /\ Place(i) < b
    PROVE  IsFiniteSet(R) /\ Cardinality(R) \in Nat /\ Cardinality(R) <= b - a
<1> DEFINE f == [i \in R |-> Place(i)]
<1>1. IsFiniteSet(R)
    BY PagesTypes, FS_Subset
<1>2. f \in Injection(R, a..(b - 1))
    <2>1. f \in [R -> a..(b - 1)]
        BY PlaceType
    <2>2. \A i, j \in R : f[i] = f[j] => i = j
        BY PlacesDiffer
    <2> HIDE DEF f
    <2> QED BY <2>1, <2>2 DEF Injection, IsInjective
<1>3. IsFiniteSet(a..(b - 1)) /\ Cardinality(a..(b - 1)) = b - a
    BY IntervalSize
<1>4. Cardinality(R) <= Cardinality(a..(b - 1))
    <2> HIDE DEF f
    <2> QED BY <1>2, <1>3, FS_Injection
<1> QED BY <1>1, <1>3, <1>4, FS_CardinalityType

\* Every place has its row.
LEMMA PlaceTaken ==
    ASSUME PagesTypeOK, NEW a \in 0..(Len(table) - 1)
    PROVE  \E i \in AllRows : Place(i) = a
<1> DEFINE f == [i \in AllRows |-> Place(i)]
           T == 0..(Len(table) - 1)
<1>1. Len(table) \in Nat /\ IsFiniteSet(AllRows) /\ Cardinality(AllRows) = Len(table)
    BY PagesTypes
<1>2. f \in Injection(AllRows, T)
    <2>1. f \in [AllRows -> T]
        BY <1>1, PlaceType
    <2>2. \A i, j \in AllRows : f[i] = f[j] => i = j
        BY PlacesDiffer
    <2> HIDE DEF f, T
    <2> QED BY <2>1, <2>2 DEF Injection, IsInjective
<1>3. IsFiniteSet(T) /\ Cardinality(T) = Len(table)
    <2>1. 0 \in Nat /\ 0 <= Len(table) /\ Len(table) - 0 = Len(table)
        BY <1>1
    <2> QED BY <1>1, <2>1, IntervalSize
<1>4. f \in Surjection(AllRows, T)
    <2> HIDE DEF f, T
    <2> QED BY <1>1, <1>2, <1>3, FS_Injection
<1>5. a \in T
    OBVIOUS
<1>6. \E i \in AllRows : f[i] = a
    <2> HIDE DEF f, T
    <2> QED BY <1>4, <1>5 DEF Surjection
<1> QED BY <1>6

-----------------------------------------------------------------------------
\* A row that comes moves others down, and has none moved up.
LEMMA InsertMovesDown ==
    ASSUME PagesTypeOK, NEW at \in PageTimes, Insert(at)
    PROVE  /\ table' \in Seq(PageTimes) /\ Len(table') = Len(table) + 1
           /\ \A i \in AllRows : i \in AllRows' /\ Place(i)' \in Nat /\ Place(i) <= Place(i)'
           /\ AllRows' = AllRows \cup {Len(table) + 1}
<1>1. /\ table' \in Seq(PageTimes) /\ Len(table') = Len(table) + 1
      /\ \A i \in AllRows : table'[i] = table[i]
    BY PagesTypes, AppendProperties DEF Insert, AllRows
<1>2. AllRows' = AllRows \cup {Len(table) + 1} /\ IsFiniteSet(AllRows')
    <2>1. AllRows' = AllRows \cup {Len(table) + 1}
        BY <1>1, PagesTypes DEF AllRows
    <2> QED BY <2>1, PagesTypes, FS_AddElement
<1>3. ASSUME NEW i \in AllRows PROVE Place(i)' \in Nat /\ Place(i) <= Place(i)'
    <2> DEFINE S == {j \in AllRows : Later(j, i)}
               T == {j \in AllRows' : Later(j, i)'}
    <2>1. S \subseteq T
        BY <1>1, <1>2 DEF Later
    <2>2. T \in SUBSET AllRows'
        OBVIOUS
    <2>3. Place(i) = Cardinality(S) /\ Place(i)' = Cardinality(T)
        BY DEF Place, AllRows
    <2> HIDE DEF S, T
    <2>4. IsFiniteSet(T)
        BY <1>2, <2>2, FS_Subset
    <2> QED BY <2>1, <2>3, <2>4, FS_Subset, FS_CardinalityType
<1> QED BY <1>1, <1>2, <1>3

LEMMA InsertKeeps ==
    ASSUME PagesInv, NEW at \in PageTimes, Insert(at)
    PROVE  PagesInv'
<1>1. UNCHANGED <<before, offset, total, collected, pages>>
      /\ late' = IF pages = "rows" THEN late + 1 ELSE late
    BY DEF Insert
<1>2. /\ PagesTypeOK /\ CountFits /\ NeverPassedOver /\ MissingOnlyLate /\ NeverRefused
    BY DEF PagesInv, PagesMissOnlyLate
<1>3. /\ Len(table) \in Nat /\ offset \in 0..Len(table) /\ total \in 0..Len(table)
      /\ late \in 0..Len(table) /\ before \subseteq AllRows /\ collected \subseteq AllRows
    BY <1>2, PagesTypes
<1>4. /\ table' \in Seq(PageTimes) /\ Len(table') = Len(table) + 1
      /\ \A i \in AllRows : i \in AllRows' /\ Place(i)' \in Nat /\ Place(i) <= Place(i)'
    BY <1>2, InsertMovesDown
<1>5. PagesTypeOK'
    BY <1>1, <1>2, <1>3, <1>4 DEF PagesTypeOK, AllRows
<1>6. CountFits'
    BY <1>1, <1>2, <1>3, <1>4 DEF CountFits
<1>7. NeverPassedOver'
    <2> SUFFICES ASSUME pages \in {"count", "rows"}, NEW i \in before \ collected
                 PROVE  Place(i)' >= offset
        BY <1>1 DEF NeverPassedOver
    <2>1. Place(i) >= offset /\ Place(i) <= Place(i)' /\ i \in AllRows /\ Place(i)' \in Nat
        BY <1>2, <1>3, <1>4 DEF NeverPassedOver
    <2>2. Place(i) \in Nat
        BY <1>2, <2>1, PlaceType
    <2> QED BY <1>3, <2>1, <2>2
<1>8. MissingOnlyLate' /\ NeverRefused'
    BY <1>1, <1>2 DEF MissingOnlyLate, NeverRefused
<1> QED BY <1>5, <1>6, <1>7, <1>8 DEF PagesInv, PagesMissOnlyLate

\* The reader begins, and counts.
LEMMA CountKeeps ==
    ASSUME PagesInv, BeginPages \/ Count
    PROVE  PagesInv'
<1>1. /\ PagesTypeOK /\ CountFits /\ NeverPassedOver /\ MissingOnlyLate /\ NeverRefused
    BY DEF PagesInv, PagesMissOnlyLate
<1>2. /\ Len(table) \in Nat /\ offset \in 0..Len(table) /\ \A i \in AllRows : Place(i) \in Nat
    BY <1>1, PagesTypes, PlaceType
<1>3. UNCHANGED <<table, offset, collected>>
    BY DEF BeginPages, Count
<1>4. \A i : Place(i)' = Place(i)
    BY <1>3 DEF Place, Later
<1>5. CASE BeginPages
    <2>1. /\ pages = "start" /\ pages' = "count" /\ before' = AllRows
          /\ UNCHANGED <<total, late>>
        BY <1>5 DEF BeginPages, AllRows
    <2>2. PagesTypeOK' /\ CountFits' /\ MissingOnlyLate' /\ NeverRefused'
        BY <1>1, <1>2, <1>3, <2>1
           DEF PagesTypeOK, CountFits, MissingOnlyLate, NeverRefused, AllRows
    <2>3. NeverPassedOver'
        BY <1>1, <1>2, <1>3, <1>4, <2>1 DEF CountFits, NeverPassedOver
    <2> QED BY <2>2, <2>3 DEF PagesInv, PagesMissOnlyLate
<1>6. CASE Count
    <2>1. /\ pages = "count" /\ pages' = "rows" /\ total' = Len(table) /\ late' = 0
          /\ before' = before
        BY <1>6 DEF Count
    <2>2. PagesTypeOK' /\ CountFits' /\ MissingOnlyLate' /\ NeverRefused'
        BY <1>1, <1>2, <1>3, <2>1
           DEF PagesTypeOK, CountFits, MissingOnlyLate, NeverRefused, AllRows
    <2>3. NeverPassedOver'
        BY <1>1, <1>3, <1>4, <2>1 DEF NeverPassedOver
    <2> QED BY <2>2, <2>3 DEF PagesInv, PagesMissOnlyLate
<1> QED BY <1>5, <1>6

\* The reader takes a page: what it does not take has a later place than the page, and
\* at the end no more than the late rows have one.
LEMMA RowsKeep ==
    ASSUME PagesInv, TakePage(PageRows)
    PROVE  PagesInv'
<1>1. /\ PagesTypeOK /\ CountFits /\ NeverPassedOver /\ MissingOnlyLate /\ NeverRefused
    BY DEF PagesInv, PagesMissOnlyLate
<1>2. /\ Len(table) \in Nat /\ Limit \in Nat \ {0} /\ offset \in 0..Len(table)
      /\ total \in 0..Len(table) /\ late \in 0..Len(table)
      /\ before \subseteq AllRows /\ collected \subseteq AllRows
    BY <1>1, PagesTypes
<1>3. /\ pages = "rows" /\ collected' = collected \cup PageRows
      /\ offset' = offset + Cardinality(PageRows)
      /\ pages' = IF offset' >= total THEN "over" ELSE IF PageRows = {} THEN "refused" ELSE "count"
      /\ UNCHANGED <<table, before, total, late>>
    BY DEF TakePage, NextOffset
<1>4. \A i : Place(i)' = Place(i)
    BY <1>3 DEF Place, Later
<1>5. PageRows = {i \in AllRows : offset <= Place(i) /\ Place(i) < offset + Limit}
    BY DEF PageRows, AllRows
<1>6. /\ Cardinality(PageRows) \in Nat /\ Cardinality(PageRows) <= Limit
      /\ Cardinality(PageRows) <= Len(table) - offset
    <2>1. PageRows \in SUBSET AllRows
        BY <1>5
    <2>2. Cardinality(PageRows) \in Nat /\ Cardinality(PageRows) <= (offset + Limit) - offset
        <3>1. offset \in Nat /\ offset + Limit \in Nat /\ offset <= offset + Limit
            BY <1>2
        <3>2. \A i \in PageRows : offset <= Place(i) /\ Place(i) < offset + Limit
            BY <1>5
        <3> QED BY <1>1, <2>1, <3>1, <3>2, RowsBetween
    <2>3. Cardinality(PageRows) <= Len(table) - offset
        <3>1. offset \in Nat /\ offset <= Len(table)
            BY <1>2
        <3>2. \A i \in PageRows : offset <= Place(i) /\ Place(i) < Len(table)
            BY <1>1, <1>5, PlaceType
        <3> QED BY <1>1, <1>2, <2>1, <3>1, <3>2, RowsBetween
    <2> QED BY <1>2, <2>2, <2>3
<1>7. PagesTypeOK'
    <2>1. offset' \in 0..Len(table) /\ collected' \subseteq 1..Len(table)
        <3>1. offset' \in 0..Len(table)
            BY <1>2, <1>3, <1>6
        <3>2. PageRows \subseteq AllRows
            BY <1>5
        <3> QED BY <1>2, <1>3, <3>1, <3>2 DEF AllRows
    <2>2. pages' \in {"over", "refused", "count"}
        BY <1>3
    <2> QED BY <1>1, <1>3, <2>1, <2>2 DEF PagesTypeOK
<1>8. CountFits'
    BY <1>2, <1>3, <1>6 DEF CountFits
<1>9. ASSUME NEW i \in before \ collected'
      PROVE  i \in AllRows /\ Place(i) \in Nat /\ Place(i) >= offset' /\ Place(i) < Len(table)
    <2>1. i \in AllRows /\ i \in before \ collected /\ i \notin PageRows
        BY <1>2, <1>3, <1>9
    <2>2. Place(i) >= offset /\ Place(i) \in Nat /\ Place(i) < Len(table)
        BY <1>1, <1>3, <2>1, PlaceType DEF NeverPassedOver
    <2>3. Place(i) >= offset + Limit
        BY <1>2, <1>5, <2>1, <2>2
    <2> QED BY <1>2, <1>3, <1>6, <2>1, <2>2, <2>3
<1>10. NeverPassedOver'
    BY <1>3, <1>4, <1>9 DEF NeverPassedOver
<1>11. MissingOnlyLate'
    <2> SUFFICES ASSUME pages' = "over" PROVE Cardinality(before \ collected') <= late
        BY <1>3 DEF MissingOnlyLate
    <2>1. offset' >= total /\ Len(table) = total + late
        BY <1>1, <1>3 DEF CountFits
    <2>2. offset' \in Nat /\ offset' <= Len(table)
        BY <1>2, <1>3, <1>6
    <2>3. before \ collected' \in SUBSET AllRows
        BY <1>2
    <2> DEFINE end == offset + Cardinality(PageRows)
    <2>4. end = offset'
        BY <1>3
    <2>5. \A i \in before \ collected' : end <= Place(i) /\ Place(i) < Len(table)
        BY <1>9, <2>2, <2>4
    <2>6. end \in Nat /\ end <= Len(table)
        BY <2>2, <2>4
    <2>7. Cardinality(before \ collected') \in Nat /\ Cardinality(before \ collected') <= Len(table) - end
        <3> HIDE DEF end
        <3> QED BY <1>1, <1>2, <2>3, <2>5, <2>6, RowsBetween
    <2> HIDE DEF end
    <2> QED BY <1>2, <2>1, <2>2, <2>4, <2>7
<1>12. NeverRefused'
    <2> SUFFICES ASSUME PageRows = {}, offset' < total PROVE FALSE
        BY <1>2, <1>3, <1>6 DEF NeverRefused
    <2>1. offset \in 0..(Len(table) - 1)
        BY <1>2, <1>3, <1>6
    <2>2. PICK i \in AllRows : Place(i) = offset
        BY <1>1, <2>1, PlaceTaken
    <2>3. i \in PageRows
        BY <1>2, <1>5, <2>2
    <2> QED BY <2>3
<1> QED BY <1>7, <1>8, <1>10, <1>11, <1>12 DEF PagesInv, PagesMissOnlyLate

LEMMA PagesStep == PagesInv /\ [PagesNext]_pageVars => PagesInv'
<1> SUFFICES ASSUME PagesInv, [PagesNext]_pageVars PROVE PagesInv'
    OBVIOUS
<1>1. ASSUME NEW at \in PageTimes, Insert(at) PROVE PagesInv'
    BY <1>1, InsertKeeps
<1>2. CASE BeginPages \/ Count
    BY <1>2, CountKeeps
<1>3. CASE TakePage(PageRows)
    BY <1>3, RowsKeep
<1>4. CASE UNCHANGED pageVars
    BY <1>4 DEF pageVars, PagesInv, PagesTypeOK, CountFits, PagesMissOnlyLate, NeverPassedOver,
                MissingOnlyLate, NeverRefused, Place, Later
<1> QED BY <1>1, <1>2, <1>3, <1>4 DEF PagesNext

LEMMA PagesStart == PagesInit => PagesInv
<1> SUFFICES ASSUME PagesInit PROVE PagesInv
    OBVIOUS
<1>1. Cardinality({} \ {}) = 0 /\ 1..0 = {}
    BY FS_EmptySet
<1> QED BY <1>1, PagesAssumption
        DEF PagesInit, PagesInv, PagesTypeOK, CountFits, PagesMissOnlyLate, NeverPassedOver,
            MissingOnlyLate, NeverRefused

\* list_observations and check_rows: which rows the pages passed so far have given, and what
\* their offset counts.
THEOREM PagesInvariant == PagesSpec => []PagesInv
BY PagesStart, PagesStep, PTL DEF PagesSpec

\* list_observations and the loop of check_rows: however many rows come between the pages
\* and between the two statements of one, with whatever times, no page passes over a row,
\* the end misses at most those that came since the last count, and no page is empty early.
THEOREM PagesAreComplete == PagesSpec => []PagesMissOnlyLate
BY PagesInvariant, PTL DEF PagesInv

-----------------------------------------------------------------------------
(***************************************************************************)
(* HourReport, for any window, buckets, zone and rows.                     *)
(***************************************************************************)
ReportSpec == ReportInit /\ [][ReportNext]_reportVars

Queries == {q \in [since : Instants, until : Instants, width : Nat \ {0}, zone : Zones] :
               q.since < q.until}

\* Metrics, and those that are of part of n rows.
AnyMetrics == [decodes : Nat, japan : Nat, calls : SUBSET CallNames, japanCalls : SUBSET CallNames]
Within(m, n) == m \in AnyMetrics /\ m.japan <= m.decodes /\ m.decodes <= n

\* The rows so far whose bucket begins at b, and those that are of hour h of the day.
OfBucket(b) == {r \in read : b <= r[1].at /\ r[1].at < b + query.width}
OfHour(z, h) == {r \in read : HourOf(r[1].at, z) = h}

\* The rows are all of the window, equal ones numbered one after the other.
RowsInv ==
    /\ IsFiniteSet(read) /\ read \subseteq ReportRows \X (Nat \ {0})
    /\ \A r \in read : Selected(r[1]) /\ r[2] <= Cardinality({s \in read : s[1] = r[1]})

\* The totals are of all rows.
TotalsInv == Within(totals, MaxReport) /\ totals = LifetimeTotals

\* The buckets, and their sum.
BucketsInv ==
    /\ DOMAIN grouped = {b \in 0..query.until - 1 :
                            b % query.width = 0 /\ b + query.width > query.since}
    /\ \A b \in DOMAIN grouped : /\ Within(grouped[b], totals.decodes)
                                 /\ grouped[b].decodes = Cardinality(OfBucket(b))
                                 /\ grouped[b].japan <= totals.japan
    /\ totals.japan > 0 => \E b \in DOMAIN grouped : grouped[b].japan > 0
    /\ SumBelow([b \in DOMAIN grouped |-> grouped[b].japan], query.until) = totals.japan
    /\ UNION {grouped[b].calls : b \in DOMAIN grouped} = totals.calls

\* The hours, and their sum.
HoursInv ==
    /\ hourly \in [{"local", "utc"} -> [0..Hours - 1 -> AnyMetrics]]
    /\ \A z \in {"local", "utc"} :
          /\ \A h \in 0..Hours - 1 : Within(hourly[z][h], totals.decodes)
          /\ SumBelow([h \in 0..Hours - 1 |-> hourly[z][h].decodes], Hours) = totals.decodes
    /\ \A h \in 0..Hours - 1 : hourly["local"][h].decodes = Cardinality(OfHour(query.zone, h))

ReportInv == query \in Queries /\ RowsInv /\ TotalsInv /\ BucketsInv /\ HoursInv

-----------------------------------------------------------------------------
\* Sums.
Term(f, i) == IF i - 1 \in DOMAIN f THEN f[i - 1] ELSE 0

\* What the recursion computes.
IsSum(s, f, n) ==
    /\ s[0] = 0
    /\ \A i \in 1..n : s[i] = s[i - 1] + Term(f, i)

LEMMA SumIs ==
    ASSUME NEW f, NEW n \in Nat
    PROVE  \E s : IsSum(s, f, n) /\ SumBelow(f, n) = s[n]
<1> DEFINE T == [i \in 1..n |-> Term(f, i)]
           Next1(s) == [i \in 0..n |-> IF i = 0 THEN 0 ELSE s[i - 1] + T[i]]
           Next2(s) == [i \in 0..n |->
                         IF i = 0 THEN 0
                         ELSE s[i - 1] + IF i - 1 \in DOMAIN f THEN f[i - 1] ELSE 0]
           direct == CHOOSE s : s = Next2(s)
<1>1. PICK s : IsRunningSum(s, n, T)
    BY RunningSumExists
<1>2. ASSUME NEW s0 PROVE Next1(s0) = Next2(s0)
    <2>1. \A i \in 0..n : i # 0 => T[i] = IF i - 1 \in DOMAIN f THEN f[i - 1] ELSE 0
        BY DEF Term
    <2> HIDE DEF T
    <2> QED BY <2>1
<1>3. s = Next2(s)
    <2>1. s = Next1(s)
        <3> HIDE DEF T
        <3> QED BY <1>1 DEF IsRunningSum
    <2> HIDE DEF Next1, Next2
    <2> QED BY <1>2, <2>1
<1>4. direct = Next2(direct)
    <2> HIDE DEF Next2
    <2> QED BY <1>3
<1>5. SumBelow(f, n) = direct[n]
    BY DEF SumBelow
<1>6. IsSum(direct, f, n)
    <2> HIDE DEF direct
    <2>1. direct[0] = 0
        BY <1>4
    <2>2. ASSUME NEW i \in 1..n PROVE direct[i] = direct[i - 1] + Term(f, i)
        <3>1. i \in 0..n /\ i # 0
            OBVIOUS
        <3>2. direct[i] = Next2(direct)[i]
            BY <1>4
        <3> QED BY <3>1, <3>2 DEF Term
    <2> QED BY <2>1, <2>2 DEF IsSum
<1> HIDE DEF direct
<1> QED BY <1>5, <1>6

\* A sum of nothing but zeros is zero.
LEMMA SumOfZeros ==
    ASSUME NEW f, NEW n \in Nat, \A i \in DOMAIN f : f[i] = 0
    PROVE  SumBelow(f, n) = 0
<1>1. PICK s : IsSum(s, f, n) /\ SumBelow(f, n) = s[n]
    BY SumIs
<1> DEFINE Bad == {i \in 0..n : s[i] # 0}
<1> SUFFICES ASSUME Bad # {} PROVE FALSE
    BY <1>1
<1>2. PICK i \in Bad : \A j \in Bad : i <= j
    <2>1. Bad \subseteq Nat
        OBVIOUS
    <2> HIDE DEF Bad
    <2> QED BY <2>1, LeastNumber
<1>3. i \in 1..n
    BY <1>1 DEF IsSum
<1>4. s[i] = s[i - 1] + Term(f, i)
    BY <1>1, <1>3 DEF IsSum
<1>5. s[i - 1] = 0
    BY <1>2, <1>3
<1>6. Term(f, i) = 0
    BY DEF Term
<1> QED BY <1>4, <1>5, <1>6

\* One more in one place is one more in the sum.
LEMMA SumAdds ==
    ASSUME NEW f, NEW g, NEW n \in Nat, NEW d \in Nat, NEW k \in 0..n - 1, k \in DOMAIN f,
           DOMAIN f = DOMAIN g, \A i \in DOMAIN f : f[i] \in Nat,
           \A i \in DOMAIN f : g[i] = IF i = k THEN f[i] + d ELSE f[i]
    PROVE  SumBelow(g, n) = SumBelow(f, n) + d
<1>1. PICK s : IsSum(s, f, n) /\ SumBelow(f, n) = s[n]
    BY SumIs
<1>2. PICK t : IsSum(t, g, n) /\ SumBelow(g, n) = t[n]
    BY SumIs
<1> DEFINE Good(i) == s[i] \in Nat /\ t[i] = IF i <= k THEN s[i] ELSE s[i] + d
           Bad == {i \in 0..n : ~Good(i)}
<1> SUFFICES ASSUME Bad # {} PROVE FALSE
    <2>1. n \notin Bad
        OBVIOUS
    <2> QED BY <1>1, <1>2, <2>1
<1>3. PICK i \in Bad : \A j \in Bad : i <= j
    <2>1. Bad \subseteq Nat
        OBVIOUS
    <2> HIDE DEF Bad
    <2> QED BY <2>1, LeastNumber
<1>4. i \in 1..n
    <2>1. s[0] = 0 /\ t[0] = 0
        BY <1>1, <1>2 DEF IsSum
    <2> QED BY <2>1
<1>5. Good(i - 1)
    BY <1>3, <1>4
<1>6. s[i] = s[i - 1] + Term(f, i) /\ t[i] = t[i - 1] + Term(g, i)
    BY <1>1, <1>2, <1>4 DEF IsSum
<1>7. /\ Term(f, i) \in Nat
      /\ Term(g, i) = IF i - 1 = k THEN Term(f, i) + d ELSE Term(f, i)
    BY <1>4 DEF Term
<1>8. ~Good(i)
    OBVIOUS
<1> HIDE DEF Bad
<1> QED BY <1>4, <1>5, <1>6, <1>7, <1>8

-----------------------------------------------------------------------------
LEMMA DivisionIs ==
    ASSUME NEW x \in Int, NEW d \in Nat \ {0}
    PROVE  x = d * (x \div d) + (x % d) /\ x % d \in 0..d - 1 /\ x \div d \in Int
<1>1. d \in Int /\ d > 0
    OBVIOUS
<1>2. x \div d \in Int
    BY <1>1
<1>3. x % d \in 0..d - 1
    BY <1>1
<1>4. x = d * (x \div d) + (x % d)
    BY <1>1
<1> QED BY <1>2, <1>3, <1>4

\* A quotient is told by where its multiple lies.
LEMMA QuotientOf ==
    ASSUME NEW x \in Int, NEW d \in Nat \ {0}, NEW q \in Int
    PROVE  x \div d = q <=> x - q * d \in 0..d - 1
<1>1. x = d * (x \div d) + (x % d) /\ x % d \in 0..d - 1 /\ x \div d \in Int
    BY DivisionIs
<1> DEFINE p == x \div d
<1>2. p \in Int /\ x - p * d \in 0..d - 1
    BY <1>1
<1>3. ASSUME x - q * d \in 0..d - 1 PROVE p = q
    <2>1. (p - q) * d < d /\ (q - p) * d < d
        <3>1. p * d \in Int /\ q * d \in Int /\ (p - q) * d = p * d - q * d /\ (q - p) * d = q * d - p * d
            BY <1>2
        <3> HIDE DEF p
        <3> QED BY <1>2, <1>3, <3>1
    <2>2. ~(p - q >= 1)
        <3> HIDE DEF p
        <3> SUFFICES ASSUME p - q >= 1 PROVE FALSE
            OBVIOUS
        <3>1. (p - q) * d >= d
            BY <1>2
        <3> QED BY <1>2, <2>1, <3>1
    <2>3. ~(q - p >= 1)
        <3> HIDE DEF p
        <3> SUFFICES ASSUME q - p >= 1 PROVE FALSE
            OBVIOUS
        <3>1. (q - p) * d >= d
            BY <1>2
        <3> QED BY <1>2, <2>1, <3>1
    <2> HIDE DEF p
    <2> QED BY <1>2, <2>2, <2>3
<1> QED BY <1>2, <1>3

\* A time is in the bucket of its floor, and in no other.
LEMMA FloorIs ==
    ASSUME NEW t \in Nat, NEW w \in Nat \ {0}
    PROVE  /\ Floor(t, w) \in Nat /\ Floor(t, w) <= t /\ t < Floor(t, w) + w
           /\ Floor(t, w) % w = 0
           /\ \A b \in Nat : b % w = 0 /\ b <= t /\ t < b + w => b = Floor(t, w)
<1> DEFINE q == t \div w
<1>1. q \in Nat /\ t - q * w \in 0..w - 1 /\ q * w \in Nat
    <2>1. q \in Nat
        OBVIOUS
    <2>2. t - q * w \in 0..w - 1
        BY QuotientOf
    <2> HIDE DEF q
    <2> QED BY <2>1, <2>2
<1>2. Floor(t, w) = q * w
    BY DEF Floor
<1>3. (q * w) % w = 0
    <2> DEFINE y == q * w
    <2>1. y \in Int /\ y - q * w = 0
        <3> HIDE DEF q
        <3> QED BY <1>1
    <2>2. y \div w = q
        <3> HIDE DEF q, y
        <3>1. q \in Int /\ y - q * w \in 0..w - 1
            BY <1>1, <2>1
        <3> QED BY <2>1, <3>1, QuotientOf
    <2>3. y = w * (y \div w) + (y % w) /\ y % w \in 0..w - 1
        <3> HIDE DEF y
        <3> QED BY <2>1, DivisionIs
    <2>4. w * q = q * w /\ q * w \in Int
        <3> HIDE DEF q
        <3> QED BY <1>1
    <2>5. y % w = 0
        <3> DEFINE r == y % w
        <3> HIDE DEF q, y
        <3>1. y = w * q + r /\ r \in Int
            BY <2>2, <2>3
        <3> HIDE DEF r
        <3>2. r = 0
            BY <2>1, <2>4, <3>1
        <3> QED BY <3>2 DEF r
    <2> QED BY <2>5
<1>4. ASSUME NEW b \in Nat, b % w = 0, b <= t, t < b + w PROVE b = q * w
    <2> DEFINE c == b \div w
    <2>1. c \in Int /\ b = w * c + (b % w)
        BY DivisionIs
    <2>2. b = c * w
        <3> HIDE DEF c
        <3>1. w * c \in Int /\ w * c = c * w
            BY <2>1
        <3> QED BY <1>4, <2>1, <3>1
    <2>3. t - c * w \in 0..w - 1
        <3> HIDE DEF c
        <3> QED BY <1>4, <2>2
    <2>4. q = c
        <3> HIDE DEF c
        <3> QED BY <2>1, <2>3, QuotientOf
    <2> HIDE DEF c, q
    <2> QED BY <2>2, <2>4
<1> HIDE DEF q
<1> QED BY <1>1, <1>2, <1>3, <1>4

\* The hour of the day is told by the days that have passed, the one before the first
\* and the one after the last included.
LEMMA HourIs ==
    ASSUME NEW t \in Instants, NEW zone \in Zones, NEW h \in 0..Hours - 1
    PROVE  /\ HourOf(t, zone) \in 0..Hours - 1
           /\ HourOf(t, zone) = h <=>
                  \E day \in -1..MaxInstant + 1 :
                      (t + zone) - (day * Hours + h) * Hour \in 0..Hour - 1
<1> DEFINE x == t + zone
           q == x \div Hour
           first == q \div Hours
<1>1. /\ Hour \in Nat \ {0} /\ Hours \in Nat \ {0} /\ MaxInstant \in Nat
      /\ Hour * Hours \in Nat /\ Hour * Hours >= 1
      /\ x \in Int /\ -(Hour * Hours) < x /\ x < MaxInstant + Hour * Hours
    <2>1. Hour \in Nat \ {0} /\ Hours \in Nat \ {0} /\ MaxInstant \in Nat
        BY ReportAssumption
    <2>2. Hour * Hours \in Nat
        BY <2>1
    <2>3. Hour * Hours >= 1
        BY <2>1
    <2>4. zone \in -(Hour * Hours - 1)..Hour * Hours - 1
        BY ReportAssumption
    <2>5. t \in Nat /\ t <= MaxInstant
        BY <2>1 DEF Instants
    <2> DEFINE D == Hour * Hours
    <2>6. D \in Nat /\ zone \in -(D - 1)..D - 1
        BY <2>2, <2>4
    <2>7. x \in Int /\ -D < x /\ x < MaxInstant + D
        <3> HIDE DEF D
        <3> QED BY <2>1, <2>5, <2>6
    <2> QED BY <2>1, <2>2, <2>3, <2>7
<1> HIDE DEF x
<1>2. q \in Int /\ x - q * Hour \in 0..Hour - 1
    <2>1. q \in Int
        BY <1>1, DivisionIs
    <2> HIDE DEF q
    <2> QED BY <1>1, <2>1, QuotientOf DEF q
<1>3. HourOf(t, zone) = q % Hours
    BY DEF HourOf, x
<1> HIDE DEF q
<1>4. q = Hours * first + (q % Hours) /\ q % Hours \in 0..Hours - 1 /\ first \in Int
    BY <1>1, <1>2, DivisionIs
<1>5. ASSUME q % Hours = h
      PROVE  \E day \in -1..MaxInstant + 1 : x - (day * Hours + h) * Hour \in 0..Hour - 1
    <2> HIDE DEF first
    <2>1. q = first * Hours + h
        BY <1>1, <1>4, <1>5
    <2>2. x - (first * Hours + h) * Hour \in 0..Hour - 1
        BY <1>2, <2>1
    <2> DEFINE D == Hour * Hours
               low == h * Hour
    <2>3. (first * Hours + h) * Hour = first * D + low
        BY <1>1, <1>4
    <2>4. low \in Nat /\ low + Hour <= D
        <3>1. low \in Nat
            BY <1>1
        <3>2. (h + 1) * Hour <= Hours * Hour
            BY <1>1
        <3> QED BY <1>1, <3>1, <3>2
    <2>5. D \in Nat /\ D >= 1 /\ first * D \in Int /\ -D < x /\ x < MaxInstant + D
        BY <1>1, <1>4
    <2>6. first * D <= x /\ x < first * D + D
        <3>1. x - (first * D + low) \in 0..Hour - 1
            BY <2>2, <2>3
        <3> HIDE DEF D, low
        <3> QED BY <1>1, <2>4, <2>5, <3>1
    <2> HIDE DEF D
    <2>7. first >= -1
        <3> SUFFICES ASSUME first <= -2 PROVE FALSE
            BY <1>4
        <3>1. first * D <= (-2) * D
            BY <1>4, <2>5
        <3> QED BY <1>1, <2>5, <2>6, <3>1
    <2>8. first <= MaxInstant + 1
        <3> SUFFICES ASSUME first >= MaxInstant + 2 PROVE FALSE
            BY <1>1, <1>4
        <3>1. first * D >= (MaxInstant + 2) * D
            BY <1>1, <1>4, <2>5
        <3>2. (MaxInstant + 2) * D = MaxInstant * D + 2 * D /\ MaxInstant * D \in Int
            BY <1>1, <2>5
        <3>3. MaxInstant * D >= MaxInstant
            BY <1>1, <2>5
        <3> QED BY <1>1, <2>5, <2>6, <3>1, <3>2, <3>3
    <2>9. first \in -1..MaxInstant + 1
        BY <1>1, <1>4, <2>7, <2>8
    <2> QED BY <2>2, <2>9
<1>6. ASSUME NEW day \in -1..MaxInstant + 1, x - (day * Hours + h) * Hour \in 0..Hour - 1
      PROVE  q % Hours = h
    <2> DEFINE y == day * Hours + h
    <2>1. day * Hours \in Int /\ y \in Int /\ y - day * Hours = h /\ Hours * day = day * Hours
        BY <1>1
    <2>2. q = y
        <3> HIDE DEF y
        <3> QED BY <1>1, <1>6, <2>1, QuotientOf DEF q, y
    <2>3. y \div Hours = day
        <3> HIDE DEF y
        <3>1. y - day * Hours \in 0..Hours - 1 /\ day \in Int
            BY <1>1, <2>1
        <3> QED BY <1>1, <2>1, <3>1, QuotientOf
    <2> DEFINE r == y % Hours
    <2>4. y = Hours * day + r /\ r \in Int
        <3> HIDE DEF y
        <3>1. y = Hours * (y \div Hours) + (y % Hours) /\ y % Hours \in 0..Hours - 1
            BY <1>1, <2>1, DivisionIs
        <3>2. y % Hours \in Int
            BY <1>1, <3>1
        <3> QED BY <2>3, <3>1, <3>2
    <2>5. r = h
        <3> HIDE DEF y, r
        <3> QED BY <2>1, <2>4
    <2> QED BY <2>2, <2>5
<1> QED BY <1>3, <1>4, <1>5, <1>6 DEF x

-----------------------------------------------------------------------------
\* One more row.
LEMMA WithinMore ==
    ASSUME NEW m, NEW n \in Nat, Within(m, n), NEW row \in ReportRows
    PROVE  /\ Within(m, n + 1) /\ Within(Add(m, row), n + 1)
           /\ Add(m, row).decodes = m.decodes + 1
           /\ Add(m, row).japan = m.japan + IF row.japan THEN 1 ELSE 0
           /\ Add(m, row).calls = m.calls \cup Named(row.call)
<1>1. Named(row.call) \subseteq CallNames
    BY DEF Named, ReportRows
<1>2. /\ m.decodes \in Nat /\ m.japan \in Nat /\ m.japan <= m.decodes /\ m.decodes <= n
      /\ m.calls \subseteq CallNames /\ m.japanCalls \subseteq CallNames
    BY DEF Within, AnyMetrics
<1>3. Within(m, n + 1)
    <2>1. m \in AnyMetrics
        BY DEF Within
    <2> QED BY <1>2, <2>1 DEF Within
<1>4. /\ Add(m, row).decodes = m.decodes + 1
      /\ Add(m, row).japan = m.japan + IF row.japan THEN 1 ELSE 0
      /\ Add(m, row).calls = m.calls \cup Named(row.call)
    BY DEF Add
<1>5. Add(m, row) \in AnyMetrics
    BY <1>1, <1>2 DEF Add, AnyMetrics
<1> QED BY <1>2, <1>3, <1>4, <1>5 DEF Within

LEMMA OneMore ==
    ASSUME NEW S, IsFiniteSet(S), NEW x, x \notin S
    PROVE  Cardinality(S \cup {x}) = Cardinality(S) + 1 /\ Cardinality(S) \in Nat
BY FS_AddElement, FS_CardinalityType

\* The row that is read is a new one; of the rows of any kind there is one more, if it
\* is of that kind.
RowAdded(row, n) ==
    n \in ReportRows \X (Nat \ {0}) /\ n[1] = row /\ n \notin read /\ read' = read \cup {n}

LEMMA RowIsAdded ==
    ASSUME RowsInv, NEW row \in ReportRows, AddRow(row)
    PROVE  (\E n : RowAdded(row, n)) /\ RowsInv'
<1> DEFINE Equal(r) == {s \in read : s[1] = r}
           n == <<row, Cardinality(Equal(row)) + 1>>
<1>1. IsFiniteSet(read) /\ read' = read \cup {n}
    BY DEF RowsInv, AddRow
<1>2. ASSUME NEW r PROVE IsFiniteSet(Equal(r)) /\ Cardinality(Equal(r)) \in Nat
    BY <1>1, FS_Subset, FS_CardinalityType
<1>3. n \in ReportRows \X (Nat \ {0}) /\ n[1] = row /\ n[2] = Cardinality(Equal(row)) + 1
    <2> HIDE DEF Equal
    <2> QED BY <1>2
<1>4. n \notin read
    <2> SUFFICES ASSUME n \in read PROVE FALSE
        OBVIOUS
    <2>1. n[2] <= Cardinality(Equal(row))
        BY <1>3 DEF RowsInv
    <2> HIDE DEF n, Equal
    <2> QED BY <1>2, <1>3, <2>1
<1>5. RowAdded(row, n)
    <2> HIDE DEF n, Equal
    <2> QED BY <1>1, <1>3, <1>4 DEF RowAdded
<1>6. IsFiniteSet(read') /\ read' \subseteq ReportRows \X (Nat \ {0})
    <2>1. IsFiniteSet(read \cup {n})
        <3> HIDE DEF n
        <3> QED BY <1>1, FS_AddElement
    <2> HIDE DEF n
    <2> QED BY <1>1, <1>3, <2>1 DEF RowsInv
<1>7. ASSUME NEW r \in read'
      PROVE  Selected(r[1])' /\ r[2] <= Cardinality({s \in read' : s[1] = r[1]})
    <2>1. query' = query /\ Selected(row)
        BY DEF AddRow
    <2>2. Selected(r[1])'
        <3>1. CASE r \in read
            BY <2>1, <3>1 DEF RowsInv, Selected
        <3>2. CASE r = n
            BY <2>1, <3>2 DEF Selected
        <3> HIDE DEF n
        <3> QED BY <1>1, <3>1, <3>2
    <2> DEFINE Now == {s \in read' : s[1] = r[1]}
    <2>3. r[2] <= Cardinality(Now)
        <3>1. CASE r = n
            <4>1. Now = Equal(row) \cup {n}
                <5> HIDE DEF n
                <5> QED BY <1>1, <1>3, <3>1
            <4>2. n \notin Equal(row)
                <5> HIDE DEF n
                <5> QED BY <1>4
            <4>3. Cardinality(Now) = Cardinality(Equal(row)) + 1
                <5> HIDE DEF n, Equal, Now
                <5> QED BY <1>2, <4>1, <4>2, OneMore
            <4> HIDE DEF n, Equal, Now
            <4> QED BY <1>2, <1>3, <3>1, <4>3
        <3>2. CASE r \in read
            <4>1. r[2] <= Cardinality(Equal(r[1])) /\ r[2] \in Nat
                BY <3>2 DEF RowsInv
            <4>2. Equal(r[1]) \subseteq Now /\ IsFiniteSet(Now)
                <5>1. Now \subseteq read'
                    OBVIOUS
                <5>2. IsFiniteSet(Now)
                    <6> HIDE DEF Now
                    <6> QED BY <1>6, <5>1, FS_Subset
                <5>3. Equal(r[1]) \subseteq Now
                    <6> HIDE DEF n
                    <6> QED BY <1>1
                <5> QED BY <5>2, <5>3
            <4>3. Cardinality(Equal(r[1])) <= Cardinality(Now) /\ Cardinality(Now) \in Nat
                <5> HIDE DEF Equal, Now
                <5> QED BY <4>2, FS_Subset, FS_CardinalityType
            <4>4. Cardinality(Equal(r[1])) \in Nat
                BY <1>2
            <4> HIDE DEF Equal, Now
            <4> QED BY <4>1, <4>3, <4>4
        <3> HIDE DEF n
        <3> QED BY <1>1, <3>1, <3>2
    <2> QED BY <2>2, <2>3
<1>8. RowsInv'
    BY <1>6, <1>7 DEF RowsInv
<1> HIDE DEF n
<1> QED BY <1>5, <1>8

LEMMA CountMore ==
    ASSUME RowsInv, NEW row, NEW n, RowAdded(row, n), NEW A, NEW B, A \subseteq read
    PROVE  /\ B = A => Cardinality(B) = Cardinality(A)
           /\ B = A \cup {n} => Cardinality(B) = Cardinality(A) + 1
           /\ Cardinality(A) \in Nat /\ Cardinality(A) <= Cardinality(read)
<1>1. IsFiniteSet(read) /\ n \notin A
    BY DEF RowsInv, RowAdded
<1>2. IsFiniteSet(A) /\ Cardinality(A) <= Cardinality(read)
    BY <1>1, FS_Subset
<1> QED BY <1>1, <1>2, OneMore, FS_CardinalityType

-----------------------------------------------------------------------------
\* The totals.
LEMMA TotalsAre ==
    totals = LifetimeTotals =>
        /\ totals.decodes = Cardinality(read)
        /\ totals.japan = Cardinality({r \in read : r[1].japan})
        /\ totals.calls = UNION {Named(r[1].call) : r \in read}
        /\ totals.japanCalls = UNION {Named(r[1].call) : r \in {s \in read : s[1].japan}}
BY DEF LifetimeTotals, Named

LEMMA TotalsKeep ==
    ASSUME ReportInv, NEW row \in ReportRows, AddRow(row)
    PROVE  TotalsInv' /\ totals'.decodes = totals.decodes + 1 /\ totals.decodes \in Nat
           /\ totals'.japan = totals.japan + (IF row.japan THEN 1 ELSE 0) /\ totals.japan \in Nat
           /\ totals'.calls = totals.calls \cup Named(row.call)
<1>1. PICK n : RowAdded(row, n)
    BY RowIsAdded DEF ReportInv
<1>2. totals' = Add(totals, row) /\ totals.decodes < MaxReport /\ Within(totals, MaxReport)
      /\ MaxReport \in Nat /\ row.japan \in BOOLEAN
    BY ReportAssumption DEF ReportInv, TotalsInv, AddRow, ReportRows
<1>3. totals.decodes \in Nat /\ totals.japan \in Nat /\ totals.japan <= totals.decodes
    BY <1>2 DEF Within, AnyMetrics
<1>4. /\ Within(totals', totals.decodes + 1)
      /\ totals'.decodes = totals.decodes + 1
      /\ totals'.japan = totals.japan + (IF row.japan THEN 1 ELSE 0)
      /\ totals'.calls = totals.calls \cup Named(row.call)
    <2>1. Within(totals, totals.decodes)
        BY <1>2, <1>3 DEF Within
    <2> QED BY <1>2, <1>3, <2>1, WithinMore
<1>5. Within(totals', MaxReport)
    <2>1. totals'.decodes <= MaxReport
        BY <1>2, <1>3, <1>4
    <2> QED BY <1>4, <2>1 DEF Within
<1> DEFINE J == {r \in read : r[1].japan}
           K == {r \in read' : r[1].japan}
<1>6. /\ totals.decodes = Cardinality(read) /\ totals.japan = Cardinality(J)
      /\ totals.calls = UNION {Named(r[1].call) : r \in read}
      /\ totals.japanCalls = UNION {Named(r[1].call) : r \in J}
    BY TotalsAre DEF ReportInv, TotalsInv
<1>7. read' = read \cup {n} /\ n[1] = row /\ n \notin read
    BY <1>1 DEF RowAdded
<1>8. K = IF row.japan THEN J \cup {n} ELSE J
    BY <1>2, <1>7
<1>9. Cardinality(read') = totals'.decodes
    <2>1. Cardinality(read') = Cardinality(read) + 1
        BY <1>1, <1>7, CountMore DEF ReportInv
    <2> QED BY <1>4, <1>6, <2>1
<1>10. Cardinality(K) = totals'.japan
    <2>1. J \subseteq read
        OBVIOUS
    <2> HIDE DEF J, K
    <2>2. CASE row.japan
        <3>1. Cardinality(K) = Cardinality(J) + 1
            BY <1>1, <1>8, <2>1, <2>2, CountMore DEF ReportInv
        <3> QED BY <1>4, <1>6, <2>2, <3>1
    <2>3. CASE ~row.japan
        BY <1>3, <1>4, <1>6, <1>8, <2>3
    <2> QED BY <2>2, <2>3
<1>11. totals'.calls = UNION {Named(r[1].call) : r \in read'}
    <2>1. UNION {Named(r[1].call) : r \in read \cup {n}}
            = (UNION {Named(r[1].call) : r \in read}) \cup Named(n[1].call)
        OBVIOUS
    <2> QED BY <1>4, <1>6, <1>7, <2>1
<1>12. totals'.japanCalls = UNION {Named(r[1].call) : r \in K}
    <2>1. totals'.japanCalls = totals.japanCalls \cup IF row.japan THEN Named(row.call) ELSE {}
        BY <1>2 DEF Add
    <2>2. UNION {Named(r[1].call) : r \in J \cup {n}}
            = (UNION {Named(r[1].call) : r \in J}) \cup Named(n[1].call)
        OBVIOUS
    <2> HIDE DEF J, K
    <2> QED BY <1>6, <1>7, <1>8, <2>1, <2>2
<1>13. totals' = [decodes |-> totals'.decodes, japan |-> totals'.japan,
                  calls |-> totals'.calls, japanCalls |-> totals'.japanCalls]
    BY <1>2 DEF Add
<1>14. (totals = LifetimeTotals)'
    <2>1. {(IF r[1].call = Empty THEN Null ELSE r[1].call) : r \in read'} \ {Null}
            = UNION {Named(r[1].call) : r \in read'}
        BY DEF Named
    <2>2. {(IF r[1].call = Empty THEN Null ELSE r[1].call) : r \in K} \ {Null}
            = UNION {Named(r[1].call) : r \in K}
        <3> HIDE DEF K
        <3> QED BY DEF Named
    <2> QED BY <1>9, <1>10, <1>11, <1>12, <1>13, <2>1, <2>2 DEF LifetimeTotals
<1> QED BY <1>3, <1>4, <1>5, <1>14 DEF TotalsInv

-----------------------------------------------------------------------------
\* The buckets: that of a row is there, padded or not, and no other is its bucket.
LEMMA BucketOf ==
    ASSUME NEW t \in Nat, NEW w \in Nat \ {0}, NEW since \in Nat, NEW until \in Nat,
           since <= t, t < until
    PROVE  /\ Floor(t, w) \in {b \in 0..until - 1 : b % w = 0 /\ b + w > since}
           /\ \A b \in {c \in 0..until - 1 : c % w = 0 /\ c + w > since} :
                 (b <= t /\ t < b + w) <=> b = Floor(t, w)
<1>1. /\ Floor(t, w) \in Nat /\ Floor(t, w) <= t /\ t < Floor(t, w) + w
      /\ Floor(t, w) % w = 0
    BY FloorIs
<1>2. Floor(t, w) \in 0..until - 1 /\ Floor(t, w) + w > since
    BY <1>1
<1>3. ASSUME NEW b \in 0..until - 1, b % w = 0
      PROVE  (b <= t /\ t < b + w) <=> b = Floor(t, w)
    <2>1. b \in Nat
        OBVIOUS
    <2> QED BY <1>1, <1>3, <2>1, FloorIs
<1> QED BY <1>1, <1>2, <1>3

LEMMA PaddedIs ==
    ASSUME NEW since \in Instants, NEW until \in Instants, NEW w \in Nat \ {0}, since < until
    PROVE  Padded(since, until, w) = {b \in 0..until - 1 : b % w = 0 /\ b + w > since}
<1>1. since \in Nat /\ until \in Nat /\ until <= MaxInstant /\ MaxInstant \in Nat
    BY ReportAssumption DEF Instants
<1>2. /\ Floor(since, w) \in Nat /\ Floor(since, w) <= since /\ since < Floor(since, w) + w
      /\ \A b \in Nat : b % w = 0 /\ b <= since /\ since < b + w => b = Floor(since, w)
    BY <1>1, FloorIs
<1>3. ASSUME NEW b \in Nat, b % w = 0
      PROVE  Floor(since, w) <= b <=> b + w > since
    BY <1>1, <1>2, <1>3
<1>4. ASSUME NEW b
      PROVE  b \in Padded(since, until, w)
                <=> b \in {c \in 0..until - 1 : c % w = 0 /\ c + w > since}
    <2>1. b \in Instants /\ b < until <=> b \in 0..until - 1
        BY <1>1 DEF Instants
    <2>2. b \in 0..until - 1 => b \in Nat
        OBVIOUS
    <2> QED BY <1>3, <2>1, <2>2 DEF Padded
<1> QED BY <1>4

LEMMA RowAt ==
    ASSUME query \in Queries, NEW row \in ReportRows, Selected(row)
    PROVE  /\ row.at \in Instants /\ row.at \in Nat
           /\ query.since \in Nat /\ query.until \in Nat /\ query.width \in Nat \ {0}
           /\ query.zone \in Zones
           /\ query.since <= row.at /\ row.at < query.until
BY ReportAssumption DEF Queries, ReportRows, Selected, Instants

LEMMA BucketsKeep ==
    ASSUME ReportInv, NEW row \in ReportRows, AddRow(row)
    PROVE  BucketsInv'
<1> DEFINE b == Floor(row.at, query.width)
           D == {c \in 0..query.until - 1 : c % query.width = 0 /\ c + query.width > query.since}
           d == IF row.japan THEN 1 ELSE 0
<1>1. PICK n : RowAdded(row, n)
    BY RowIsAdded DEF ReportInv
<1>2. query' = query /\ query \in Queries /\ Selected(row)
    BY DEF AddRow, ReportInv
<1>3. b \in D /\ \A c \in D : (c <= row.at /\ row.at < c + query.width) <=> c = b
    <2> HIDE DEF b, D
    <2> QED BY <1>2, RowAt, BucketOf DEF b, D
<1>4. DOMAIN grouped = D
    BY DEF ReportInv, BucketsInv
<1>5. /\ DOMAIN grouped' = D
      /\ grouped'[b] = Add(grouped[b], row)
      /\ \A c \in D : c # b => grouped'[c] = grouped[c]
    <2>1. b \in DOMAIN grouped
        BY <1>3, <1>4
    <2>2. grouped' = [x \in DOMAIN grouped \cup {b} |->
                         IF x = b THEN Add(grouped[b], row) ELSE grouped[x]]
        BY <2>1 DEF AddRow
    <2> HIDE DEF b, D
    <2> QED BY <1>4, <2>1, <2>2
<1>6. /\ \A c \in D : /\ Within(grouped[c], totals.decodes)
                      /\ grouped[c].decodes = Cardinality(OfBucket(c))
                      /\ grouped[c].japan <= totals.japan
      /\ totals.japan > 0 => \E c \in D : grouped[c].japan > 0
      /\ SumBelow([c \in D |-> grouped[c].japan], query.until) = totals.japan
      /\ UNION {grouped[c].calls : c \in D} = totals.calls
    <2> HIDE DEF D
    <2> QED BY <1>4 DEF ReportInv, BucketsInv
<1>7. /\ totals'.decodes = totals.decodes + 1 /\ totals.decodes \in Nat
      /\ totals'.japan = totals.japan + d /\ totals.japan \in Nat
      /\ totals'.calls = totals.calls \cup Named(row.call)
    BY TotalsKeep
<1>8. d \in Nat /\ d \in {0, 1}
    OBVIOUS
<1> HIDE DEF b, D
<1>9. ASSUME NEW c \in D
      PROVE  /\ Within(grouped'[c], totals'.decodes)
             /\ grouped'[c].decodes = grouped[c].decodes + (IF c = b THEN 1 ELSE 0)
             /\ grouped'[c].japan = grouped[c].japan + (IF c = b THEN d ELSE 0)
             /\ grouped'[c].calls = grouped[c].calls \cup (IF c = b THEN Named(row.call) ELSE {})
             /\ grouped[c].japan \in Nat /\ grouped[c].decodes \in Nat
    <2>1. Within(grouped[c], totals.decodes) /\ totals.decodes \in Nat
        BY <1>6, <1>7
    <2>2. grouped[c].japan \in Nat /\ grouped[c].decodes \in Nat
        BY <2>1 DEF Within, AnyMetrics
    <2>3. CASE c = b
        BY <1>5, <1>7, <2>1, <2>2, <2>3, WithinMore
    <2>4. CASE c # b
        BY <1>5, <1>7, <2>1, <2>2, <2>4, WithinMore
    <2> QED BY <2>3, <2>4
<1> HIDE DEF d
<1>10. ASSUME NEW c \in D
       PROVE  grouped'[c].decodes = Cardinality(OfBucket(c)')
    <2>1. OfBucket(c) \subseteq read
        BY DEF OfBucket
    <2>2. OfBucket(c)' = IF c = b THEN OfBucket(c) \cup {n} ELSE OfBucket(c)
        <3>1. (c <= row.at /\ row.at < c + query.width) <=> c = b
            BY <1>3
        <3>2. query' = query /\ read' = read \cup {n} /\ n[1] = row
            BY <1>1, <1>2 DEF RowAdded
        <3> QED BY <3>1, <3>2 DEF OfBucket
    <2>3. Cardinality(OfBucket(c)') = Cardinality(OfBucket(c)) + IF c = b THEN 1 ELSE 0
        <3>1. CASE c = b
            BY <1>1, <2>1, <2>2, <3>1, CountMore DEF ReportInv
        <3>2. CASE c # b
            BY <1>1, <2>1, <2>2, <3>2, CountMore DEF ReportInv
        <3> QED BY <3>1, <3>2
    <2> QED BY <1>6, <1>9, <2>3
<1>11. ASSUME NEW c \in D
       PROVE  grouped'[c].japan <= totals'.japan
    <2>1. grouped[c].japan <= totals.japan /\ grouped[c].japan \in Nat
        BY <1>6, <1>9
    <2>2. grouped'[c].japan = grouped[c].japan + (IF c = b THEN d ELSE 0)
        BY <1>9
    <2> QED BY <1>7, <1>8, <2>1, <2>2
<1>12. ASSUME totals'.japan > 0 PROVE \E c \in D : grouped'[c].japan > 0
    <2>1. CASE totals.japan > 0
        <3>1. PICK c \in D : grouped[c].japan > 0
            BY <1>6, <2>1
        <3>2. grouped'[c].japan > 0
            BY <1>8, <1>9, <3>1
        <3> QED BY <3>2
    <2>2. CASE ~(totals.japan > 0)
        <3>1. d > 0
            BY <1>7, <1>8, <1>12, <2>2
        <3>2. grouped'[b].japan = grouped[b].japan + d /\ grouped[b].japan \in Nat
            BY <1>3, <1>9
        <3>3. grouped'[b].japan > 0
            BY <1>8, <3>1, <3>2
        <3> QED BY <1>3, <3>3
    <2> QED BY <2>1, <2>2
<1>13. SumBelow([c \in D |-> grouped'[c].japan], query.until) = totals'.japan
    <2> DEFINE f == [c \in D |-> grouped[c].japan]
               g == [c \in D |-> grouped'[c].japan]
    <2>1. \A c \in D : f[c] \in Nat /\ g[c] = IF c = b THEN f[c] + d ELSE f[c]
        BY <1>8, <1>9
    <2>2. DOMAIN f = D /\ DOMAIN g = D /\ b \in D /\ b \in 0..query.until - 1
          /\ query.until \in Nat
        <3>1. b \in 0..query.until - 1
            BY <1>3 DEF D
        <3> QED BY <1>2, <1>3, <3>1, RowAt
    <2> HIDE DEF f, g
    <2>3. SumBelow(g, query.until) = SumBelow(f, query.until) + d
        <3>1. /\ b \in DOMAIN f /\ DOMAIN f = DOMAIN g
              /\ \A c \in DOMAIN f : f[c] \in Nat
              /\ \A c \in DOMAIN f : g[c] = IF c = b THEN f[c] + d ELSE f[c]
            BY <2>1, <2>2
        <3> QED BY <1>8, <2>2, <3>1, SumAdds
    <2>4. SumBelow(f, query.until) = totals.japan
        BY <1>6 DEF f
    <2> QED BY <1>7, <2>3, <2>4 DEF g
<1>14. UNION {grouped'[c].calls : c \in D} = totals'.calls
    <2>1. \A c \in D : grouped'[c].calls
                = grouped[c].calls \cup (IF c = b THEN Named(row.call) ELSE {})
        BY <1>9
    <2>2. UNION {grouped'[c].calls : c \in D}
            = (UNION {grouped[c].calls : c \in D}) \cup Named(row.call)
        BY <1>3, <2>1
    <2> QED BY <1>6, <1>7, <2>2
<1>15. DOMAIN grouped' = D /\ D = {c \in 0..query'.until - 1 :
                            c % query'.width = 0 /\ c + query'.width > query'.since}
    BY <1>2, <1>5 DEF D
<1> QED BY <1>2, <1>9, <1>10, <1>11, <1>12, <1>13, <1>14, <1>15 DEF BucketsInv

-----------------------------------------------------------------------------
\* The hours of a day.
LEMMA HoursKeep ==
    ASSUME ReportInv, NEW row \in ReportRows, AddRow(row)
    PROVE  HoursInv'
<1> DEFINE hl == HourOf(row.at, query.zone)
           hu == HourOf(row.at, 0)
           H == 0..Hours - 1
           Z == {"local", "utc"}
           hr(z) == IF z = "local" THEN hl ELSE hu
<1>1. PICK n : RowAdded(row, n)
    BY RowIsAdded DEF ReportInv
<1>2. query' = query /\ query \in Queries /\ Selected(row)
    BY DEF AddRow, ReportInv
<1>3. /\ hourly \in [Z -> [H -> AnyMetrics]]
      /\ \A z \in Z : /\ \A h \in H : Within(hourly[z][h], totals.decodes)
                      /\ SumBelow([h \in H |-> hourly[z][h].decodes], Hours) = totals.decodes
      /\ \A h \in H : hourly["local"][h].decodes = Cardinality(OfHour(query.zone, h))
    BY DEF ReportInv, HoursInv
<1>4. totals'.decodes = totals.decodes + 1 /\ totals.decodes \in Nat
    BY TotalsKeep
<1>5. hl \in H /\ hu \in H
    <2>1. Hour \in Nat \ {0} /\ Hours \in Nat \ {0}
        BY ReportAssumption
    <2>2. ASSUME NEW x \in Int PROVE (x \div Hour) % Hours \in H
        <3> DEFINE q == x \div Hour
        <3>1. q \in Int
            BY <2>1, DivisionIs
        <3> HIDE DEF q
        <3>2. q % Hours \in H
            BY <2>1, <3>1, DivisionIs
        <3> QED BY <3>2 DEF q
    <2>3. row.at + query.zone \in Int /\ row.at + 0 \in Int
        <3>1. row.at \in Int /\ query.zone \in Zones
            BY <1>2, RowAt
        <3>2. Zones \subseteq Int
            BY <2>1, ReportAssumption
        <3>3. query.zone \in Int
            BY <3>1, <3>2
        <3> QED BY <3>1, <3>3
    <2> HIDE DEF H
    <2> QED BY <2>2, <2>3 DEF HourOf
<1> HIDE DEF hl, hu
<1>6. hourly' \in [Z -> [H -> AnyMetrics]] /\
      \A z \in Z : \A h \in H :
            hourly'[z][h] = IF h = hr(z) THEN Add(hourly[z][h], row) ELSE hourly[z][h]
    <2>1. hourly' = [hourly EXCEPT !["local"][hl] = Add(@, row), !["utc"][hu] = Add(@, row)]
        BY DEF AddRow, hl, hu
    <2>2. /\ DOMAIN hourly' = Z
          /\ hourly'["local"] = [hourly["local"] EXCEPT ![hl] = Add(@, row)]
          /\ hourly'["utc"] = [hourly["utc"] EXCEPT ![hu] = Add(@, row)]
        <3> HIDE DEF H
        <3> QED BY <1>3, <2>1
    <2>3. \A z \in Z : hourly'[z] = [hourly[z] EXCEPT ![hr(z)] = Add(@, row)]
        BY <2>2
    <2>4. ASSUME NEW z \in Z
          PROVE  hourly'[z] \in [H -> AnyMetrics] /\ \A h \in H :
                    hourly'[z][h] = IF h = hr(z) THEN Add(hourly[z][h], row) ELSE hourly[z][h]
        <3>1. hourly[z] \in [H -> AnyMetrics] /\ hr(z) \in H
            BY <1>3, <1>5
        <3>2. Add(hourly[z][hr(z)], row) \in AnyMetrics
            BY <1>3, <1>4, <3>1, WithinMore DEF Within
        <3> HIDE DEF H, hr
        <3> QED BY <2>3, <3>1, <3>2
    <2>5. hourly' = [z \in Z |-> hourly'[z]]
        <3> HIDE DEF H
        <3> QED BY <1>3, <2>1, <2>2
    <2> HIDE DEF H, Z
    <2> QED BY <2>4, <2>5
<1>7. ASSUME NEW z \in Z
      PROVE  /\ \A h \in H : Within(hourly'[z][h], totals'.decodes)
             /\ \A h \in H : hourly[z][h].decodes \in Nat
                    /\ hourly'[z][h].decodes = hourly[z][h].decodes + IF h = hr(z) THEN 1 ELSE 0
             /\ SumBelow([h \in H |-> hourly'[z][h].decodes], Hours) = totals'.decodes
    <2>1. ASSUME NEW h \in H
          PROVE  /\ Within(hourly'[z][h], totals'.decodes)
                 /\ hourly[z][h].decodes \in Nat
                 /\ hourly'[z][h].decodes = hourly[z][h].decodes + IF h = hr(z) THEN 1 ELSE 0
        <3>1. Within(hourly[z][h], totals.decodes)
            BY <1>3
        <3>2. hourly[z][h].decodes \in Nat
            BY <3>1 DEF Within, AnyMetrics
        <3>3. hourly'[z][h] = IF h = hr(z) THEN Add(hourly[z][h], row) ELSE hourly[z][h]
            BY <1>6
        <3> HIDE DEF hr
        <3> QED BY <1>4, <3>1, <3>2, <3>3, WithinMore
    <2> DEFINE f == [h \in H |-> hourly[z][h].decodes]
               g == [h \in H |-> hourly'[z][h].decodes]
               k == hr(z)
    <2>2. /\ DOMAIN f = H /\ DOMAIN g = H /\ k \in H /\ Hours \in Nat /\ k \in 0..Hours - 1
          /\ \A h \in H : f[h] \in Nat /\ g[h] = IF h = k THEN f[h] + 1 ELSE f[h]
        <3>1. Hours \in Nat
            BY ReportAssumption
        <3> QED BY <1>5, <2>1, <3>1
    <2> HIDE DEF f, g, k
    <2>3. SumBelow(g, Hours) = SumBelow(f, Hours) + 1
        <3>1. /\ k \in DOMAIN f /\ DOMAIN f = DOMAIN g /\ 1 \in Nat
              /\ \A h \in DOMAIN f : f[h] \in Nat
              /\ \A h \in DOMAIN f : g[h] = IF h = k THEN f[h] + 1 ELSE f[h]
            BY <2>2
        <3>2. Hours \in Nat /\ k \in 0..Hours - 1
            BY <2>2
        <3> HIDE DEF H, Z
        <3> QED BY <3>1, <3>2, SumAdds
    <2>4. SumBelow(f, Hours) = totals.decodes
        BY <1>3 DEF f
    <2>5. SumBelow(g, Hours) = totals'.decodes
        BY <1>4, <2>3, <2>4
    <2> QED BY <2>1, <2>5 DEF g
<1>8. ASSUME NEW h \in H
      PROVE  hourly'["local"][h].decodes = Cardinality(OfHour(query.zone, h)')
    <2>1. OfHour(query.zone, h) \subseteq read
        BY DEF OfHour
    <2>2. OfHour(query.zone, h)' = IF h = hl THEN OfHour(query.zone, h) \cup {n}
                                  ELSE OfHour(query.zone, h)
        BY <1>1, <1>2 DEF OfHour, RowAdded, hl
    <2>3. Cardinality(OfHour(query.zone, h)')
            = Cardinality(OfHour(query.zone, h)) + IF h = hl THEN 1 ELSE 0
        <3>1. CASE h = hl
            BY <1>1, <2>1, <2>2, <3>1, CountMore DEF ReportInv
        <3>2. CASE h # hl
            BY <1>1, <2>1, <2>2, <3>2, CountMore DEF ReportInv
        <3> QED BY <3>1, <3>2
    <2>4. hourly'["local"][h].decodes = hourly["local"][h].decodes + IF h = hl THEN 1 ELSE 0
        BY <1>7
    <2> QED BY <1>3, <2>3, <2>4
<1> HIDE DEF H
<1> QED BY <1>2, <1>6, <1>7, <1>8 DEF HoursInv, H

-----------------------------------------------------------------------------
\* Before the first row.
LEMMA ReportStart == ReportInit => ReportInv
<1> SUFFICES ASSUME ReportInit PROVE ReportInv
    OBVIOUS
<1>1. /\ Hour \in Nat \ {0} /\ Hours \in Nat \ {0} /\ MaxInstant \in Nat /\ MaxReport \in Nat
    BY ReportAssumption
<1>2. PICK since \in Instants, until \in Instants, width \in {1, 2, Hour}, zone \in Zones :
          /\ since < until
          /\ query = [since |-> since, until |-> until, width |-> width, zone |-> zone]
          /\ grouped = [b \in Padded(since, until, width) |-> NoMetrics]
    BY DEF ReportInit
<1>3. width \in Nat \ {0}
    BY <1>1
<1>4. /\ query \in Queries
      /\ query.since = since /\ query.until = until /\ query.width = width
    BY <1>2, <1>3 DEF Queries
<1>5. read = {} /\ totals = NoMetrics
    BY DEF ReportInit
<1>6. /\ NoMetrics \in AnyMetrics /\ NoMetrics.decodes = 0 /\ NoMetrics.japan = 0
      /\ NoMetrics.calls = {} /\ \A n \in Nat : Within(NoMetrics, n)
    BY DEF NoMetrics, AnyMetrics, Within
<1>7. RowsInv
    BY <1>5, FS_EmptySet DEF RowsInv
<1>8. TotalsInv
    <2>1. Cardinality({}) = 0
        BY FS_EmptySet
    <2>2. /\ {r \in read : r[1].japan} = {}
          /\ \A f : {(IF r[1].call = Empty THEN Null ELSE r[1].call) : r \in {}} = {}
        BY <1>5
    <2>3. LifetimeTotals = NoMetrics
        BY <1>5, <2>1, <2>2 DEF LifetimeTotals, NoMetrics
    <2> QED BY <1>1, <1>5, <1>6, <2>3 DEF TotalsInv
<1>9. BucketsInv
    <2> DEFINE D == {b \in 0..query.until - 1 :
                            b % query.width = 0 /\ b + query.width > query.since}
    <2>1. DOMAIN grouped = D /\ \A b \in D : grouped[b] = NoMetrics
        <3>1. DOMAIN grouped = Padded(since, until, width)
              /\ \A b \in Padded(since, until, width) : grouped[b] = NoMetrics
            BY <1>2
        <3>2. Padded(since, until, width)
                = {b \in 0..until - 1 : b % width = 0 /\ b + width > since}
            BY <1>2, <1>3, PaddedIs
        <3> QED BY <1>4, <3>1, <3>2
    <2> HIDE DEF D
    <2>2. ASSUME NEW b \in D
          PROVE  /\ Within(grouped[b], totals.decodes)
                 /\ grouped[b].decodes = Cardinality(OfBucket(b))
                 /\ grouped[b].japan <= totals.japan
        <3>1. OfBucket(b) = {} /\ Cardinality({}) = 0
            BY <1>5, FS_EmptySet DEF OfBucket
        <3> QED BY <1>5, <1>6, <2>1, <3>1
    <2>3. SumBelow([b \in D |-> grouped[b].japan], query.until) = totals.japan
        <3> DEFINE f == [b \in D |-> grouped[b].japan]
        <3>1. \A b \in DOMAIN f : f[b] = 0
            BY <1>6, <2>1
        <3>2. query.until \in Nat
            BY <1>1, <1>4 DEF Instants
        <3> HIDE DEF f
        <3>3. SumBelow(f, query.until) = 0
            BY <3>1, <3>2, SumOfZeros
        <3> QED BY <1>5, <1>6, <3>3 DEF f
    <2>4. UNION {grouped[b].calls : b \in D} = totals.calls
        BY <1>5, <1>6, <2>1
    <2> QED BY <1>5, <1>6, <2>1, <2>2, <2>3, <2>4 DEF BucketsInv, D
<1>10. HoursInv
    <2> DEFINE H == 0..Hours - 1
    <2>1. hourly = [z \in {"local", "utc"} |-> [h \in H |-> NoMetrics]]
        BY DEF ReportInit
    <2> HIDE DEF H
    <2>2. hourly \in [{"local", "utc"} -> [H -> AnyMetrics]]
        BY <1>6, <2>1
    <2>3. ASSUME NEW z \in {"local", "utc"}
          PROVE  /\ \A h \in H : Within(hourly[z][h], totals.decodes)
                 /\ SumBelow([h \in H |-> hourly[z][h].decodes], Hours) = totals.decodes
        <3>1. \A h \in H : hourly[z][h] = NoMetrics
            BY <2>1
        <3> DEFINE f == [h \in H |-> hourly[z][h].decodes]
        <3>2. \A h \in DOMAIN f : f[h] = 0
            BY <1>6, <3>1
        <3> HIDE DEF f
        <3>3. SumBelow(f, Hours) = 0
            BY <1>1, <3>2, SumOfZeros
        <3>4. \A h \in H : Within(hourly[z][h], totals.decodes)
            BY <1>5, <1>6, <3>1
        <3> QED BY <1>5, <1>6, <3>3, <3>4 DEF f
    <2>4. ASSUME NEW h \in H
          PROVE  hourly["local"][h].decodes = Cardinality(OfHour(query.zone, h))
        <3>1. OfHour(query.zone, h) = {} /\ Cardinality({}) = 0
            BY <1>5, FS_EmptySet DEF OfHour
        <3>2. hourly["local"][h] = NoMetrics
            BY <2>1
        <3> QED BY <1>6, <3>1, <3>2
    <2> QED BY <2>2, <2>3, <2>4 DEF HoursInv, H
<1> QED BY <1>4, <1>7, <1>8, <1>9, <1>10 DEF ReportInv

LEMMA ReportStep == ReportInv /\ [ReportNext]_reportVars => ReportInv'
<1> SUFFICES ASSUME ReportInv, [ReportNext]_reportVars PROVE ReportInv'
    OBVIOUS
<1>1. ASSUME NEW row \in ReportRows, AddRow(row) PROVE ReportInv'
    <2>1. RowsInv' /\ TotalsInv' /\ BucketsInv' /\ HoursInv'
        BY <1>1, RowIsAdded, TotalsKeep, BucketsKeep, HoursKeep DEF ReportInv
    <2>2. (query \in Queries)'
        BY <1>1 DEF ReportInv, AddRow, Queries, Instants
    <2> QED BY <2>1, <2>2 DEF ReportInv
<1>2. CASE UNCHANGED reportVars
    <2>1. /\ query' = query /\ read' = read /\ grouped' = grouped
          /\ totals' = totals /\ hourly' = hourly
        BY <1>2 DEF reportVars
    <2>2. \A z, h : OfHour(z, h)' = OfHour(z, h)
        BY <2>1 DEF OfHour
    <2>3. \A b : OfBucket(b)' = OfBucket(b)
        BY <2>1 DEF OfBucket
    <2>4. RowsInv'
        BY <2>1 DEF ReportInv, RowsInv, Selected
    <2>5. TotalsInv'
        BY <2>1 DEF ReportInv, TotalsInv, LifetimeTotals
    <2>6. BucketsInv'
        BY <2>1, <2>3 DEF ReportInv, BucketsInv
    <2>7. HoursInv'
        BY <2>1, <2>2 DEF ReportInv, HoursInv
    <2> QED BY <2>1, <2>4, <2>5, <2>6, <2>7 DEF ReportInv, Queries
<1> QED BY <1>1, <1>2 DEF ReportNext

-----------------------------------------------------------------------------
\* The loop that looks for the peak, and what it has found when it is past b.
IsPeakOf(f, N) ==
    f = [b \in 0..N |->
            IF b = 0 THEN -1
            ELSE IF b - 1 \in DOMAIN grouped /\ grouped[b - 1].japan > 0
                    /\ (f[b - 1] = -1 \/ Exceeds(b - 1, f[b - 1])) THEN b - 1
            ELSE f[b - 1]]

FirstPeak(p, b) ==
    IF \A c \in DOMAIN grouped : c < b => grouped[c].japan = 0 THEN p = -1
    ELSE /\ p \in DOMAIN grouped /\ p < b /\ grouped[p].japan > 0
         /\ \A c \in DOMAIN grouped :
               c < b => /\ grouped[c].japan <= grouped[p].japan
                        /\ c < p => grouped[c].japan < grouped[p].japan

LEMMA PeakExists ==
    ASSUME NEW N \in Nat
    PROVE  \E f : IsPeakOf(f, N)
<1> DEFINE Found(g, b) ==
               IF b - 1 \in DOMAIN grouped /\ grouped[b - 1].japan > 0
                  /\ (g[b - 1] = -1 \/ Exceeds(b - 1, g[b - 1])) THEN b - 1
               ELSE g[b - 1]
           Is(f, n) == f = [b \in 0..n |-> IF b = 0 THEN -1 ELSE Found(f, b)]
           Bad == {n \in Nat : ~\E f : Is(f, n)}
<1> SUFFICES ASSUME Bad # {} PROVE FALSE
    BY DEF IsPeakOf
<1>1. PICK m \in Bad : \A n \in Bad : m <= n
    <2>1. Bad \subseteq Nat
        OBVIOUS
    <2> HIDE DEF Bad
    <2> QED BY <2>1, LeastNumber
<1>2. m # 0
    <2>1. Is([b \in 0..0 |-> -1], 0)
        <3> HIDE DEF Found
        <3> QED OBVIOUS
    <2> HIDE DEF Is
    <2> QED BY <2>1
<1>3. PICK g : Is(g, m - 1)
    <2> HIDE DEF Is
    <2>1. m - 1 \in Nat /\ m - 1 < m /\ m \in Nat
        BY <1>2
    <2>2. m - 1 \notin Bad
        <3> SUFFICES ASSUME m - 1 \in Bad PROVE FALSE
            OBVIOUS
        <3>1. m <= m - 1
            BY <1>1
        <3> HIDE DEF Bad
        <3> QED BY <2>1, <3>1
    <2> QED BY <2>1, <2>2
<1> DEFINE f == [b \in 0..m |-> IF b = 0 THEN -1 ELSE Found(g, b)]
<1>4. \A b \in 0..(m - 1) : f[b] = g[b]
    <2> HIDE DEF Found
    <2> QED BY <1>2, <1>3
<1>5. \A b \in 0..m : b # 0 => Found(g, b) = Found(f, b)
    <2> HIDE DEF f
    <2>1. \A b \in 0..m : b # 0 => g[b - 1] = f[b - 1]
        BY <1>2, <1>4
    <2> QED BY <2>1
<1>6. Is(f, m)
    <2> HIDE DEF Found
    <2> QED BY <1>5
<1>7. ~\E h : Is(h, m)
    OBVIOUS
<1> HIDE DEF Is, f
<1> QED BY <1>6, <1>7

LEMMA PeakFound ==
    ASSUME ReportInv
    PROVE  FirstPeak(Peak, query.until)
<1>1. query.until \in Nat
    BY ReportAssumption DEF ReportInv, Queries, Instants
<1> DEFINE peak == CHOOSE f : IsPeakOf(f, query.until)
<1>2. IsPeakOf(peak, query.until)
    BY <1>1, PeakExists
<1>3. Peak = peak[query.until]
    BY DEF Peak, IsPeakOf
<1> HIDE DEF peak
<1>4. \A c \in DOMAIN grouped : c \in Nat /\ grouped[c].japan \in Nat
    BY <1>1 DEF ReportInv, BucketsInv, Within, AnyMetrics
<1> DEFINE Bad == {b \in 0..query.until : ~FirstPeak(peak[b], b)}
<1> SUFFICES ASSUME Bad # {} PROVE FALSE
    BY <1>1, <1>3
<1>5. PICK b \in Bad : \A c \in Bad : b <= c
    <2>1. Bad \subseteq Nat
        BY <1>1
    <2> HIDE DEF Bad
    <2> QED BY <2>1, LeastNumber
<1>6. b # 0
    <2>1. peak[0] = -1
        BY <1>1, <1>2 DEF IsPeakOf
    <2>2. FirstPeak(-1, 0)
        BY <1>4 DEF FirstPeak
    <2> QED BY <2>1, <2>2
<1>7. b \in Nat /\ b - 1 \in Nat /\ b - 1 \in 0..query.until
    BY <1>1, <1>6
<1>8. FirstPeak(peak[b - 1], b - 1)
    BY <1>5, <1>7
<1>9. ~FirstPeak(peak[b], b)
    OBVIOUS
<1> DEFINE a == b - 1
           p == peak[b - 1]
           found == a \in DOMAIN grouped /\ grouped[a].japan > 0 /\ (p = -1 \/ Exceeds(a, p))
<1>10. peak[b] = IF found THEN a ELSE p
    BY <1>1, <1>2, <1>6 DEF IsPeakOf
<1> HIDE DEF Bad, p
<1>11. \A c \in DOMAIN grouped : c < b <=> c < a \/ c = a
    BY <1>4, <1>7
<1>12. -1 \notin DOMAIN grouped
    BY <1>4
<1> HIDE DEF a
<1>13. FirstPeak(p, a) /\ a \in Nat
    BY <1>7, <1>8 DEF a, p
<1>14. CASE \A c \in DOMAIN grouped : c < a => grouped[c].japan = 0
    <2>1. p = -1
        BY <1>13, <1>14 DEF FirstPeak
    <2>2. CASE found
        <3>1. FirstPeak(a, b)
            BY <1>4, <1>11, <1>13, <1>14, <2>2 DEF FirstPeak
        <3> QED BY <1>9, <1>10, <2>2, <3>1
    <2>3. CASE ~found
        <3>1. a \in DOMAIN grouped => grouped[a].japan = 0
            BY <1>4, <2>1, <2>3
        <3>2. FirstPeak(p, b)
            BY <1>11, <1>14, <2>1, <3>1 DEF FirstPeak
        <3> QED BY <1>9, <1>10, <2>3, <3>2
    <2> QED BY <2>2, <2>3
<1>15. CASE ~\A c \in DOMAIN grouped : c < a => grouped[c].japan = 0
    <2>1. /\ p \in DOMAIN grouped /\ p < a /\ grouped[p].japan > 0
          /\ \A c \in DOMAIN grouped :
                c < a => /\ grouped[c].japan <= grouped[p].japan
                         /\ c < p => grouped[c].japan < grouped[p].japan
        BY <1>13, <1>15 DEF FirstPeak
    <2>2. p # -1
        BY <1>12, <2>1
    <2>3. ~\A c \in DOMAIN grouped : c < b => grouped[c].japan = 0
        BY <1>11, <1>15
    <2>4. CASE found
        <3>1. a \in DOMAIN grouped /\ grouped[a].japan > grouped[p].japan
            BY <2>2, <2>4 DEF Exceeds
        <3>2. \A c \in DOMAIN grouped : c < a => grouped[c].japan < grouped[a].japan
            BY <1>4, <2>1, <3>1
        <3>3. a < b /\ grouped[a].japan > 0
            BY <1>7, <2>4 DEF a
        <3>4. FirstPeak(a, b)
            BY <1>4, <1>11, <2>3, <3>1, <3>2, <3>3 DEF FirstPeak
        <3> QED BY <1>9, <1>10, <2>4, <3>4
    <2>5. CASE ~found
        <3>1. a \in DOMAIN grouped => grouped[a].japan <= grouped[p].japan
            BY <1>4, <2>1, <2>2, <2>5 DEF Exceeds
        <3>2. p < b /\ ~(a < p)
            BY <1>4, <1>11, <1>13, <2>1
        <3>3. FirstPeak(p, b)
            BY <1>11, <2>1, <2>3, <3>1, <3>2 DEF FirstPeak
        <3> QED BY <1>9, <1>10, <2>5, <3>3
    <2> QED BY <2>4, <2>5
<1> QED BY <1>14, <1>15

-----------------------------------------------------------------------------
LEMMA ReportHolds ==
    ASSUME ReportInv
    PROVE  ReportTypeOK /\ ReportOfItsRows
<1>1. /\ Hour \in Nat \ {0} /\ Hours \in Nat \ {0} /\ MaxInstant \in Nat /\ MaxReport \in Nat
    BY ReportAssumption
<1>2. totals.decodes \in 0..MaxReport /\ totals.japan \in Nat /\ totals.decodes \in Nat
    BY <1>1 DEF ReportInv, TotalsInv, Within, AnyMetrics
<1>3. query.until \in Nat /\ query.until <= MaxInstant
    BY <1>1 DEF ReportInv, Queries, Instants
<1>4. ASSUME NEW m, NEW n \in Nat, n <= MaxReport, Within(m, n) PROVE m \in Metrics
    BY <1>1, <1>4 DEF Within, AnyMetrics, Metrics
<1>5. ReportTypeOK
    <2>1. totals \in Metrics
        BY <1>1, <1>4 DEF ReportInv, TotalsInv
    <2>2. DOMAIN grouped \subseteq 0..MaxInstant + Hour
        BY <1>1, <1>3 DEF ReportInv, BucketsInv
    <2>3. \A b \in DOMAIN grouped : grouped[b] \in Metrics
        BY <1>2, <1>4 DEF ReportInv, BucketsInv
    <2>4. DOMAIN hourly = {"local", "utc"}
        BY DEF ReportInv, HoursInv
    <2>5. ASSUME NEW z \in {"local", "utc"} PROVE hourly[z] \in [0..Hours - 1 -> Metrics]
        <3> DEFINE H == 0..Hours - 1
        <3>1. hourly[z] \in [H -> AnyMetrics] /\ \A h \in H : Within(hourly[z][h], totals.decodes)
            BY DEF ReportInv, HoursInv
        <3> HIDE DEF H
        <3>2. \A h \in H : hourly[z][h] \in Metrics
            BY <1>2, <1>4, <3>1
        <3> QED BY <3>1, <3>2 DEF H
    <2> QED BY <2>1, <2>2, <2>3, <2>4, <2>5 DEF ReportTypeOK
<1>6. BucketOfItsRows
    BY DEF ReportInv, BucketsInv, BucketOfItsRows, OfBucket
<1>7. HourOfItsRows
    <2> SUFFICES ASSUME NEW h \in 0..Hours - 1
                 PROVE  hourly["local"][h].decodes =
                            Cardinality({r \in read : \E day \in -1..MaxInstant + 1 :
                               (r[1].at + query.zone) - (day * Hours + h) * Hour \in 0..Hour - 1})
        BY DEF HourOfItsRows
    <2>1. OfHour(query.zone, h)
            = {r \in read : \E day \in -1..MaxInstant + 1 :
                               (r[1].at + query.zone) - (day * Hours + h) * Hour \in 0..Hour - 1}
        <3> DEFINE P(r) == \E day \in -1..MaxInstant + 1 :
                               (r[1].at + query.zone) - (day * Hours + h) * Hour \in 0..Hour - 1
        <3>1. query.zone \in Zones
            BY DEF ReportInv, Queries
        <3>2. ASSUME NEW r \in read PROVE HourOf(r[1].at, query.zone) = h <=> P(r)
            <4>1. r[1].at \in Instants
                BY DEF ReportInv, RowsInv, ReportRows
            <4> QED BY <3>1, <4>1, HourIs
        <3> HIDE DEF P
        <3>3. OfHour(query.zone, h) = {r \in read : P(r)}
            BY <3>2 DEF OfHour
        <3> QED BY <3>3 DEF P
    <2>2. hourly["local"][h].decodes = Cardinality(OfHour(query.zone, h))
        BY DEF ReportInv, HoursInv
    <2> QED BY <2>1, <2>2
<1>8. AddsUp
    BY DEF ReportInv, TotalsInv, BucketsInv, HoursInv, AddsUp
<1>9. PeakIsFirst
    <2>1. FirstPeak(Peak, query.until)
        BY PeakFound
    <2>2. \A b \in DOMAIN grouped : b < query.until /\ grouped[b].japan \in Nat
                                    /\ grouped[b].japan <= totals.japan
        BY <1>3 DEF ReportInv, BucketsInv, Within, AnyMetrics
    <2>3. totals.japan > 0 => \E b \in DOMAIN grouped : grouped[b].japan > 0
        BY DEF ReportInv, BucketsInv
    <2>4. CASE totals.japan = 0
        <3>1. \A b \in DOMAIN grouped : grouped[b].japan = 0
            BY <2>2, <2>4
        <3> QED BY <2>1, <2>4, <3>1 DEF FirstPeak, PeakIsFirst
    <2>5. CASE totals.japan # 0
        <3>1. PICK b \in DOMAIN grouped : grouped[b].japan > 0
            BY <1>2, <2>3, <2>5
        <3>2. ~\A c \in DOMAIN grouped : c < query.until => grouped[c].japan = 0
            BY <2>2, <3>1
        <3> QED BY <2>1, <2>2, <2>5, <3>2 DEF FirstPeak, PeakIsFirst
    <2> QED BY <2>4, <2>5
<1> QED BY <1>5, <1>6, <1>7, <1>8, <1>9 DEF ReportOfItsRows

\* Buckets, hours, totals and the peak of every report tell of the same rows, whatever
\* the window, the width of the buckets and the zone, and in whatever order the rows
\* come: every row is in the bucket and the hour of its own time, buckets and hours add
\* up to the totals and to the panel of all time, and the peak is the first greatest.
THEOREM ReportIsOfItsRows == ReportSpec => [](ReportTypeOK /\ ReportOfItsRows)
<1>1. ReportInv => ReportTypeOK /\ ReportOfItsRows
    BY ReportHolds
<1> QED BY ReportStart, ReportStep, <1>1, PTL DEF ReportSpec
=============================================================================
