----------------------------- MODULE HourReport -----------------------------
(***************************************************************************)
(* The Japan hour report (japan_hour_buckets of analytics/japan_hour.py)   *)
(* and the totals beside it, while the rows of one SELECT come in, in any  *)
(* order.  Time is in quarters of an hour; every bucket is a part of an    *)
(* hour.  Countries, signal strengths and distances are left out.          *)
(***************************************************************************)
EXTENDS Integers, FiniteSets

CONSTANTS CallNames,  \* callsigns
          Null,       \* a row without callsign
          Empty,      \* a row with an empty one
          Hour,       \* ticks of an hour
          Hours,      \* hours of a day (24)
          Zones,      \* distances of local time from UTC, in ticks, without clock changes;
                      \* less than a day, as datetime has them
          MaxInstant, \* bound: decode times
          MaxReport   \* bound: rows

ASSUME ReportAssumption ==
    /\ {Hour, Hours} \subseteq Nat \ {0}
    /\ Zones \subseteq -(Hour * Hours - 1)..Hour * Hours - 1
    /\ MaxInstant \in Nat /\ MaxReport \in Nat

VARIABLES
    query,    \* since, until, bucket_minutes and display_timezone
    read,     \* (history) the rows so far, equal ones numbered
    grouped,  \* the buckets that have begun, and their metrics
    totals,
    hourly    \* time_of_day_local, time_of_day_utc

reportVars == <<query, read, grouped, totals, hourly>>

Instants == 0..MaxInstant
ReportRows     == [at : Instants, call : CallNames \cup {Null, Empty}, japan : BOOLEAN]
Metrics  == [decodes : 0..MaxReport, japan : 0..MaxReport,
             calls : SUBSET CallNames, japanCalls : SUBSET CallNames]
NoMetrics == [decodes |-> 0, japan |-> 0, calls |-> {}, japanCalls |-> {}]

ReportTypeOK ==
    /\ DOMAIN grouped \subseteq 0..MaxInstant + Hour
    /\ \A b \in DOMAIN grouped : grouped[b] \in Metrics
    /\ totals \in Metrics
    /\ DOMAIN hourly = {"local", "utc"}
    /\ \A z \in {"local", "utc"} : hourly[z] \in [0..Hours - 1 -> Metrics]

-----------------------------------------------------------------------------
\* (mutant) Buckets are counted from the begin of the window.
FloorFromSince(t, width) == query.since + ((t - query.since) \div width) * width

\* floor_bucket
Floor(t, width) == (t \div width) * width

\* The buckets that a window has, whether or not it has rows.
Padded(since, until, width) ==
    {b \in Instants : b % width = 0 /\ Floor(since, width) <= b /\ b < until}

ReportInit ==
    /\ \E since \in Instants, until \in Instants, width \in {1, 2, Hour}, zone \in Zones :
          /\ since < until
          /\ query = [since |-> since, until |-> until, width |-> width, zone |-> zone]
          /\ grouped = [b \in Padded(since, until, width) |-> NoMetrics]
    /\ read = {} /\ totals = NoMetrics
    /\ hourly = [z \in {"local", "utc"} |-> [h \in 0..Hours - 1 |-> NoMetrics]]

\* if row.tx_callsign
Named(call) == {call} \ {Null, Empty}

\* _Metrics.add and _HourlyCounts.add
Add(m, row) ==
    [decodes    |-> m.decodes + 1,
     japan      |-> m.japan + IF row.japan THEN 1 ELSE 0,
     calls      |-> m.calls \cup Named(row.call),
     japanCalls |-> m.japanCalls \cup IF row.japan THEN Named(row.call) ELSE {}]

\* _metric_rows
Selected(row) == query.since <= row.at /\ row.at < query.until

\* The hour of the day at the time, in a zone that is so far from UTC.
HourOf(t, zone) == ((t + zone) \div Hour) % Hours

\* The next row; a bucket that is not padded begins with its first row.
AddRow(row) ==
    LET begin == Floor(row.at, query.width)
        before == IF begin \in DOMAIN grouped THEN grouped[begin] ELSE NoMetrics
    IN /\ Selected(row) /\ totals.decodes < MaxReport
       /\ read' = read \cup {<<row, Cardinality({r \in read : r[1] = row}) + 1>>}
       /\ grouped' = [x \in DOMAIN grouped \cup {begin} |->
                         IF x = begin THEN Add(before, row) ELSE grouped[x]]
       /\ totals' = Add(totals, row)
       /\ hourly' = [hourly EXCEPT !["local"][HourOf(row.at, query.zone)] = Add(@, row),
                                   !["utc"][HourOf(row.at, 0)] = Add(@, row)]
       /\ UNCHANGED query

ReportNext == \E row \in ReportRows : AddRow(row)

Exceeds(b, c) == grouped[b].japan > grouped[c].japan

\* The loop over the sorted buckets: the peak of those before b, -1: none yet.
Peak ==
    LET peak[b \in 0..query.until] ==
            IF b = 0 THEN -1
            ELSE IF b - 1 \in DOMAIN grouped /\ grouped[b - 1].japan > 0
                    /\ (peak[b - 1] = -1 \/ Exceeds(b - 1, peak[b - 1])) THEN b - 1
            ELSE peak[b - 1]
    IN peak[query.until]

\* lifetime_totals: the same in SQL, of every row; NULLIF makes empty names NULL,
\* which COUNT leaves out.
LifetimeTotals ==
    LET nullif(call) == IF call = Empty THEN Null ELSE call
        japan == {r \in read : r[1].japan}
    IN [decodes    |-> Cardinality(read),
        japan      |-> Cardinality(japan),
        calls      |-> {nullif(r[1].call) : r \in read} \ {Null},
        japanCalls |-> {nullif(r[1].call) : r \in japan} \ {Null}]

-----------------------------------------------------------------------------
\* f[0] + ... + f[n - 1], of those that there are.
SumBelow(f, n) ==
    LET sum[i \in 0..n] ==
            IF i = 0 THEN 0
            ELSE sum[i - 1] + IF i - 1 \in DOMAIN f THEN f[i - 1] ELSE 0
    IN sum[n]

\* Every row of the window is in one bucket, that of its time, and every bucket
\* of the window is there, from the first one, which may begin before it.
BucketOfItsRows ==
    /\ DOMAIN grouped = {b \in 0..query.until - 1 :
                            b % query.width = 0 /\ b + query.width > query.since}
    /\ \A b \in DOMAIN grouped :
          grouped[b].decodes =
              Cardinality({r \in read : b <= r[1].at /\ r[1].at < b + query.width})

\* The buckets and the hours of a day both add up to the totals, and to what the
\* panel of all time counts in SQL, if all rows are in the window.
AddsUp ==
    /\ totals = LifetimeTotals
    /\ SumBelow([b \in DOMAIN grouped |-> grouped[b].japan], query.until) = totals.japan
    /\ UNION {grouped[b].calls : b \in DOMAIN grouped} = totals.calls
    /\ \A z \in {"local", "utc"} :
          SumBelow([h \in 0..Hours - 1 |-> hourly[z][h].decodes], Hours) = totals.decodes

\* A row counts for the hour of its own time, whatever hour its bucket began in.
HourOfItsRows ==
    \A h \in 0..Hours - 1 :
        hourly["local"][h].decodes =
            Cardinality({r \in read : \E day \in -1..MaxInstant + 1 :
                            (r[1].at + query.zone) - (day * Hours + h) * Hour \in 0..Hour - 1})

\* The peak is the first of the buckets with most decodes from Japan.
PeakIsFirst ==
    IF totals.japan = 0 THEN Peak = -1
    ELSE \A b \in DOMAIN grouped : /\ grouped[b].japan <= grouped[Peak].japan
                                   /\ b < Peak => grouped[b].japan < grouped[Peak].japan

\* Buckets, hours, totals and the peak of a report all tell of the same rows.
ReportOfItsRows == BucketOfItsRows /\ HourOfItsRows /\ AddsUp /\ PeakIsFirst
=============================================================================
