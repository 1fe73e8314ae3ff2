--------------------------- MODULE ObservationPages ---------------------------
(***************************************************************************)
(* Paging through the observations while the logger stores more            *)
(* (list_observations of database/repository.py, GET /api/observations,    *)
(* and the loop over its pages in scripts/verify-headless.py).  A page is  *)
(* two statements, each with its own view of the table: the count, and the *)
(* rows from an offset, the latest first.  Rows come at any time, with any *)
(* time of decoding; none is changed or deleted.                           *)
(***************************************************************************)
EXTENDS Naturals, FiniteSets, Sequences

CONSTANTS PageTimes,  \* decode times
          Limit,      \* rows on a page
          MaxRows     \* bound: the table

ASSUME PagesAssumption == PageTimes \subseteq Nat /\ Limit \in Nat \ {0} /\ MaxRows \in Nat

VARIABLES table,     \* the decode time of each observation; its id is its place
          before,    \* (history) the rows that were there when the reader began
          offset,    \* rows on the pages so far
          total,     \* what the last page counted
          collected, \* the rows on the pages so far
          late,      \* (history) rows that came between the last count and its rows
          pages      \* what the reader does: "start", "count", "rows", "over" or "refused"

pageVars == <<table, before, offset, total, collected, late, pages>>

PagesTypeOK ==
    /\ table \in Seq(PageTimes) /\ before \subseteq 1..Len(table)
    /\ offset \in 0..Len(table) /\ total \in 0..Len(table) /\ late \in 0..Len(table)
    /\ collected \subseteq 1..Len(table)
    /\ pages \in {"start", "count", "rows", "over", "refused"}

PagesInit ==
    /\ table = <<>> /\ before = {} /\ offset = 0 /\ total = 0 /\ collected = {} /\ late = 0
    /\ pages = "start"

\* ingest_raw or ingest_file_batch
Insert(at) ==
    /\ Len(table) < MaxRows
    /\ table' = Append(table, at)
    /\ late' = IF pages = "rows" THEN late + 1 ELSE late
    /\ UNCHANGED <<before, offset, total, collected, pages>>

BeginPages ==
    /\ pages = "start" /\ pages' = "count"
    /\ before' = 1..Len(table)
    /\ UNCHANGED <<table, offset, total, collected, late>>

\* The first statement of list_observations.
Count ==
    /\ pages = "count" /\ pages' = "rows"
    /\ total' = Len(table) /\ late' = 0
    /\ UNCHANGED <<table, before, offset, collected>>

\* i stands before j: ORDER BY timestamp_utc DESC, id DESC.
Later(i, j) == table[i] > table[j] \/ (table[i] = table[j] /\ i > j)

\* Where the query has the i-th row, from 0.
Place(i) == Cardinality({j \in 1..Len(table) : Later(j, i)})

\* (mutant) The limit is where the page ends, as in rows[offset:limit].
PageRowsToLimit == {i \in 1..Len(table) : offset <= Place(i) /\ Place(i) < Limit}

\* The second statement: LIMIT and OFFSET.
PageRows == {i \in 1..Len(table) : offset <= Place(i) /\ Place(i) < offset + Limit}

NextOffset(rows) == offset + Cardinality(rows)

\* The reader takes the page; it goes on until the offset reaches the count, and
\* refuses a page without rows before.
TakePage(rows) ==
    /\ pages = "rows"
    /\ collected' = collected \cup rows
    /\ offset' = NextOffset(rows)
    /\ pages' = IF NextOffset(rows) >= total THEN "over"
                ELSE IF rows = {} THEN "refused" ELSE "count"
    /\ UNCHANGED <<table, before, total, late>>

PagesNext ==
    \/ \E at \in PageTimes : Insert(at)
    \/ BeginPages \/ Count \/ TakePage(PageRows)

PagesSpec == PagesInit /\ [][PagesNext]_pageVars

-----------------------------------------------------------------------------
\* No page passes over a row that was there from the start: rows that come move
\* others down, onto the next pages, and never up, onto those that were read.
NeverPassedOver ==
    pages \in {"count", "rows"} => \A i \in before \ collected : Place(i) >= offset

\* At the end, rows can be missing only through those that came between the
\* last count and the last page, and no more of them.
MissingOnlyLate == pages = "over" => Cardinality(before \ collected) <= late

\* The reader's complaint of a page without rows before the count is never due.
NeverRefused == pages # "refused"

\* A list that is read to its end has every row that it could have: the reader stops
\* neither early nor for nothing.
PagesMissOnlyLate == NeverPassedOver /\ MissingOnlyLate /\ NeverRefused
=============================================================================
