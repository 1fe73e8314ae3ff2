------------------------------ MODULE Stations ------------------------------
(***************************************************************************)
(* Storing decodes (ingest.py, ingest_raw and ingest_file_batch, with      *)
(* enrichment/pipeline.py, enrichment/station_cache.py and                 *)
(* database/repository.py).  A decode is enriched from the station cache,  *)
(* which lives as long as the process and is keyed by the full callsign,   *)
(* and which the enrichment itself updates; then its observation is stored *)
(* together with the summary of its station, which is keyed by the base    *)
(* callsign.  Decodes come in any order of time: a replay stores old ones  *)
(* behind new ones.                                                        *)
(*                                                                         *)
(* One thread of one process stores at a time (Deployment); a decode has   *)
(* passed the suppression of repetitions (NetworkDedupe).                  *)
(***************************************************************************)
EXTENDS Naturals, Sequences, FiniteSets, FiniteSetsExt

CONSTANTS Calls,       \* full callsigns
          NoCall,      \* of a decode without one, or whose enrichment failed
          Bases,       \* base callsigns
          BaseOf,      \* extract_base_call
          Grids,       \* grids
          NoGrid,      \* no grid
          Times,       \* decode times
          MaxLog,      \* bound: decodes that are handled
          MaxBatch,    \* bound: lines of a batch
          MaxSessions  \* bound: starts of the process

ASSUME StationsAssumption ==
    /\ NoCall \notin Calls /\ NoGrid \notin Grids
    /\ BaseOf \in [Calls -> Bases]
    /\ Times \subseteq Nat /\ MaxLog \in Nat /\ MaxBatch \in Nat /\ MaxSessions \in Nat

VARIABLES cache,    \* StationCache.stations
          stations, \* the table of stations
          opened,   \* sessions that were opened: the last one has this number
          session,  \* active_session_id, 0 while no process runs
          ended,    \* sessions with an ended_at
          log       \* (history) every decode, enriched, with its session and whether it was stored

stationVars == <<cache, stations, opened, session, ended, log>>

Unheard == [count |-> 0, first |-> 0, last |-> 0, grid |-> NoGrid]
Summary == [count : 0..MaxLog, first : Times \cup {0}, last : Times \cup {0},
            grid : Grids \cup {NoGrid}]
Raw     == [call : Calls, at : Times, grid : Grids \cup {NoGrid}]
           \cup [call : {NoCall}, at : Times, grid : {NoGrid}]

StationsTypeOK ==
    /\ cache \in [Calls -> Summary]
    /\ stations \in [Bases -> Summary]
    /\ opened \in 0..MaxSessions
    /\ session \in {0, opened}
    /\ ended \subseteq 1..opened
    /\ \A i \in 1..Len(log) :
          /\ [call |-> log[i].call, at |-> log[i].at, grid |-> log[i].sent] \in Raw
          /\ log[i].grid \in Grids \cup {NoGrid}
          /\ log[i].session \in 1..opened /\ log[i].stored \in BOOLEAN

StationsInit ==
    /\ cache = [c \in Calls |-> Unheard] /\ stations = [b \in Bases |-> Unheard]
    /\ opened = 0 /\ session = 0 /\ ended = {} /\ log = <<>>

-----------------------------------------------------------------------------
\* What is kept of a station after one more decode: what the latest decode says,
\* where it says anything.
Merge(s, d) ==
    LET latest == s.count = 0 \/ d.at >= s.last IN
    [count |-> s.count + 1,
     first |-> IF s.count = 0 \/ d.at < s.first THEN d.at ELSE s.first,
     last  |-> IF latest THEN d.at ELSE s.last,
     grid  |-> IF latest /\ d.grid # NoGrid THEN d.grid ELSE s.grid]

\* update_from_observation, by the full callsign.
UpdateFromObservation(c, d) ==
    IF d.call = NoCall THEN c ELSE [c EXCEPT ![d.call] = Merge(@, d)]

\* (mutant) The last grid of the base callsign in the cache will do.
ResolveGridOfBase(c, raw) ==
    IF raw.grid # NoGrid \/ raw.call = NoCall THEN raw.grid
    ELSE LET same == {x \in Calls : BaseOf[x] = BaseOf[raw.call] /\ c[x].grid # NoGrid}
         IN IF same = {} THEN NoGrid ELSE c[CHOOSE x \in same : TRUE].grid

\* _resolve_grid: the grid of the message, or the one in the cache.
ResolveGrid(c, raw) ==
    IF raw.grid # NoGrid \/ raw.call = NoCall THEN raw.grid ELSE c[raw.call].grid

\* enrich, what it makes of a decode: sent is the grid in the message itself.
Enriched(c, raw) ==
    [call |-> raw.call, at |-> raw.at, sent |-> raw.grid, grid |-> ResolveGrid(c, raw),
     session |-> session]

\* _touch_station, by the base callsign.
TouchStation(table, d) ==
    IF d.call = NoCall THEN table ELSE [table EXCEPT ![BaseOf[d.call]] = Merge(@, d)]

Outcome(d, stored) ==
    [call |-> d.call, at |-> d.at, sent |-> d.sent, grid |-> d.grid,
     session |-> d.session, stored |-> stored]

\* ingest_raw: the cache has the decode, whether one of three attempts stores
\* its observation and its station, or none.
IngestRaw(raw) ==
    /\ session # 0 /\ Len(log) < MaxLog
    /\ LET d == Enriched(cache, raw) IN
       /\ cache' = UpdateFromObservation(cache, d)
       /\ \E stored \in BOOLEAN :
             /\ stations' = IF stored THEN TouchStation(stations, d) ELSE stations
             /\ log' = Append(log, Outcome(d, stored))
    /\ UNCHANGED <<opened, session, ended>>

\* (mutant) The cache is not restored.
CacheAfterFailure(before, after) == after

\* ingest_file_batch works on a copy of the cache and takes the old one back
\* when the transaction fails.
CacheRestored(before, after) == before

\* A line of a batch, after those before it
StoreLine(held, raw) ==
    LET d == Enriched(held.cache, raw) IN
    [cache    |-> UpdateFromObservation(held.cache, d),
     stations |-> TouchStation(held.stations, d),
     log      |-> Append(held.log, Outcome(d, TRUE))]

\* ingest_file_batch: each line is enriched after the ones before it, then all
\* are stored or none.
IngestBatch(raws) ==
    /\ session # 0 /\ Len(log) + Len(raws) <= MaxLog
    /\ LET after[n \in 0..Len(raws)] ==
              IF n = 0 THEN [cache |-> cache, stations |-> stations, log |-> log]
                       ELSE StoreLine(after[n - 1], raws[n])
           end == after[Len(raws)]
       IN \/ /\ cache' = end.cache
             /\ stations' = end.stations
             /\ log' = end.log
          \/ /\ cache' = CacheRestored(cache, end.cache)
             /\ UNCHANGED <<stations, log>>
    /\ UNCHANGED <<opened, session, ended>>

\* Ingestor.__init__: an empty cache, and a session of its own.
StartSession ==
    /\ session = 0 /\ opened < MaxSessions
    /\ opened' = opened + 1 /\ session' = opened + 1
    /\ cache' = [c \in Calls |-> Unheard]
    /\ UNCHANGED <<stations, ended, log>>

\* close, which may fail; or the process is killed, and its session stays open.
EndSession ==
    /\ session # 0
    /\ ended' \in {ended, ended \cup {session}}
    /\ session' = 0
    /\ UNCHANGED <<cache, stations, opened, log>>

StationsNext ==
    \/ StartSession \/ EndSession
    \/ \E raw \in Raw : IngestRaw(raw)
    \/ \E lines \in 1..MaxBatch : \E raws \in [1..lines -> Raw] : IngestBatch(raws)

StationsSpec == StationsInit /\ [][StationsNext]_stationVars

-----------------------------------------------------------------------------
\* Which of these decodes had a grid and was the latest when it came
Telling(heard, places) ==
    {i \in places : /\ heard[i].grid # NoGrid
                    /\ \A j \in places : j <= i => heard[j].at <= heard[i].at}

\* The grid that holds after the decodes at these places
ShownGrid(heard, places) ==
    LET telling == Telling(heard, places)
    IN IF telling = {} THEN NoGrid ELSE heard[Max(telling)].grid

Summarises(s, heard, places) ==
    LET at == {heard[i].at : i \in places} IN
    /\ s.count = Cardinality(places)
    /\ s.grid = ShownGrid(heard, places)
    /\ places # {} => s.first = Min(at) /\ s.last = Max(at)

\* Where the stored decodes of a base callsign are, and those that a process heard of a
\* callsign.
StoredOf(heard, b) ==
    {i \in 1..Len(heard) : /\ heard[i].stored /\ heard[i].call # NoCall
                              /\ BaseOf[heard[i].call] = b}
HeardOf(heard, c) ==
    {i \in 1..Len(heard) : heard[i].call = c /\ heard[i].session = session}

\* The summary of a station is that of its stored observations, in any order of
\* time, over failed stores, rolled back batches, restarts and replays: nothing
\* is counted twice or left out, and no older decode overrules a newer one.
StationSummary == \A b \in Bases : Summarises(stations[b], log, StoredOf(log, b))

\* The cache has what this process took for heard: every decode of ingest_raw,
\* stored or not, and the batches that were committed, but none of a batch that
\* was rolled back.
CacheSummary == session # 0 => \A c \in Calls : Summarises(cache[c], log, HeardOf(log, c))

\* A grid that a decode did not carry itself came in an earlier message of the
\* same full callsign to the same process: never from another suffix or prefix
\* of the call, and never from a batch that was rolled back.
GridWasSent ==
    \A i \in 1..Len(log) : log[i].grid # log[i].sent =>
        \E j \in 1..(i - 1) : /\ log[j].call = log[i].call
                              /\ log[j].session = log[i].session
                              /\ log[j].sent = log[i].grid

\* Both summaries of a station, in the database and in the process, are those of the
\* decodes they stand for.
SummariesHold == StationSummary /\ CacheSummary
=============================================================================
