# Verification of the Japan hour logger

TLA+ models of the logger that lives in this repository: a program that takes
FT8 decodes from WSJT-X, over UDP or from its receive log `ALL.TXT`, and stores
every received line as a row of a database. The models are checked with TLC on
small instances; every safety property that a passing run checks is also proved with
TLAPS, for every value of the constants (section 4).

Paths below are relative to the repository; `wsjtx/`, `database/` and the like
are under `src/radio_logger/`.

## 1. Inventory

| Component | State | Operations | Hard behaviour |
|---|---|---|---|
| **ALL.TXT follower** `wsjtx/file_input.py`, with `file_position` and `ingest_file_batch` of `ingest.py` | open handle, working position, expected cursor; table `input_cursors` | `poll_once` (`_open`, `_matches`, read, `_switch_if_rotated`, `_at`), cursor transaction | log rotated, truncated, compressed, written between any two system calls; crash anywhere; a second consumer |
| **UDP service** `service.py`, `wsjtx/listener.py` | socket, queue, tasks, flags of `RuntimeState` | `on_udp`, `on_error`, `on_lost`, `consume`, `bind_udp`, `reconnect`, start, shutdown | callbacks, tasks and a worker thread; full queue; lost and refused sockets; shutdown at any time |
| **Ingest of UDP messages** `ingest.py` | `receiver_statuses`, `_sender_addresses`, `receiver_status` | `handle_datagram`, `handle_wsjtx_message`, `_apply_status`, `_forget_status` | restarts on another address, more receivers than remembered, clocks that are set |
| **Network dedupe** `wsjtx/dedupe.py` | deque and set of keys | `contains`, `remember`, `_expire` | edge of the window, failed stores |
| **Storing** `ingest_raw`, `database/repository.py` | observations, stations, receiver session | `insert_observation`, `_touch_station`, three attempts | a failure between two of its steps; replays of old logs |
| **Station cache** `enrichment/` | grid and country of each station | `enrich`, `update_from_observation` | rolled-back batches, old observations after new ones |
| **Writer lock, historical import** `lifecycle.py`, `deploy/import-existing-all-txt.sh` | lock file, marker, snapshot | run, replay, import, service start | stops between two steps, two writers |
| **Backup** `database/backup.py`, `scripts/pull-radio-data` | backup files, `latest.db` | `backup_sqlite`, `update_latest` | failure between copy and publication, concurrent runs |
| **Propagation feeds** `propagation/feeds.py` | cached values with their time | `space_weather`, `hamqsl`, `image` | requests run in threads and fetch outside the lock |
| **Receiver supervisor** `deploy/radio-ft8/receive` | two child processes | `run_pipeline`, `stop_children` | signals and exits at any time, processes that do not stop |
| **Parsing** `wsjtx/protocol.py`, `wsjtx/all_txt.py`, `ft8/` | none | packet and line parsers | limits of widths, midnight |
| **Enrichment and analytics** `enrichment/dxcc.py`, `analytics/`, `propagation/conditions.py` | none | lookups, buckets, bounds | boundaries of intervals |
| **API, dashboard, launcher, scripts** | none of their own worth keeping | reads of the above | overlapping refreshes |

How they interact. `_serve` takes the writer lock, opens a receiver session and
runs one input: the follower (a task that polls) or the UDP service. The UDP
callbacks put datagrams on a queue; one task takes them off and calls
`handle_datagram` in a thread, one at a time, which looks the sender up, asks
the dedupe, enriches and stores. The follower calls `ingest_file_batch` from the
event loop itself. The API reads `RuntimeState` and the database. On shutdown
`_serve` stops the input, drains the queue and closes the session.

What makes each correct:

- *follower*: a received line is stored once or never; rows and cursor move
  together; lines are taken in order; under the supported rotation every
  complete line is stored in the end;
- *UDP service*: a datagram that arrived is handled, queued or counted as lost;
  handled in order; handled before the session closes; the listener comes back;
  the shutdown ends;
- *ingest of messages*: a datagram is read as what was sent or refused; a decode
  never gets the dial frequency of another receiver, or one that no longer holds;
  call, grid and country are the transmitter's; the tables stay bounded;
- *dedupe*: one row per window, and no suppression without a row;
- *stations*: the summary of a station is that of its rows, in any order of time;
- *what reads the data*: reports add up, pages miss only what came late, a feed
  is as fresh as it says, the chart is of the selection;
- *what runs beside*: a history is imported once, what is published is whole,
  nothing is left running, a check that passes has seen every decode.

## 2. Modules

| Module | Models | Runs |
|---|---|---|
| `SourceLog` | the log on disk: decoder, logrotate, truncation (external) | with the follower |
| `AllTxtFollower` | the follower and the cursor transaction, call by call; extends `SourceLog` | `Follower*` |
| `SourceImport` | abstract specification: lines are stored in order, once, with the mark | `ImportsInOrder` |
| `AllTxtFollowerProofs` | theorems: the follower stores nothing twice and implements `SourceImport` | |
| `FollowerCompletenessProofs` | theorems: the follower leaves nothing out | |
| `SnapshotsProofs` | theorems about `Snapshots` | |
| `IngestProofs` | theorems about `NetworkDedupe`, `UdpSenders`, `Stations`, `Ft8Messages`, `CountryLookup`, `Packets`, and about `MCIngest` | |
| `ReportProofs` | theorems about `ObservationPages` and `HourReport` | |
| `ServiceProofs` | theorems about `UdpService`, `PropagationFeeds`, `Dashboard`, and about `MCService` | |
| `OperationsProofs` | theorems about `HistoryImport`, `ReceiverSupervisor`, `HeadlessCheck`, `DecodeArchive`, and about `MCOperations` | |
| `DataLemmas` | numbers, finite sets and sequences: what several proofs need | |
| `UdpService` | event loop, thread, socket, shutdown | `Service`, `UdpErrorCleared` |
| `Packets` | reading a datagram, `wsjtx/protocol.py` | `Ingest` |
| `UdpSenders` | statuses and addresses of receivers | `Ingest` |
| `NetworkDedupe` | suppression of retransmissions | `Ingest` |
| `Ft8Messages` | what a message says, `ft8/` | `Ingest` |
| `CountryLookup` | country and base of a callsign, `enrichment/dxcc.py` | `Ingest`, `CountryPrefix` |
| `Stations` | storing decodes: session, cache, station rows | `Ingest` |
| `HourReport` | Japan hour report and totals | `Ingest` |
| `ObservationPages` | paging while rows are stored | `Ingest` |
| `PropagationFeeds` | caches of the feeds under concurrent requests | `Service` |
| `Dashboard` | timers and requests of `app.js` | `Service`, `DashboardOverlap` |
| `HistoryImport` | import script, service, systemd, writer lock | `Operations` |
| `Snapshots` | backup, pull and CSV export | `Operations` |
| `ReceiverSupervisor` | `deploy/radio-ft8/receive` | `Operations` |
| `HeadlessCheck` | `scripts/verify-headless.py` beside decoder and logger | `Operations` |
| `DecodeArchive` | `decodes.jsonl`: appends after the commit of their batch, torn ones, and the replay | `Operations` |
| `MC*` | instances for TLC | |

Definitions marked *(mutant)* are not part of a model: each is a plausible bug of
the definition after it, used to see that a property can fail.

`MCIngest`, `MCService` and `MCOperations` are sums of modules that share no state:
the variable `part` says which one a behaviour is of, the others keep their first
state. A sum explores what separate runs would, and composes nothing. What is
composed of interacting components is inside a module: the follower with the log
on disk and the database, the service with its thread and socket, the import with
systemd, the service and the lock, the check with decoder and logger.

### SourceLog and AllTxtFollower

A *file* is an inode; its *text* is one incarnation of its content, numbered in
the order in which they began, so that `<<text, line>>` names a received line
for ever. The name `ALL.TXT` is `active`, the uncompressed archives are a
sequence, and the decoder opens the active name before it writes a line, so that
a rename may fall in between. Lines have one length here, which makes an offset
a number of lines; a partial line is one that is not there yet.

The anchor of a `FilePosition` (up to 256 bytes before the offset) is abstracted
to what a comparison with it can tell: `full` bytes are found again at the same
offset of the same text only (lines carry their receive times), `empty` ones
everywhere, and `short` ones, read past the end of a file truncated meanwhile,
nowhere. The `generation` is stored with the rows and never read; it is left out.

One poll is many steps, one for each system call whose outcome others can change:
`PollStart` (open or not), `Verify` (`_matches`), `ScanIdentity` and
`ScanAnchor` (the two passes of `_open`, one candidate path at a time, over names
listed once), `ReopenArchive` and `OpenFresh`, `Read`, `StatActive` and
`SwitchFile` (`_switch_if_rotated`), `Recheck`, `TakePosition` (`_at`) and the
transaction. `Commit`, `CommitRejected` (the compare-and-swap of the cursor
fails), `CommitFails` and `AfterCommitRaises` are its outcomes. A call may raise
(`PollRaises`, `AnchorReadFails`) and the process may end (`Crash`) anywhere.
Observation: `stored` counts the rows of each line.

Four constants say what the surroundings may do: `Overlap` (rotation inside a
poll), `Outage` (a log rotated or compressed before any of it is stored),
`Truncation` (never, only between polls, or at any time) and `OpenFaults`.
`FollowerHazards` sets all four; the runs about completeness use the combinations
under which it holds (section 3).
`CopyTruncate` is atomic: `docs/HEADLESS.md` says that what a copy/truncate race
loses cannot be recovered.

### UdpService

Callbacks and tasks share one event loop, so that a step is what runs between
two awaits; `handle_datagram` runs in a thread, so that its steps fall between
any two of the loop's. `main`, `monitor` and `worker` say where `_serve`,
`reconnect` and `consume` are; `socket` is `closing` from the close of the
transport to the call of `connection_lost`, and `opening` while `bind_udp`
awaits. `Stop` is the `None` that ends the worker.

Taken from asyncio: the continuation of `bind_udp` runs before the first callback
of its socket, and cancelling a task in that await closes the transport. Taken
from uvicorn: `serve()` returns normally, once, at a time of its choosing, and nothing
cancels `_serve` while it shuts down. `SavesBeforeClose` and `ShutdownEnds` rest on that.
A version of uvicorn that raises a captured signal again when `serve()` returns would
break it: SIGTERM would end the process, and Ctrl+C cancel `_serve` in its `finally`, with
datagrams still queued. The library is not part of the repository, so that this is neither
modelled nor decided here. An
input of `all_txt` starts no UDP task; its follower polls without an await and is
cancelled only in its sleep, so that nothing of it is interleaved here.

### UdpSenders and NetworkDedupe

One worker handles the datagrams one after the other, so each is one step, taken
at the clock of its arrival. `UdpSenders` keeps dictionaries as sequences in the
order of insertion, because the first entry is the one evicted; a status keeps
its dial frequency and time. `Without` says by its places what is left of a dictionary
after a `pop`: the n-th entry of the new one is the n-th of the others. `said` and `row` are history: what each receiver
last said, and what the step stored. Senders with an empty `instance_id` share
one status and have no address (ingest.py:88), so `DialFromItsReceiver` does not
speak of them.

`NetworkDedupe` keeps the deque and the set; `decodes` is the history of all
decodes and of what became of them.

### Packets, Ft8Messages, CountryLookup

Each takes one input from an enumerated set and computes the result in one step.
`Packets` builds every type with at most one odd field and cuts it after any byte;
`Layout` is the order of the reads of `parse_packet`, so that a field read too
early, too late or not at all shifts every one behind it. A token of `Ft8Messages`
is of a class that the regular expressions tell apart, and of one only
(`MessagesAssumption`): `looks_like_callsign` refuses grids, `<...>` and the words. In `CountryLookup` parts and
prefixes are sequences of characters, since which prefix stands in which decides;
`entities` is any table of one or two entities.

The code finds the prefix of a portable call by its form and never asks which part is a
prefix of `cty.dat`: the part without a digit is taken for it, or else the shorter one, or
else the first. `PrefixDecides` says what follows where that tells the parts apart
(`ToldByForm`) and no "=" rule names the home call, which would come first: the rule is
the one of the prefix, and `extract_base_call`, which sorts in its own way, keeps the
station under the other part. Where the prefix is as long as the call, or longer, it does
not decide: `K1A/VP2E` is the United States, kept under `VP2E`. `_dxcc_candidates` says
otherwise of itself; `PrefixUsed` is what it says, and `CountryPrefix` shows it violated
(section 5). `EitherSide` and `MostSpecific` hold of such calls too, and do not tell
that the country is wrong. Only parts are looked up, so that the "=" rules of `cty.dat`
for calls with a stroke never apply.

### Stations

`IngestRaw` and `IngestBatch` are `ingest_raw` and `ingest_file_batch` with their
outcomes; a batch, of any number of lines up to `MaxBatch`, works on a copy of the cache,
each line after the ones before it (`StoreLine`), and `ingest_raw` on the cache itself.
The batch restores the cache when it fails. `ingest_raw` does not, and that is taken as it
is: `log` has its decode as one that was not stored, and its grid may be given to a later
decode of the call; `SummariesHold` and `GridWasSent` would notice an unrestored batch only.
`log` is history. The grid that `Merge` keeps is that of the last decode which was
the latest when it came, in both tables.

### HourReport, ObservationPages, PropagationFeeds, Dashboard

Rows reach `HourReport` in any order; window, width and zone are chosen at the
start. `ObservationPages` separates the two statements of a page, as each has its
own view of the table. In `PropagationFeeds` a request is three steps, lookup,
fetch and store, with the lock held in the first and the last only; a value stands
for the time at which it was given out. One fetch of space weather asks several services
of NOAA; it is one step, which succeeds or fails, and what a partial failure shows is not
modelled. `Dashboard` counts a handler up to its
next await as one step.

Things seen there that no document denies: `space_weather` reads `_space_at`
outside the lock (`propagation/feeds.py:183`); a refresh of which a part failed is
shown without an error while it is fresh; a status is made of several SELECTs, so
that `japan_15m` may exceed `decodes_15m` until the next one.

### HistoryImport, Snapshots, ReceiverSupervisor, HeadlessCheck, DecodeArchive

`HistoryImport` lets the script stop at each of its commands, the machine reboot and
systemd restart the service at any moment. It assumes what the instructions of the
script ask for: one import at a time, and a service that is not stopped between the
end of a replay and its check. A decode that the database refuses is only logged;
`CompleteMeansAll` leaves it out.

In `Snapshots` a content is the pair of database states that its halves come from.
`ReceiverSupervisor` lets signals and exits fall anywhere; the script itself is not
killed. In `HeadlessCheck` the decoder writes, the logger stores (with faults, or
without), and the check reads and looks, each at its own pace. It refuses a sound
logger when an equal decode is written after its reading of the log, and when the
deadline passes between its last look and the decision. `DecodeArchive` commits a batch (`StoreBatch`; of one decode for `ingest_raw`) and appends
its decodes one by one afterwards, as `ingest_file_batch` does (`ingest.py:236`, 246-261).
An append that fails with an `OSError` is logged and costs up to two decodes, its own and
the one whose line is appended to what it left (`ArchiveFails`). When the process ends
there, or something else is raised, all of the batch that is not appended is lost to the
archive, since the cursor is behind it (`LoggerStops`): up to `MAX_BATCH_LINES`, 256
decodes, and one more by a torn line. A dial frequency of 0 comes back as none, and a
decode without message does not come back. The repository promises no more of this archive
than that it is optional; the database has all of these decodes.

## 3. Runs

| Run | Question | Bounds, and why they are enough |
|---|---|---|
| `FollowerHazards` | whatever happens, is a line stored twice, and does the follower implement `SourceImport`? | 3 files, 3 texts, 2 lines, 1 fault: two rotations inside one poll, a shifted archive, and a truncated file that regains its length |
| `FollowerGaps` | is anything behind the cursor left out when the log is renamed inside a poll, or else truncated between polls? | 3 texts of 3 lines in batches of 2, 2 faults |
| `FollowerQuiet` | does the supported rotation drain every log, and is every line stored in the end? | 3 texts of 3 lines, 2 faults |
| `FollowerDrainRace`, `FollowerTruncationInPoll`, `FollowerReopenFault` | counterexamples, section 5 | the smallest instances |
| `UdpErrorCleared`, `DashboardOverlap`, `CountryPrefix` | counterexamples, section 5 | one datagram and one fault; two refreshes; a call and a longer prefix |
| `Ingest` | from a datagram to its row, and from rows to the reader: is what is stored what was sent, once in a window, with the facts of its own receiver and transmitter, and summed up right? Do pages miss nothing, and the report add up? | below |
| `Service` | the running service: is a datagram lost uncounted, reordered, handled after the close? Does the listener return, the queue move, the shutdown end? Do the feeds tell their age, does the chart belong to the selection, and do answers come in the end? | below |
| `Operations` | import, copies, supervisor, check and archive, with faults at any step: once, whole, nothing left running, and to an end? | below |

Properties of the three sums have parts, which are definitions of their own:

| Property | Says | Its instance has |
|---|---|---|
| `ReadAsSent` | cut datagrams are refused, no value gets into another field, nothing written is lost, the date is the nearest | every type, one odd field, every cut; a day of 4 ticks, all times of two days |
| `SaidByTransmitter` | call and grid are the transmitter's | all messages of 4 tokens |
| `CountryOfOperation` | either side of the stroke, longest rule, the prefix and not the home call where the form tells them apart | 2 entities, prefixes in one another, 2 main parts of lengths 1 to 3 with and without digits, and 2 suffixes |
| `OneRowInWindow`, `SuppressedForRow` | rows per window, suppression for a row | 2 keys, 5 decodes, window of 1 in 4 ticks: before, at and after the edge |
| `SendersConsistent`, `DialFromItsReceiver` | limits, shown status, whose dial frequency | 2 receivers in 1 place, 2 addresses, 2 frequencies, age of 1 in 3 clock values |
| `SummariesHold`, `GridWasSent` | both summaries, origin of a grid | 2 calls of one base, 2 grids, 3 decodes in batches of 1 or 2 or alone, 2 sessions |
| `ReportOfItsRows` | buckets, hours, totals, peak | 3 rows, all windows of 4 ticks, 3 widths, zones half an hour behind and before UTC |
| `PagesMissOnlyLate` | nothing is passed over, only late rows are missing | pages of 2, 6 rows, 2 times |
| `EveryDatagramAccounted`, `HandledInOrder`, `SavesBeforeClose`, `ListenerReturns`, `QueueMoves`, `ShutdownEnds` | nothing lost uncounted, in order, saved before the close, and to an end | queue of 2, 4 datagrams, 2 faults: a full queue with one datagram in work, a refused bind after a lost socket |
| `ReplyIsHonest` | ages and kept values of the feeds | 2 concurrent requests, 2 ticks, lives of 1 and 2 |
| `ChartSettled`, `ChartNeverOlder` | selection, loading sign, order of answers | 2 selections, 3 overlapping loads |
| `ReadersServed` | snapshots are answered, panels released | as above, 3 ticks of the status |
| `ImportedOnce`, `CompleteMeansAll` | file and UDP store once; complete means all | 3 decodes, 2 looks at the size |
| `PublishedIsSound`, `BackupsKept` | whole, recent, never replaced | 2 backups, possibly of one moment, a pull, an export, 2 commits |
| `NothingLeftRunning` | no child survives | both children |
| `VerdictIsSound` | no false pass, no false refusal | 3 lines of 2 keys, 1 fault of the logger |
| `ArchiveRestores` | what was stored, less what broke | 4 decodes in batches of 1 or 2, 2 failed appends or ends of the process |
| `OperationsEnd` | imports, jobs, pipeline and check end | as above |

Type invariants of the parts are `IngestTypeOK`, `UdpTypeOK` and `ReadingTypeOK`, and
`OperationsTypeOK`. In `ReadAsSent` the packet is built by the same `Layout` as it is read
by: that the order of the fields is WSJT-X's is not checked.

`NoGapBehindCursor` is promised for renames at any time, or for truncation between
polls, not for both together: after a truncation `_open` may find the saved anchor in
an archive, and a rotation before it opens that archive by its name hands it another
one. `MCFollowerGaps` keeps the two policies apart in one run.

The real limits (256 lines, 256 bytes, a queue of 1024, 64 receivers, 120 s, 30 looks)
are constants; nothing in the code depends on their size. `Max*` constants, except
`MaxSenders` and `MaxAge`, bound the instances only. Deadlock is checked where a run
says nothing else; the service stops when it is shut down, and the sums stop at their
bounds, as reports, lookups and jobs end. Symmetry is used in `Ingest`, a run without
liveness over names that are only compared with each other; its parts share no state,
so that one set of values serves as the callsigns of one and the addresses of another. The follower runs have
one consumer: two that read the same cursor (`ingest.py:231`) are not seen by TLC, and any
number of them is what `NoLineTwice` is proved for.

Fairness. `AllTxtFollower!FairSpec` is weakly fair to the poll (`run` polls for
ever and catches every exception of a poll) and to `Create` (logrotate creates
the file it renamed); not to the decoder, and not to faults. `UdpFairness`
is weakly fair to the tasks, to the pending `connection_lost` and to the thread;
not to the network, and not to the return of `serve()`. `FeedsFairness`: threads run,
and a fetch ends by its timeout of 8 s. `DashboardFairness`: a request ends by the
30 s of `getJson`. `ImportFairness`: the script runs, and systemd restarts the service
until it has the lock; not the administrator, and not the decoder. `SnapshotsFairness`:
a job runs or fails, since a copy that commits restart again and again ends at its
deadline. `SupervisorFairness`: the script runs, and its waits have deadlines; children
need not end. `HeadlessFairness`: the check runs and time passes; not the logger.
In the sums the fairness of a part is enabled only after a step of that part; that of
`_serve` and of the supervisor, which is enabled from the start, is asked of their own
behaviours only.

## 4. Proofs

### The follower

`AllTxtFollowerProofs` proves, for any finite bounds and any number of consumers,
with `Overlap`, `Outage`, `Truncation` and `OpenFaults` as they come:

- `TypeCorrect`: `Spec => []TypeOK`;
- `NoLineTwice`: `Spec => []AtMostOnce`;
- `CursorCoversRows`: `Spec => []StoredBehindCursor`;
- `ImplementsImport`: `Spec => ImportsInOrder`, the refinement of `SourceImport`
  under `mark <- Floor(cursor)`, `rows <- stored`;
- `Invariant`: `Spec => []IInv`, from which they follow.

They rest on `SourceLogAssumption` and `FollowerAssumption` (the bounds are
positive numbers, the switches have their few values).

The argument. `AtMostOnce` says nothing about memory, so it is not inductive. Order
lines by text and number; `Floor(p)` is the last line that a position promises to
be stored. The heart of `IInv` is `InBatch`: the lines a follower is about to
store come strictly after `Floor` of the cursor it expects, and the position it
will commit covers them. The transaction happens only when the cursor is the
expected one, and everything stored is at or before the cursor
(`StoredBehindCursor`), so the lines of the batch have no row yet. What keeps
`InBatch` true is `Opened` (the working position of an open file is not behind
the saved one), and that rests on `Opening`: when `_open` gives up a candidate
and goes on to the active file from its start, that file has a newer text than the
saved position (`ActiveAhead`); when it reopens a matching archive by its name,
whatever has been shifted to that name is the same text or a newer one. Both need
`Sound` (the file of a position never goes back to an older or a shorter text)
and `LogInv` (the active file has the newest text, archives older ones, newest
first). The proof has one lemma per action of a poll, one for the failures
(`FailureInv`), one for what the log does (`FollowerLogStep`), and
`TransactionStores` for the database.

TLC checks `IInv` as an invariant of `FollowerHazards`.

### The follower leaves nothing out

`FollowerCompletenessProofs` proves, for any bounds, any number of consumers and of
faults, and with or without an outage:

- `NothingLeftOut`: `RenamedOnly \/ EmptiedBetween => (Spec => []GapInv)`;
- `CursorLeavesNoGap`: from it, `NoGapBehindCursor`;
- `PreviousFileDrained`: `RotatedBetween => (Spec => []DrainsPreviousFile)`.

The conditions are conditions of the constants, and the runs take their combinations from
them: `RenamedOnly` (no truncation; renames at any call of a poll), `EmptiedBetween`
(truncation and rotation, but between polls) and `RotatedBetween` (rotation between polls,
no truncation, no log renamed away before it was looked at). The `Follower*`
counterexamples of section 5 show that they cannot be dropped.

`GapInv` is `IInv` and says that the cursor is `Backed` (every line of its text up to it is
stored) and, of each consumer, `GapFree`: so are the position it expects and its working
position, what it reads goes on there in the same text (`ReadsOn`), and what `_open` finds
is the text of the saved position or the start of another (`OpensInText`). The hard case is
the search of `_open`, which walks over names that are shifted under it. While files are
renamed only, the names that it has passed do not come to stand for the file of the saved
position (`Passed`), since a shift moves a file to a higher number. Where logs are emptied
instead, nothing is renamed during a poll.

`DrainInv` adds that all lines of the logs before that of the cursor are stored
(`StoredBefore`), that the cursor is in the newest log or in the one before (`CursorNear`),
and that a follower which the cursor will accept looks for its file at the first two names
and has drained the file before the one it reads (`Drains`).

### The UDP service

For a queue of any size and any number of datagrams and faults (`UdpServiceAssumption`):

- `ServiceTypeCorrect`: `UdpSpec => []UdpTypeOK`; `task_done`, which raises when it is
  called too often, is not;
- `NoneIsUncounted`: `UdpSpec => []EveryDatagramAccounted`;
- `OrderIsKept`: `UdpSpec => []HandledInOrder`;
- `SavedBeforeClose`: `UdpSpec => []SavesBeforeClose`.

All follow from `ServiceInv` (`ServiceInvariant`). `Control` ties the places of `_serve`, of
its two tasks and of the socket together: once the transport is closed none opens again,
because the monitor was cancelled before. `Counted` equates the counter that `join` waits
for with the items on the queue and in work, and what arrived with what became of it. So
when `join` returns the queue is empty, no thread works, and none can arrive; the `Stop`
that follows is alone on the queue (`StopIsLast`). `Ordered` needs the item in work
between what was handled and what is queued. Only `QueuedCount` speaks of cardinalities:
as the queue is strictly increasing, its places and its members are in bijection.

### The import of history

`HistoryIsImportedOnce`: `ImportSpec => []ImportedOnce`, for any number of decodes and
of looks at the size of `ALL.TXT` (`ImportAssumption`: both are positive). The code keeps
no record of what was stored from where; it is three other facts that keep a line from
being stored twice, and they strengthen the invariant: the writer lock is held by the
service exactly while it is up and by the replay while it runs (`Locked`); a database that
is not there has no rows, and from the script's check until its replay only a service
that is up has one (`Fresh`); what is still to be replayed has no row, and nothing is
stored before it is decoded (`NotYet`). The replay refuses a database that exists, which
is what makes a second attempt harmless.

`CompleteImportsAreWhole`: `ImportSpec => CompleteMeansAll`. `SnapshotHanded` says how far
the script has come: what was replayed so far was handed to the database, and after the
replay the whole snapshot was. The comparison of sizes before the marker then says that the
log is the snapshot: a line that came after the snapshot made the file longer.

### The dedupe

`RetransmissionHasNoRow`: `DedupeSpec => []OneRowInWindow`, and `OnlyRowsSuppress`:
`DedupeSpec => []SuppressedForRow`, for any keys, any window and any number of decodes
(`NetworkDedupeAssumption`). Neither property mentions the deque. `DedupeInv` says what it
is: every row of the window is in it (`RowsRemembered`), and every entry is of a row
(`OnlyRowsRemembered`). Since entries are in the order of time (`DedupeConsistent`), what
`_expire` takes from the left is all that has left the window, and only that
(`ExpireTakesTheExpired`).

### The receivers

`SendersStayConsistent`: `SendersSpec => []SendersConsistent`, and `DialsAreTheReceivers`:
`SendersSpec => DialFromItsReceiver`, for any receivers, addresses and clocks
(`UdpSendersAssumption`). `SendersInv` adds that a table has one entry of an id (`Distinct`) and
that what is remembered of a receiver is what it said last, at the address remembered
(`DialsSaid`). The two tables evict on their own, so the proof rests on their agreement: an
address is given up together with its status, and a status that is evicted only makes its
receiver unknown. `Put` and `Without` are proved to keep the entries of the others, by
counting places (`NthPlace`).

### The stations

`SummariesAreOfTheirDecodes`: `StationsSpec => []SummariesHold`, and `GridsComeFromTheCall`:
`StationsSpec => []GridWasSent`, for any calls, grids and times, and for batches of any size
(`StationsAssumption`). The summaries are defined with a least time, a greatest time and the
last of some places; the invariant says the same without a choice (`IsSummary`, `Shows`),
and `Consistent` states it of a cache, a table and a log, so that it can be said of what
lies between two lines of a batch. One more decode keeps `Consistent` (`OneMoreDecode`). A
batch is a recursive function of its length: were there a first line after which
`Consistent` fails, the line before would contradict it (`BatchKeeps`); that a recursive
function is what its equation says is proved once, in `RecursionExists`.

### The messages of FT8

`MessagesSayWhoSends`: `MessagesSpec => []SaidByTransmitter`, for messages of any length and
any callsigns and locators, if a token is of one class. By cases of the parser: after a CQ
and its directive comes the transmitter and then its grid; in an exchange it is the second
callsign, and only the `599` of a contest lies between it and its grid.

### The country of a callsign

`CountryIsOfOperation`: `CountrySpec => [](CountryTypeOK /\ CountryOfOperation)`, for any
table of entities, any parts and prefixes, if they are sequences of characters
(`PartsAssumption`) and no part that begins a callsign is a suffix such as `P` or a digit
(`MainPartsAssumption`; the code strips suffixes from the end until one part is left, and
calls such as `P/K1A` are not in the model). What is stripped and what is left is found by
places: the parts up to the last one that is no suffix. Stripping what is left changes
nothing, which gives that a suffix does not matter; the order of two candidates depends on
their form and length only, which gives that the side of the stroke does not. The longest
rule exists because prefixes of a part are no longer than it (`GreatestNumber`), and the
first entity that has it because entities are numbers. Where the form tells the prefix, it
is the first candidate (`FirstDecides`), and the longest rule of a prefix that `cty.dat`
has is that prefix (`LongestIsItself`); the home call sorts before the prefix by the same
two tests, and before every suffix because a part that is no suffix and has a digit has two
characters at least (`HomeBeforeEnding`). The theorem says nothing of a prefix as long as
the call, or longer, of which `PrefixUsed` is false, nor of home calls with an "=" rule.

### The datagrams

`PacketsReadAsSent`: `PacketsSpec => [](PacketsTypeOK /\ ReadAsSent)`, for every type of
datagram, one odd field at most, every cut, and a day of any even length
(`PacketsAssumption`; the code's has 86 400 000 ms, and half a day is where the date
changes). The reader is a recursion over the fields. `ReadTo` says what it is after each of
them: it has taken a number of fields whole, and the others are missing because nothing was
left; that this number is the same for all later fields once the bytes have run out is why
no value gets into another field. It stays true from one field to the next (`ReadNext`),
and there is no first field after which it fails (`ParseIsSound`).

### Snapshots

`SnapshotsAreSound`: `SnapshotsSpec => []PublishedIsSound`, and `BackupsAreKept`:
`SnapshotsSpec => BackupsKept`, for any jobs, stamps and commits (`SnapshotsAssumption`: a
backup, a pull and an export are different jobs). The invariant says of every job what its
temporary file can be at each of its steps (`JobHas`): part of one state of the database,
no older than the start of the job. It rests on a restart of the copy when another process
has written, which SQLite promises, and of a pull on `BackupsKept`: the file that `scp`
reads in pieces is never another one in between.

### Propagation feeds

`RepliesAreHonest`: `FeedsSpec => []ReplyIsHonest`, for any threads and any positive times
to live (`FeedsAssumption`; the code's are 5, 60 and 15 minutes). An answer speaks of one
moment, so the invariant is about what each thread carries (`Known`): what it fetched was
given out no earlier than the moment of its request, what it found fresh was within its
time to live then, and what it found at all is still followed by some value. With it,
storing values with the date of the request keeps every value dated no later than it was
given out (`NeverPostdated`), in whatever order threads store.

### The pages

`PagesAreComplete`: `PagesSpec => []PagesMissOnlyLate`, for pages of any size, any times and
any number of rows that come meanwhile (`PagesAssumption`). The order of the query is by time and
id, both descending; the place of a row is the number of rows before it. Places are all
different and fill the numbers below the length of the table, so a page has `Limit` rows
unless it reaches the end. A row that comes moves others to higher places only, so
what has not been passed stays ahead of the offset. The loop ends by the last count; the
rows of the table are those it counted and those that came since (`CountFits`), so no more
than the latter can be missing.

### The charts of the dashboard

`ChartsSettle`: `ChartSpec => []ChartSettled`, and `ChartsNeverAge`:
`ChartSpec => ChartNeverOlder`, for any selections and any number of overlapping refreshes
(`DashboardAssumption`). `ChartInv` adds that refreshes are numbered in their order and the
charts show one of them (`Numbered`), and that the refresh which has the controller asked
for the selection that is shown (`LoadingSelection`): a click changes both in one step.
Only the owner of the controller shows its answer, and it is the newest, which gives both.

`PanelsInv` says of the other panels that a flag is up exactly while a request of it is
under way.

### The hour report

`ReportIsOfItsRows`: `ReportSpec => [](ReportTypeOK /\ ReportOfItsRows)`, for any rows in any
order, any window, any width and any zone (`ReportAssumption`: an hour and a day are not
empty, and local time is less than a day from UTC, as `datetime` requires). The report adds
one row at a time, the properties speak of sets of rows, so the invariant keeps the two
together: each bucket counts the rows between its begin and its end, each hour the rows
whose hour it is, and a sum over buckets or hours grows by what one of its terms does
(`BucketsInv`, `HoursInv`; a sum is a running sum over numbers, `SumBelow`). Equal rows are
numbered, so that a set of rows loses none (`RowsInv`). That a row is in one bucket and in
one hour is the uniqueness of quotient and remainder (`QuotientOf`), which the provers are
given step by step: they do not divide by variables. The peak is the first of the greatest
buckets, which exists as one of finitely many (`PeakExists`).

### The receiver supervisor

`NoChildLeft`: `SupervisorSpec => []NothingLeftRunning`, from no assumption. `Stages` says
which children there can be at a stage; a signal handler only sets a flag, so nothing is
started after the first request to stop.

### The headless check

`VerdictsAreSound`: `HeadlessSpec => []VerdictIsSound`, for any keys, lines and faults
(`HeadlessAssumption`). It is about numbers of equal decodes. `HeadlessInv` bounds the rows of a key
by the lines of it that the logger has dealt with, if it makes no fault (`RowsOfLines`),
what is expected by the lines of the log, and by those there were at the start
(`ExpectedOfLog`), and what a verdict may be by the last look (`VerdictOfLook`). A sound
logger is refused only while it is behind the log, or where an equal line came later than
the reading.

### The archive of decodes

`ArchiveRestoresHolds`: `ArchiveSpec => []ArchiveRestores`, for any number of decodes, of
failed appends and of ends of the process, and batches of any size (`ArchiveAssumption`).
The invariant is about the file, not about its replay: what is in it was stored
(`FromDatabase`), in the order in which it was (`InOrder`), and a decode whose line is ended
is safe for good. The decodes of the batch that are still to be appended are the last ones
(`Coming`), the others were `Handled`. A decode is `Lost` when it was handled and no ended
line is its own. An append that fails loses its own decode at once and leaves a line without
an end, to which the next one is appended; a batch that is broken off loses what is left of
it, at most `MaxArchiveBatch`, and may leave such a line too. Each has paid for all of that
when it happens (`Paid`: lost decodes, and one more while the last line has no end, are at
most `Allowed`, which is two for a failed append and a batch and one for a broken batch).
With the code's batches of 256 that is 257. The replay reads the lines one after another;
what it `Tells` of the first n of them follows from what it told of the ones before
(`TellsNext`), and there is no first line where it fails (`ReplayTells`).

### The sums

`IngestHolds`, `ServiceHolds` and `OperationsHolds` state every safety property of the three
sums, the types and the action properties included, of the specification that the run
checks: `Spec` of `MCIngest`, `MCService` and `MCOperations`, for every value of the
constants. A step of a sum is a step of one part and leaves the others' variables alone
(`IngestStep`, `ReadersStep`, `OperationsStep`), so the conjunction of the invariants of the
parts is inductive, and the sum implements the specification of each part, which gives the
action properties. The parts that a behaviour is not of keep their first states: where
these are no initial states of the part (a callsign that is not there), the invariant says
that nothing is looked up.

### Facts about data

`DataLemmas` proves what the components share: a set of numbers has a least member, and a
bounded one a greatest. The provers cannot instantiate a theorem of induction, whose
parameter is an operator; the least number is found as the smallest of a family of finite
sets, by the well-foundedness of the strict subsets, which is a theorem about sets. "The
first step at which it fails" is then used wherever one would use induction.

### Only model-checked

- Liveness, everywhere: `LinesGetStored`, `ListenerReturns`, `QueueMoves`, `ShutdownEnds`,
  `ReadersServed` and `OperationsEnd` need fairness and ENABLED, which are out of the
  prover's reach.
- The counterexamples of section 5, which are behaviours.

All invariants and action properties of the passing runs are proved. Two of the proofs ask
less of the surroundings than the runs and none asks more: the follower's hold for any
number of consumers, and the snapshots' for backups and exports beside each other.

## 5. What the checks found

- `FollowerDrainRace`: `docs/HEADLESS.md:111`, "The logger drains the previous file
  and follows the replacement". A line that reaches the old file after the read
  that found its end (`wsjtx/file_input.py:133`) and before, or after, the stat of
  the active name (line 98) is never stored.
- `FollowerTruncationInPoll`: `docs/HEADLESS.md:115`, "Truncation detection protects
  normal recovery, but bytes lost by a copy/truncate race cannot be recovered by the
  logger." What is lost here are not bytes of the old text: a truncation, and new lines,
  between the read and `_at` (line 159), and the new anchor is taken from the new text;
  the new lines before it are skipped, though they stay in the file. At offset 0 the check
  of line 156 compares nothing.
- `FollowerReopenFault`: the assertion of `wsjtx/file_input.py:125`. A read error in
  `_at` at line 88 leaves `_handle` set and `_working` unset; polls fail from then on.
- `UdpErrorCleared`: `docs/SETUP.md:228`, "`storage_error` and `udp_error` show
  active faults". A datagram in work clears the `udp_error` that `on_lost` has just
  set (`ingest.py:87`), while there is no listener.
- `DashboardOverlap`: `tests/test_dashboard_frontend.py:298`, "A timer must not
  duplicate an in-flight request". `tickFast` waits with `Promise.all`
  (`web/static/app.js:384`), which ends at the first failure, and clears its flag while
  the other request is still under way; the next tick sends that one again.

- `CountryPrefix`: `enrichment/dxcc.py:128-129`, "PREFIX/CALL (KH2/W1ABC) uses PREFIX if
  it looks like a DXCC prefix" and "CALL/PREFIX (W1ABC/KH2) uses PREFIX". Of two parts with
  digits the shorter one is looked up first (lines 148-149): for `K1A/VP2E` it is the call,
  and the station is in the United States, with `VP2E` for its base call.

## 6. Plan

Done: every component whose state more than one actor changes, and the pure algorithms
with an interesting boundary; a theorem for each of their safety properties. What is left
is what no proof here reaches, the liveness properties, which stay with TLC; and of the
parts of section 7 the session row that a status changes and the filters of the status,
should their code become more than copies of values. No module declares a RECURSIVE
operator.

## 7. Not modelled

- the lines of `ALL.TXT` (`wsjtx/all_txt.py`): three regular expressions and checks of
  single numbers, which the tests enumerate;
- grids, distances, bearings, bands, the position of the sun and band conditions:
  floating-point geometry and tables, without state;
- SQL aggregates other than those of the report, histograms, and what the dashboard
  draws;
- configuration, schema and migrations: declarations and the validation of single values;
- the Windows launcher and set-up: one straight sequence of checks. Two set-ups at once,
  and the result 10 of its probe, take no lock; nothing here speaks of them;
- two imports at once: the script does not exclude them, its instructions do;
- `verify-install.py` and the simulator, which drive an empty installation in one order;
- changes of clocks: where a day has two midnights, `today_bounds` begins it at the second
  one while the repeated hour lasts;
- the archive of raw datagrams: a best-effort copy that nothing reads back.
