--------------------------- MODULE HistoryImport ---------------------------
(***************************************************************************)
(* The import of an existing ALL.TXT (deploy/import-existing-all-txt.sh)   *)
(* beside the service, systemd and the lock of the database                *)
(* (lifecycle.py).  WSJT-X goes on decoding: each decode is a line of      *)
(* ALL.TXT and a datagram, which only a running service stores.            *)
(*                                                                         *)
(* The script stops when one of its commands fails, and with the machine   *)
(* at any moment; it can be called again.  The service is started at boot, *)
(* by an administrator, by the script, and by systemd after a failure.     *)
(* What is assumed of the administrator: one import at a time, and no      *)
(* service that is stopped again while an import is not yet replayed.      *)
(***************************************************************************)
EXTENDS Naturals

CONSTANTS MaxLines,   \* bound: decodes
          MaxAttempts \* looks at the size of ALL.TXT (30)

ASSUME ImportAssumption == MaxLines \in Nat \ {0} /\ MaxAttempts \in Nat \ {0}

VARIABLES
    source,   \* decodes so far, the lines of ALL.TXT
    rows,     \* how often each decode is stored
    refused,  \* (history) decodes that the database failed to take
    database, \* whether radio.db exists
    lock,     \* who has the lock of the database
    service,  \* japan-hour-logger.service
    marker,   \* what all-txt-v1.state says
    snapshot, \* lines of ALL-before-udp.txt
    script,   \* where the script is
    previous, \* previous_size and attempt of its loop; replayed lines after it
    attempt

importVars == <<source, rows, refused, database, lock, service, marker, snapshot, script, previous, attempt>>
scriptVars == <<marker, snapshot, script, previous, attempt>>

NoSize == MaxLines + 1

ImportTypeOK ==
    /\ source \in 0..MaxLines /\ rows \in [1..MaxLines -> 0..2] /\ refused \subseteq 1..MaxLines
    /\ database \in BOOLEAN
    /\ lock \in {"free", "service", "replay"}
    /\ service \in {"stopped", "starting", "restarting", "up"}
    /\ marker \in {"none", "started", "failed", "review-required", "complete"}
    /\ script \in {"idle", "mark", "settle", "copy", "lock", "replay", "start", "health",
                   "compare", "complete"}
    /\ snapshot \in 0..MaxLines /\ previous \in 0..NoSize /\ attempt \in 0..MaxAttempts

ImportInit ==
    /\ source \in 0..1 /\ rows = [d \in 1..MaxLines |-> 0] /\ refused = {} /\ database = FALSE
    /\ lock = "free" /\ service = "stopped" /\ marker = "none" /\ snapshot = 0
    /\ script = "idle" /\ previous = NoSize /\ attempt = 0

-----------------------------------------------------------------------------
\* ingest_raw: three attempts store the decode or fail, and nobody asks which.
Ingest(d) ==
    \/ rows' = [rows EXCEPT ![d] = @ + 1] /\ UNCHANGED refused
    \/ refused' = refused \cup {d} /\ UNCHANGED rows

\* (mutant) The database is not looked for.
MayImportAgain == marker = "none" /\ service \notin {"starting", "up"}

\* The checks of the script; a service that waits for its restart is not active.
MayImport == marker = "none" /\ service \notin {"starting", "up"} /\ ~database

Check ==
    /\ script = "idle" /\ MayImport
    /\ script' = "mark"
    /\ UNCHANGED <<source, rows, refused, database, lock, service, marker, snapshot, previous, attempt>>

Mark ==
    /\ script = "mark" /\ script' = "settle"
    /\ marker' = "started" /\ previous' = NoSize /\ attempt' = 0
    /\ UNCHANGED <<source, rows, refused, database, lock, service, snapshot>>

Tried == attempt = MaxAttempts

\* A turn of the loop that waits for a size that stays the same.
Settle ==
    /\ script = "settle"
    /\ IF source = previous
       THEN script' = "copy" /\ UNCHANGED <<marker, previous, attempt>>
       ELSE IF Tried
       THEN script' = "idle" /\ marker' = "failed" /\ UNCHANGED <<previous, attempt>>
       ELSE previous' = source /\ attempt' = attempt + 1 /\ UNCHANGED <<script, marker>>
    /\ UNCHANGED <<source, rows, refused, database, lock, service, snapshot>>

Copy ==
    /\ script = "copy" /\ script' = "lock"
    /\ snapshot' = source
    /\ UNCHANGED <<source, rows, refused, database, lock, service, marker, previous, attempt>>

\* file_lock, without waiting
Acquire(who) == lock = "free" /\ lock' = who

\* radio-logger replay takes the lock and creates the database, or fails.
BeginReplay ==
    /\ script = "lock"
    /\ \/ Acquire("replay") /\ script' = "replay" /\ database' = TRUE /\ previous' = 0
       \/ lock # "free" /\ script' = "idle" /\ UNCHANGED <<lock, database, previous>>
    /\ UNCHANGED <<source, rows, refused, service, marker, snapshot, attempt>>

\* (mutant) The replay leaves the lock behind.
ReplayLeavesLock == UNCHANGED lock

\* The file of the lock is closed.
ReplayFreesLock == lock' = "free"

\* replay_file: the next line, or the end.
Replay ==
    /\ script = "replay"
    /\ IF previous < snapshot
       THEN Ingest(previous + 1) /\ previous' = previous + 1 /\ UNCHANGED <<lock, script>>
       ELSE ReplayFreesLock /\ script' = "start" /\ UNCHANGED <<rows, refused, previous>>
    /\ UNCHANGED <<source, database, service, marker, snapshot, attempt>>

\* systemctl start
StartService ==
    /\ script = "start" /\ script' = "health"
    /\ service' = IF service = "up" THEN "up" ELSE "starting"
    /\ UNCHANGED <<source, rows, refused, database, lock, marker, snapshot, previous, attempt>>

\* The service answers, or not within ten attempts.
Health ==
    /\ script = "health"
    /\ \/ service = "up" /\ script' = "compare"
       \/ service # "up" /\ script' = "idle"
    /\ UNCHANGED <<source, rows, refused, database, lock, service, marker, snapshot, previous, attempt>>

\* (mutant) Growth is tolerated.
GrewNever == FALSE

Grew == source # snapshot

Compare ==
    /\ script = "compare"
    /\ IF Grew THEN marker' = "review-required" /\ script' = "idle"
               ELSE script' = "complete" /\ UNCHANGED marker
    /\ UNCHANGED <<source, rows, refused, database, lock, service, snapshot, previous, attempt>>

Complete ==
    /\ script = "complete" /\ script' = "idle"
    /\ marker' = "complete"
    /\ UNCHANGED <<source, rows, refused, database, lock, service, snapshot, previous, attempt>>

\* A command fails, or the script is killed; the lock goes with its holder.
ScriptFails ==
    /\ script # "idle" /\ script' = "idle"
    /\ lock' = IF lock = "replay" THEN "free" ELSE lock
    /\ UNCHANGED <<source, rows, refused, database, service, marker, snapshot, previous, attempt>>

-----------------------------------------------------------------------------
\* (external) WSJT-X decodes.
Decoded ==
    /\ source < MaxLines /\ source' = source + 1
    /\ IF service = "up" THEN Ingest(source + 1) ELSE UNCHANGED <<rows, refused>>
    /\ UNCHANGED <<database, lock, service, scriptVars>>

\* run_server takes the lock and creates the database; without the lock it ends,
\* and systemd tries again 5 s later.
ServiceUp ==
    /\ service \in {"starting", "restarting"} /\ Acquire("service")
    /\ service' = "up" /\ database' = TRUE
    /\ UNCHANGED <<source, rows, refused, scriptVars>>

\* An administrator starts the service, perhaps during the import.
AdminStarts ==
    /\ service = "stopped" /\ service' = "starting"
    /\ UNCHANGED <<source, rows, refused, database, lock, scriptVars>>

\* The service is stopped, or fails and is restarted.
ServiceDown ==
    /\ service = "up" /\ script \in {"idle", "health", "compare", "complete"}
    /\ service' \in {"stopped", "restarting"} /\ lock' = "free"
    /\ UNCHANGED <<source, rows, refused, database, scriptVars>>

\* Power fails; the service is enabled and starts again.
Reboot ==
    /\ script' = "idle" /\ lock' = "free" /\ service' = "starting"
    /\ UNCHANGED <<source, rows, refused, database, marker, snapshot, previous, attempt>>

ScriptStep ==
    \/ Mark \/ Settle \/ Copy \/ BeginReplay \/ Replay \/ StartService \/ Health \/ Compare
    \/ Complete

ImportNext ==
    \/ Check \/ ScriptStep \/ ScriptFails
    \/ Decoded \/ ServiceUp \/ AdminStarts \/ ServiceDown \/ Reboot

\* The script is scheduled, and systemd restarts the service until it has the lock.
ImportFairness == WF_importVars(ScriptStep) /\ WF_importVars(ServiceUp)

-----------------------------------------------------------------------------
\* No decode is stored twice: not by calling the script again after it stopped
\* half way, nor from the file and from UDP.
NeverTwice == \A d \in 1..MaxLines : rows[d] <= 1

\* An import is called complete when every line of ALL.TXT was handed to the
\* database, those that came between the snapshot and the start of the service
\* included; a line that the database did not take is only logged.
CompleteMeansAll ==
    [][script # "complete" /\ script' = "complete" => \A d \in 1..source : rows[d] = 1 \/ d \in refused]_script

\* While lines are replayed, the service stores nothing.
AloneWhileReplaying == script = "replay" => service # "up"

\* The import ends, and a service that was started comes up once it can.
ImportEnds ==
    /\ script # "idle" ~> script = "idle"
    /\ service = "starting" ~> service \in {"up", "stopped"}

\* One way in at a time: file and UDP never store the same decode, nor together.
ImportedOnce == NeverTwice /\ AloneWhileReplaying
=============================================================================
