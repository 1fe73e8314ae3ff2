------------------------------ MODULE Snapshots ------------------------------
(***************************************************************************)
(* Copies of the database beside the logger that writes it: backups        *)
(* (backup_sqlite of database/backup.py, called by the timer, by hand and  *)
(* over ssh), the pulls that fetch one to another machine                  *)
(* (scripts/pull-radio-data), and the CSV export (export_cmd of cli.py).   *)
(* A job can fail at every step, or die, and run beside every other.       *)
(*                                                                         *)
(* A content is the pair of the states of the database that its two halves *)
(* come from; it is whole when they are one.  What SQLite promises is      *)
(* taken from it: a copy starts again when another process has written,    *)
(* and one SELECT sees one state.                                          *)
(***************************************************************************)
EXTENDS Naturals, FiniteSets, Sequences

CONSTANTS Backups,    \* runs of the backup
          Pulls,      \* runs of the pull
          Exports,    \* runs of the export
          Stamps,     \* moments, to the microsecond, that name a backup
          NoStamp,
          MaxVersion  \* bound: commits of the logger

ASSUME SnapshotsAssumption ==
    /\ MaxVersion \in Nat /\ NoStamp \notin Stamps
    /\ Backups \cap (Pulls \cup Exports) = {} /\ Pulls \cap Exports = {}

Jobs == Backups \cup Pulls \cup Exports

VARIABLES
    version, \* the state of the database: its commits
    job,     \* each job: where it is, its stamp or backup, and its temporary file
    begun,   \* (history) the version when each job began
    backup,  \* the backups: stamp -> content
    pulled,  \* the snapshots of the pulls: pull -> content
    latest,  \* the pull that latest.db names
    csv      \* the exported file

snapshotVars == <<version, job, begun, backup, pulled, latest, csv>>

Versions == 0..MaxVersion
Nothing  == <<>>
Contents == {Nothing} \cup {<<v>> : v \in Versions} \cup (Versions \X Versions)
Whole(content) == Len(content) = 2 /\ content[1] = content[2]

SnapshotsTypeOK ==
    /\ version \in Versions
    /\ job \in [Jobs -> [at : {"idle", "copy", "publish", "clean", "done", "failed", "dead"},
                         stamp : Stamps \cup {NoStamp}, temporary : Contents]]
    /\ \A j \in Jobs : job[j].at \in {"idle", "done", "failed"} => job[j].temporary = Nothing
    /\ begun \in [Jobs -> Versions]
    /\ backup \in [Stamps -> Contents] /\ pulled \in [Pulls -> Contents]
    /\ latest \subseteq Pulls /\ Cardinality(latest) <= 1
    /\ csv \in Contents

SnapshotsInit ==
    /\ version = 0 /\ begun = [j \in Jobs |-> 0]
    /\ job = [j \in Jobs |-> [at |-> "idle", stamp |-> NoStamp, temporary |-> Nothing]]
    /\ backup = [s \in Stamps |-> Nothing] /\ pulled = [p \in Pulls |-> Nothing]
    /\ latest = {} /\ csv = Nothing

Move(j, at) == job' = [job EXCEPT ![j].at = at]
Filled(j)   == Len(job[j].temporary) = 2

-----------------------------------------------------------------------------
\* The logger commits.
Commit ==
    /\ version < MaxVersion /\ version' = version + 1
    /\ UNCHANGED <<job, begun, backup, pulled, latest, csv>>

\* backup_sqlite up to the copy: it refuses a name that is there.
BeginBackup(j, s) ==
    /\ job[j].at = "idle"
    /\ job' = [job EXCEPT ![j].at = IF backup[s] = Nothing THEN "copy" ELSE "failed",
                          ![j].stamp = s]
    /\ begun' = [begun EXCEPT ![j] = version]
    /\ UNCHANGED <<version, backup, pulled, latest, csv>>

\* (mutant) A file is copied as it is.
CopiedAsItIs(sofar) == sofar \o <<version>>

\* (external) The copy starts again when the database has changed.
Copied(sofar) == IF sofar = <<version>> THEN <<version, version>> ELSE <<version>>

\* source.backup: the next pages.
CopyPages(j) ==
    /\ job[j].at = "copy" /\ ~Filled(j)
    /\ job' = [job EXCEPT ![j].temporary = Copied(@)]
    /\ UNCHANGED <<version, begun, backup, pulled, latest, csv>>

\* quick_check finds the whole database.
Checked(j) == Filled(j)

\* quick_check, journal_mode and fsync
CheckBackup(j) ==
    /\ job[j].at = "copy" /\ Checked(j)
    /\ Move(j, "publish")
    /\ UNCHANGED <<version, begun, backup, pulled, latest, csv>>

\* (mutant) The name is taken even when it is there.
FreeAlways(s) == TRUE

\* os.link, and os.rename on Windows, fail when the name is there.
Free(s) == backup[s] = Nothing

\* FileExistsError, and the temporary file goes.
Refused(j) == job' = [job EXCEPT ![j].at = "failed", ![j].temporary = Nothing]

PublishBackup(j) ==
    LET s == job[j].stamp IN
    /\ job[j].at = "publish"
    /\ IF Free(s)
       THEN Move(j, "clean") /\ backup' = [backup EXCEPT ![s] = job[j].temporary]
       ELSE Refused(j) /\ UNCHANGED backup
    /\ UNCHANGED <<version, begun, pulled, latest, csv>>

\* The temporary file goes, and the name is reported.
EndBackup(j) ==
    /\ job[j].at = "clean"
    /\ job' = [job EXCEPT ![j].at = "done", ![j].temporary = Nothing]
    /\ UNCHANGED <<version, begun, backup, pulled, latest, csv>>

-----------------------------------------------------------------------------
\* create_remote_backup: it has run a backup, which reported its name.
BeginPull(j, b) ==
    /\ job[j].at = "idle" /\ job[b].at = "done"
    /\ job' = [job EXCEPT ![j].at = "copy", ![j].stamp = job[b].stamp]
    /\ begun' = [begun EXCEPT ![j] = begun[b]]
    /\ UNCHANGED <<version, backup, pulled, latest, csv>>

\* scp
Fetch(j) ==
    /\ job[j].at = "copy" /\ ~Filled(j)
    /\ job' = [job EXCEPT ![j].temporary =
                  Append(@, backup[job[j].stamp][Len(@) + 1])]
    /\ UNCHANGED <<version, begun, backup, pulled, latest, csv>>

\* inspect_snapshot and os.replace
KeepPull(j) ==
    /\ job[j].at = "copy" /\ Checked(j)
    /\ pulled' = [pulled EXCEPT ![j] = job[j].temporary]
    /\ job' = [job EXCEPT ![j].at = "publish", ![j].temporary = Nothing]
    /\ UNCHANGED <<version, begun, backup, latest, csv>>

\* update_latest: a new link replaces the old one.  rsync comes after it.
UpdateLatest(j) ==
    /\ job[j].at = "publish" /\ Move(j, "done")
    /\ latest' = {j}
    /\ UNCHANGED <<version, begun, backup, pulled, csv>>

-----------------------------------------------------------------------------
BeginExport(j) ==
    /\ job[j].at = "idle" /\ Move(j, "copy")
    /\ begun' = [begun EXCEPT ![j] = version]
    /\ UNCHANGED <<version, backup, pulled, latest, csv>>

\* iter_observations is one SELECT: its rows are those of its first one.
WriteRows(j) ==
    /\ job[j].at = "copy" /\ ~Filled(j)
    /\ job' = [job EXCEPT ![j].temporary = IF @ = Nothing THEN <<version>> ELSE <<@[1], @[1]>>]
    /\ UNCHANGED <<version, begun, backup, pulled, latest, csv>>

\* os.replace
PublishCsv(j) ==
    /\ job[j].at = "copy" /\ Checked(j)
    /\ csv' = job[j].temporary
    /\ job' = [job EXCEPT ![j].at = "done", ![j].temporary = Nothing]
    /\ UNCHANGED <<version, begun, backup, pulled, latest>>

-----------------------------------------------------------------------------
\* (mutant) The temporary file stays.
LeavesPartial(j) == Move(j, "failed")

\* The finally clause: the temporary file goes.
CleanUp(j) == job' = [job EXCEPT ![j].at = "failed", ![j].temporary = Nothing]

\* An error, or the deadline of a backup.
JobFails(j) ==
    /\ job[j].at \in {"copy", "publish"}
    /\ CleanUp(j)
    /\ UNCHANGED <<version, begun, backup, pulled, latest, csv>>

\* The process is killed: its temporary file stays.
JobDies(j) ==
    /\ job[j].at \in {"copy", "publish", "clean"} /\ Move(j, "dead")
    /\ UNCHANGED <<version, begun, backup, pulled, latest, csv>>

BackupStep(j) == CopyPages(j) \/ CheckBackup(j) \/ PublishBackup(j) \/ EndBackup(j)
PullStep(j)   == Fetch(j) \/ KeepPull(j) \/ UpdateLatest(j)
ExportStep(j) == WriteRows(j) \/ PublishCsv(j)

BackupNext ==
    \/ Commit
    \/ \E j \in Backups : BackupStep(j) \/ \E s \in Stamps : BeginBackup(j, s)
    \/ \E j \in Pulls : PullStep(j) \/ \E b \in Backups : BeginPull(j, b)
    \/ \E j \in Backups \cup Pulls : JobFails(j) \/ JobDies(j)

ExportNext ==
    \/ Commit
    \/ \E j \in Exports : ExportStep(j) \/ BeginExport(j) \/ JobFails(j) \/ JobDies(j)

SnapshotsNext == BackupNext \/ ExportNext

\* Jobs run, and a backup that the logger's writes restart for ever has its deadline.
SnapshotsFairness ==
    /\ \A j \in Backups : WF_snapshotVars(BackupStep(j) \/ JobFails(j))
    /\ \A j \in Pulls : WF_snapshotVars(PullStep(j) \/ JobFails(j))
    /\ \A j \in Exports : WF_snapshotVars(ExportStep(j) \/ JobFails(j))

-----------------------------------------------------------------------------
\* Whatever fails, dies or writes meanwhile, what has the name of a backup, a
\* pulled snapshot or the export is whole, and latest.db names such a snapshot.
PublishedIsWhole ==
    /\ \A s \in Stamps : backup[s] # Nothing => Whole(backup[s])
    /\ \A p \in Pulls : pulled[p] # Nothing => Whole(pulled[p])
    /\ \A p \in latest : pulled[p] # Nothing
    /\ csv # Nothing => Whole(csv)

\* No backup replaces another, not even one that was begun in the same moment.
BackupsKept == [][\A s \in Stamps : backup[s] # Nothing => backup'[s] = backup[s]]_backup

\* A backup that reports its name is there, and has all that was stored before it
\* began; so has a pull of it.
BackupIsCurrent ==
    /\ \A j \in Backups : job[j].at = "done" =>
          backup[job[j].stamp] # Nothing /\ backup[job[j].stamp][1] >= begun[j]
    /\ \A j \in Pulls : job[j].at = "done" => pulled[j][1] >= begun[j]

\* Every job ends, however much the logger writes.
JobsEnd ==
    \A j \in Jobs : job[j].at \in {"copy", "publish"} ~> job[j].at \in {"done", "failed", "dead"}

\* What is published can be restored: it is whole, and as recent as it was asked for.
PublishedIsSound == PublishedIsWhole /\ BackupIsCurrent
=============================================================================
