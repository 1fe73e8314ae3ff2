---------------------------- MODULE MCOperations ----------------------------
(***************************************************************************)
(* What runs beside the logger, for TLC, in one run: the import, the       *)
(* copies of the database, the receiver's supervisor, the check of an      *)
(* installation and the archive of decodes share no state, so that each    *)
(* behaviour is one of one part; backups and exports do not either.  The   *)
(* bounds are in the cfg file.                                             *)
(***************************************************************************)
EXTENDS HistoryImport, Snapshots, ReceiverSupervisor, HeadlessCheck, DecodeArchive

VARIABLE part   \* the part whose behaviour it is

checkingVars == <<supervisorVars, headlessVars, archiveVars>>
vars == <<part, importVars, snapshotVars, checkingVars>>

Init ==
    /\ part \in {"import", "backup", "export", "supervisor", "headless", "archive"}
    /\ ImportInit /\ SnapshotsInit /\ SupervisorInit /\ HeadlessInit /\ ArchiveInit
    /\ part # "import" => source = 0

Next ==
    /\ UNCHANGED part
    /\ \/ part = "import" /\ ImportNext /\ UNCHANGED <<snapshotVars, checkingVars>>
       \/ part = "backup" /\ BackupNext /\ UNCHANGED <<importVars, checkingVars>>
       \/ part = "export" /\ ExportNext /\ UNCHANGED <<importVars, checkingVars>>
       \/ /\ UNCHANGED <<importVars, snapshotVars>>
          /\ \/ part = "supervisor" /\ SupervisorNext /\ UNCHANGED <<headlessVars, archiveVars>>
             \/ part = "headless" /\ HeadlessNext /\ UNCHANGED <<supervisorVars, archiveVars>>
             \/ part = "archive" /\ ArchiveNext /\ UNCHANGED <<supervisorVars, headlessVars>>

\* The supervisor's first step is enabled from the start: its fairness is asked only
\* of its own behaviours, as it would rule out all others.  What is fair of the
\* other parts is enabled only after a step of theirs.
Fairness ==
    /\ ImportFairness /\ SnapshotsFairness /\ HeadlessFairness
    /\ part = "supervisor" => SupervisorFairness

Spec == Init /\ [][Next]_vars /\ Fairness

-----------------------------------------------------------------------------
\* Every part has its types; jobs that have ended leave no temporary file behind.
OperationsTypeOK ==
    /\ ImportTypeOK /\ SnapshotsTypeOK /\ SupervisorTypeOK /\ HeadlessTypeOK /\ ArchiveTypeOK

\* Whatever an administrator starts comes to an end: imports, copies, the receiver's
\* pipeline and the check, over failures, kills and signals at any step.
OperationsEnd == ImportEnds /\ JobsEnd /\ PipelineEnds /\ VerdictReached
=============================================================================
