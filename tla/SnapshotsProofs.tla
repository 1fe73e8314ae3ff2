--------------------------- MODULE SnapshotsProofs ---------------------------
(***************************************************************************)
(* Proofs about Snapshots, for any backups, pulls and exports beside each  *)
(* other and the logger: what is published is whole and recent, and no     *)
(* backup is replaced.                                                     *)
(***************************************************************************)
EXTENDS Snapshots, FiniteSetTheorems, SequenceTheorems, TLAPS

SnapshotsSpec == SnapshotsInit /\ [][SnapshotsNext]_snapshotVars

Places    == {"idle", "copy", "publish", "clean", "done", "failed", "dead"}
JobRecord == [at : Places, stamp : Stamps \cup {NoStamp}, temporary : Contents]

\* The contents of one state of the database
CopyOf(v) == <<v, v>>

\* Contents that may be published
Publishable(content) == content = Nothing \/ \E v \in Versions : content = CopyOf(v)

\* What a job has, of the state v or later ones, is a part of one state.
BackupHas(j) ==
    /\ job[j].at = "copy" =>
          \/ job[j].temporary = Nothing
          \/ \E v \in Versions : v >= begun[j] /\ job[j].temporary \in {<<v>>, CopyOf(v)}
    /\ job[j].at = "publish" => \E v \in Versions : v >= begun[j] /\ job[j].temporary = CopyOf(v)
    /\ job[j].at \in {"copy", "publish", "clean", "done"} => job[j].stamp \in Stamps
    /\ job[j].at \in {"clean", "done"} =>
          \E v \in Versions : v >= begun[j] /\ backup[job[j].stamp] = CopyOf(v)

PullHas(j) ==
    /\ job[j].at = "copy" =>
          /\ job[j].stamp \in Stamps
          /\ \E v \in Versions : /\ v >= begun[j] /\ backup[job[j].stamp] = CopyOf(v)
                                 /\ job[j].temporary \in {Nothing, <<v>>, CopyOf(v)}
    /\ job[j].at \in {"publish", "done"} =>
          \E v \in Versions : v >= begun[j] /\ pulled[j] = CopyOf(v)
    /\ job[j].at = "publish" => job[j].temporary = Nothing

ExportHas(j) ==
    /\ job[j].at = "copy" =>
          \/ job[j].temporary = Nothing
          \/ \E v \in Versions : job[j].temporary \in {<<v>>, CopyOf(v)}

JobHas(j) ==
    /\ begun[j] \in 0..version
    /\ job[j].at = "idle" => job[j].temporary = Nothing
    /\ j \in Backups => BackupHas(j)
    /\ j \in Pulls   => PullHas(j)
    /\ j \in Exports => ExportHas(j)

Published ==
    /\ \A s \in Stamps : Publishable(backup[s])
    /\ \A p \in Pulls : Publishable(pulled[p])
    /\ Publishable(csv)
    /\ \A p \in latest : p \in Pulls /\ pulled[p] # Nothing

SnapshotsInv == SnapshotsTypeOK /\ Published /\ \A j \in Jobs : JobHas(j)

-----------------------------------------------------------------------------
LEMMA Sizes ==
    ASSUME NEW v
    PROVE  /\ Len(Nothing) = 0 /\ Len(<<v>>) = 1 /\ Len(CopyOf(v)) = 2
           /\ Nothing # <<v>> /\ Nothing # CopyOf(v) /\ <<v>> # CopyOf(v)
           /\ <<v>>[1] = v /\ CopyOf(v)[1] = v /\ CopyOf(v)[2] = v
           /\ Append(Nothing, v) = <<v>> /\ Append(<<v>>, v) = CopyOf(v)
<1>1. Len(Nothing) = 0 /\ Len(<<v>>) = 1 /\ Len(CopyOf(v)) = 2
  BY DEF Nothing, CopyOf
<1>2. <<v>>[1] = v /\ CopyOf(v)[1] = v /\ CopyOf(v)[2] = v
  BY DEF CopyOf
<1>3. Append(Nothing, v) = <<v>>
  BY DEF Nothing
<1>4. Append(<<v>>, v) = CopyOf(v)
  <2>1. <<v>> \in Seq({v}) /\ CopyOf(v) \in Seq({v})
    BY DEF CopyOf
  <2>2. /\ Append(<<v>>, v) \in Seq({v}) /\ Len(Append(<<v>>, v)) = 2
        /\ Append(<<v>>, v)[1] = v /\ Append(<<v>>, v)[2] = v
    BY <1>1, <1>2, <2>1, AppendProperties
  <2>3. \A i \in 1..2 : Append(<<v>>, v)[i] = CopyOf(v)[i]
    BY <1>2, <2>2
  <2> QED
    BY <1>1, <2>1, <2>2, <2>3, SeqEqual
<1> QED
  BY <1>1, <1>2, <1>3, <1>4

LEMMA Kinds ==
    /\ \A v \in Versions : <<v>> \in Contents /\ CopyOf(v) \in Contents /\ Whole(CopyOf(v))
    /\ Nothing \in Contents /\ ~Whole(Nothing)
<1>1. ASSUME NEW v \in Versions
      PROVE  <<v>> \in Contents /\ CopyOf(v) \in Contents /\ Whole(CopyOf(v))
  <2>1. <<v>> \in {<<w>> : w \in Versions} /\ <<v, v>> \in Versions \X Versions
    OBVIOUS
  <2>2. Whole(CopyOf(v))
    BY Sizes DEF Whole
  <2> QED
    BY <2>1, <2>2 DEF Contents, CopyOf
<1>2. Nothing \in Contents /\ ~Whole(Nothing)
  BY DEF Contents, Whole, Nothing
<1> QED
  BY <1>1, <1>2

LEMMA Typed ==
    ASSUME SnapshotsInv
    PROVE  /\ version \in Versions /\ version \in Nat /\ Versions \subseteq Nat
           /\ job \in [Jobs -> JobRecord] /\ begun \in [Jobs -> Versions]
           /\ backup \in [Stamps -> Contents] /\ pulled \in [Pulls -> Contents]
           /\ latest \subseteq Pulls /\ Cardinality(latest) <= 1 /\ csv \in Contents
           /\ Backups \subseteq Jobs /\ Pulls \subseteq Jobs /\ Exports \subseteq Jobs
BY SnapshotsAssumption DEF SnapshotsInv, SnapshotsTypeOK, JobRecord, Places, Versions, Jobs

\* A step of one job: what the others have stays true, since nothing that is published
\* is taken back.
LEMMA OneJob ==
    ASSUME SnapshotsInv, NEW j \in Jobs, NEW r \in JobRecord,
           job' = [job EXCEPT ![j] = r], version' = version,
           begun' \in [Jobs -> Versions], \A i \in Jobs \ {j} : begun'[i] = begun[i],
           backup' \in [Stamps -> Contents],
           \A s \in Stamps : backup[s] # Nothing => backup'[s] = backup[s],
           pulled' \in [Pulls -> Contents], \A p \in Pulls \ {j} : pulled'[p] = pulled[p],
           latest' \subseteq Pulls, Cardinality(latest') <= 1, csv' \in Contents,
           r.at \in {"idle", "done", "failed"} => r.temporary = Nothing,
           Published', JobHas(j)'
    PROVE  SnapshotsInv'
<1>1. job' \in [Jobs -> JobRecord] /\ job'[j] = r /\ \A i \in Jobs \ {j} : job'[i] = job[i]
  BY Typed
<1>2. SnapshotsTypeOK'
  <2>1. \A i \in Jobs : job'[i].at \in {"idle", "done", "failed"} => job'[i].temporary = Nothing
    BY <1>1 DEF SnapshotsInv, SnapshotsTypeOK
  <2> QED
    BY <1>1, <2>1, Typed DEF SnapshotsTypeOK, JobRecord, Places
<1>3. ASSUME NEW i \in Jobs \ {j}
      PROVE  JobHas(i)'
  <2>1. /\ job'[i] = job[i] /\ begun'[i] = begun[i] /\ JobHas(i)
        /\ i \in Pulls => pulled'[i] = pulled[i]
    BY <1>1 DEF SnapshotsInv
  <2>2. \A s \in Stamps, v \in Versions : backup[s] = CopyOf(v) => backup'[s] = CopyOf(v)
    BY Sizes
  <2>3. i \in Backups => BackupHas(i)'
    BY <2>1, <2>2 DEF JobHas, BackupHas
  <2>4. i \in Pulls => PullHas(i)'
    BY <2>1, <2>2 DEF JobHas, PullHas
  <2>5. i \in Exports => ExportHas(i)'
    BY <2>1 DEF JobHas, ExportHas
  <2> QED
    BY <2>1, <2>3, <2>4, <2>5 DEF JobHas
<1> QED
  BY <1>2, <1>3 DEF SnapshotsInv

-----------------------------------------------------------------------------
LEMMA CommitKeeps ==
    ASSUME SnapshotsInv, Commit
    PROVE  SnapshotsInv'
<1>1. /\ UNCHANGED <<job, begun, backup, pulled, latest, csv>>
      /\ version' = version + 1 /\ version' \in Versions /\ version \in Nat
  BY Typed, SnapshotsAssumption DEF Commit, Versions
<1>2. SnapshotsTypeOK'
  BY <1>1 DEF SnapshotsInv, SnapshotsTypeOK
<1>3. Published'
  BY <1>1 DEF SnapshotsInv, Published, Publishable
<1>4. ASSUME NEW j \in Jobs
      PROVE  JobHas(j)'
  <2>1. JobHas(j)
    BY DEF SnapshotsInv
  <2> QED
    BY <1>1, <2>1 DEF JobHas, BackupHas, PullHas, ExportHas
<1> QED
  BY <1>2, <1>3, <1>4 DEF SnapshotsInv

LEMMA BeginBackupKeeps ==
    ASSUME SnapshotsInv, NEW j \in Backups, NEW s \in Stamps, BeginBackup(j, s)
    PROVE  SnapshotsInv'
<1> DEFINE at == IF backup[s] = Nothing THEN "copy" ELSE "failed"
           r  == [job[j] EXCEPT !.at = at, !.stamp = s]
<1>1. /\ job' = [job EXCEPT ![j] = r] /\ begun' = [begun EXCEPT ![j] = version]
      /\ UNCHANGED <<version, backup, pulled, latest, csv>>
      /\ job[j] \in JobRecord /\ job[j].at = "idle" /\ job[j].temporary = Nothing /\ j \in Jobs
  BY Typed DEF BeginBackup, SnapshotsInv, JobHas
<1>2. r \in JobRecord /\ r.at = at /\ r.stamp = s /\ r.temporary = Nothing
  BY <1>1 DEF JobRecord, Places
<1>3. job'[j] = r /\ begun'[j] = version /\ begun' \in [Jobs -> Versions]
      /\ \A i \in Jobs \ {j} : begun'[i] = begun[i]
  BY <1>1, Typed
<1>4. Published'
  BY <1>1 DEF SnapshotsInv, Published, Publishable
<1>5. JobHas(j)'
  <2>1. j \notin Pulls /\ j \notin Exports
    BY SnapshotsAssumption
  <2> QED
    BY <1>1, <1>2, <1>3, <2>1, Typed DEF JobHas, BackupHas
<1> QED
  BY <1>1, <1>2, <1>3, <1>4, <1>5, Typed, OneJob

LEMMA BackupSteps ==
    ASSUME SnapshotsInv, NEW j \in Backups, BackupStep(j)
    PROVE  SnapshotsInv'
<1>1. /\ UNCHANGED <<version, begun, pulled, latest, csv>>
      /\ job[j] \in JobRecord /\ j \in Jobs /\ j \notin Pulls /\ j \notin Exports
      /\ BackupHas(j) /\ begun[j] \in 0..version /\ JobHas(j)
  BY Typed, SnapshotsAssumption
  DEF BackupStep, CopyPages, CheckBackup, PublishBackup, EndBackup, SnapshotsInv, JobHas
<1>2. UNCHANGED backup => Published'
  BY <1>1 DEF SnapshotsInv, Published, Publishable
<1>3. CASE CopyPages(j)
  <2> DEFINE r == [job[j] EXCEPT !.temporary = Copied(job[j].temporary)]
  <2>1. /\ job' = [job EXCEPT ![j] = r] /\ UNCHANGED backup /\ job[j].at = "copy"
        /\ Len(job[j].temporary) # 2
    BY <1>3 DEF CopyPages, Filled
  <2>2. PICK v \in Versions : v >= begun[j] /\ Copied(job[j].temporary) \in {<<v>>, CopyOf(v)}
    <3>1. Copied(job[j].temporary) \in {<<version>>, CopyOf(version)}
      BY DEF Copied, CopyOf
    <3> QED
      BY <1>1, <3>1, Typed
  <2>3. /\ r \in JobRecord /\ r.at = "copy" /\ r.stamp = job[j].stamp
        /\ r.temporary = Copied(job[j].temporary)
    BY <1>1, <2>1, <2>2, Kinds DEF JobRecord
  <2>4. job'[j] = r
    BY <1>1, <2>1, Typed
  <2>5. JobHas(j)'
    BY <1>1, <2>1, <2>2, <2>3, <2>4 DEF JobHas, BackupHas
  <2> QED
    BY <1>1, <1>2, <2>1, <2>3, <2>5, Typed, OneJob
<1>4. CASE CheckBackup(j)
  <2> DEFINE r == [job[j] EXCEPT !.at = "publish"]
  <2>1. /\ job' = [job EXCEPT ![j] = r] /\ UNCHANGED backup /\ job[j].at = "copy"
        /\ Len(job[j].temporary) = 2
    BY <1>4 DEF CheckBackup, Checked, Filled, Move
  <2>2. PICK v \in Versions : v >= begun[j] /\ job[j].temporary = CopyOf(v)
    <3>1. job[j].temporary # Nothing
      BY <2>1 DEF Nothing
    <3>2. PICK v \in Versions : v >= begun[j] /\ job[j].temporary \in {<<v>>, CopyOf(v)}
      BY <1>1, <2>1, <3>1 DEF BackupHas
    <3>3. job[j].temporary # <<v>>
      BY <2>1, Sizes
    <3> QED
      BY <3>2, <3>3
  <2>3. /\ r \in JobRecord /\ r.at = "publish" /\ r.stamp = job[j].stamp
        /\ r.temporary = job[j].temporary
    BY <1>1 DEF JobRecord, Places
  <2>4. job'[j] = r
    BY <1>1, <2>1, Typed
  <2>5. JobHas(j)'
    BY <1>1, <2>1, <2>2, <2>3, <2>4 DEF JobHas, BackupHas
  <2> QED
    BY <1>1, <1>2, <2>1, <2>3, <2>5, Typed, OneJob
<1>5. CASE PublishBackup(j) /\ Free(job[j].stamp)
  <2> DEFINE r == [job[j] EXCEPT !.at = "clean"]
             s == job[j].stamp
  <2>1. /\ job' = [job EXCEPT ![j] = r] /\ job[j].at = "publish" /\ backup[s] = Nothing
        /\ backup' = [backup EXCEPT ![s] = job[j].temporary]
    BY <1>5 DEF PublishBackup, Free, Move
  <2>2. s \in Stamps
    BY <1>1, <2>1 DEF BackupHas
  <2>3. PICK v \in Versions : v >= begun[j] /\ job[j].temporary = CopyOf(v)
    BY <1>1, <2>1 DEF BackupHas
  <2>4. /\ r \in JobRecord /\ r.at = "clean" /\ r.stamp = s /\ r.temporary = job[j].temporary
    BY <1>1 DEF JobRecord, Places
  <2>5. /\ job'[j] = r /\ backup' \in [Stamps -> Contents] /\ backup'[s] = CopyOf(v)
        /\ \A t \in Stamps \ {s} : backup'[t] = backup[t]
    BY <1>1, <2>1, <2>2, <2>3, Typed, Kinds
  <2>6. Published'
    BY <1>1, <2>3, <2>5 DEF SnapshotsInv, Published, Publishable
  <2>7. JobHas(j)'
    BY <1>1, <2>2, <2>3, <2>4, <2>5 DEF JobHas, BackupHas
  <2> QED
    BY <1>1, <2>1, <2>4, <2>5, <2>6, <2>7, Typed, OneJob
<1>6. CASE PublishBackup(j) /\ ~Free(job[j].stamp)
  <2> DEFINE r == [job[j] EXCEPT !.at = "failed", !.temporary = Nothing]
  <2>1. job' = [job EXCEPT ![j] = r] /\ UNCHANGED backup
    BY <1>6 DEF PublishBackup, Refused
  <2>2. /\ r \in JobRecord /\ r.at = "failed" /\ r.stamp = job[j].stamp /\ r.temporary = Nothing
    BY <1>1, Kinds DEF JobRecord, Places
  <2>3. job'[j] = r
    BY <1>1, <2>1, Typed
  <2>4. JobHas(j)'
    BY <1>1, <2>2, <2>3 DEF JobHas, BackupHas
  <2> QED
    BY <1>1, <1>2, <2>1, <2>2, <2>4, Typed, OneJob
<1>7. CASE EndBackup(j)
  <2> DEFINE r == [job[j] EXCEPT !.at = "done", !.temporary = Nothing]
  <2>1. job' = [job EXCEPT ![j] = r] /\ UNCHANGED backup /\ job[j].at = "clean"
    BY <1>7 DEF EndBackup
  <2>2. /\ r \in JobRecord /\ r.at = "done" /\ r.stamp = job[j].stamp /\ r.temporary = Nothing
    BY <1>1, Kinds DEF JobRecord, Places
  <2>3. job'[j] = r
    BY <1>1, <2>1, Typed
  <2>4. JobHas(j)'
    BY <1>1, <2>1, <2>2, <2>3 DEF JobHas, BackupHas
  <2> QED
    BY <1>1, <1>2, <2>1, <2>2, <2>4, Typed, OneJob
<1> QED
  BY <1>3, <1>4, <1>5, <1>6, <1>7 DEF BackupStep

LEMMA BeginPullKeeps ==
    ASSUME SnapshotsInv, NEW j \in Pulls, NEW b \in Backups, BeginPull(j, b)
    PROVE  SnapshotsInv'
<1> DEFINE r == [job[j] EXCEPT !.at = "copy", !.stamp = job[b].stamp]
<1>1. /\ job' = [job EXCEPT ![j] = r] /\ begun' = [begun EXCEPT ![j] = begun[b]]
      /\ UNCHANGED <<version, backup, pulled, latest, csv>>
      /\ job[j] \in JobRecord /\ job[j].at = "idle" /\ job[j].temporary = Nothing
      /\ j \in Jobs /\ b \in Jobs /\ j \notin Backups /\ j \notin Exports
      /\ job[b].at = "done" /\ BackupHas(b) /\ begun[b] \in 0..version
  BY Typed, SnapshotsAssumption DEF BeginPull, SnapshotsInv, JobHas
<1>2. job[b].stamp \in Stamps
  BY <1>1 DEF BackupHas
<1>3. PICK v \in Versions : v >= begun[b] /\ backup[job[b].stamp] = CopyOf(v)
  BY <1>1 DEF BackupHas
<1>4. r \in JobRecord /\ r.at = "copy" /\ r.stamp = job[b].stamp /\ r.temporary = Nothing
  BY <1>1, <1>2 DEF JobRecord, Places
<1>5. /\ job'[j] = r /\ begun'[j] = begun[b] /\ begun' \in [Jobs -> Versions]
      /\ \A i \in Jobs \ {j} : begun'[i] = begun[i]
  BY <1>1, Typed
<1>6. Published'
  BY <1>1 DEF SnapshotsInv, Published, Publishable
<1>7. JobHas(j)'
  BY <1>1, <1>2, <1>3, <1>4, <1>5 DEF JobHas, PullHas
<1> QED
  BY <1>1, <1>4, <1>5, <1>6, <1>7, Typed, OneJob

LEMMA PullSteps ==
    ASSUME SnapshotsInv, NEW j \in Pulls, PullStep(j)
    PROVE  SnapshotsInv'
<1>1. /\ UNCHANGED <<version, begun, backup, csv>>
      /\ job[j] \in JobRecord /\ j \in Jobs /\ j \notin Backups /\ j \notin Exports
      /\ PullHas(j) /\ begun[j] \in 0..version
  BY Typed, SnapshotsAssumption DEF PullStep, Fetch, KeepPull, UpdateLatest, SnapshotsInv, JobHas
<1>2. CASE Fetch(j)
  <2> DEFINE taken == Append(job[j].temporary, backup[job[j].stamp][Len(job[j].temporary) + 1])
             r     == [job[j] EXCEPT !.temporary = taken]
  <2>1. /\ job' = [job EXCEPT ![j] = r] /\ UNCHANGED <<pulled, latest>> /\ job[j].at = "copy"
        /\ Len(job[j].temporary) # 2
    BY <1>2 DEF Fetch, Filled
  <2>2. PICK v \in Versions : /\ v >= begun[j] /\ backup[job[j].stamp] = CopyOf(v)
                              /\ job[j].temporary \in {Nothing, <<v>>, CopyOf(v)}
    BY <1>1, <2>1 DEF PullHas
  <2>3. job[j].temporary # CopyOf(v)
    BY <2>1, Sizes
  <2>4. taken \in {<<v>>, CopyOf(v)}
    <3>1. CASE job[j].temporary = Nothing
      <4>1. Len(Nothing) = 0 /\ CopyOf(v)[1] = v /\ Append(Nothing, v) = <<v>>
        BY Sizes
      <4> QED
        BY <2>2, <3>1, <4>1
    <3>2. CASE job[j].temporary = <<v>>
      <4>1. Len(<<v>>) = 1 /\ CopyOf(v)[2] = v /\ Append(<<v>>, v) = CopyOf(v)
        BY Sizes
      <4> QED
        BY <2>2, <3>2, <4>1
    <3> QED
      BY <2>2, <2>3, <3>1, <3>2
  <2> HIDE DEF taken
  <2>5. /\ r \in JobRecord /\ r.at = "copy" /\ r.stamp = job[j].stamp /\ r.temporary = taken
    BY <1>1, <2>1, <2>4, Kinds DEF JobRecord
  <2>6. job'[j] = r
    BY <1>1, <2>1, Typed
  <2>7. JobHas(j)'
    BY <1>1, <2>1, <2>2, <2>4, <2>5, <2>6 DEF JobHas, PullHas
  <2>8. Published'
    BY <1>1, <2>1 DEF SnapshotsInv, Published, Publishable
  <2> QED
    BY <1>1, <2>1, <2>5, <2>7, <2>8, Typed, OneJob
<1>3. CASE KeepPull(j)
  <2> DEFINE r == [job[j] EXCEPT !.at = "publish", !.temporary = Nothing]
  <2>1. /\ job' = [job EXCEPT ![j] = r] /\ UNCHANGED latest /\ job[j].at = "copy"
        /\ pulled' = [pulled EXCEPT ![j] = job[j].temporary] /\ Len(job[j].temporary) = 2
    BY <1>3 DEF KeepPull, Checked, Filled
  <2>2. PICK v \in Versions : v >= begun[j] /\ job[j].temporary \in {Nothing, <<v>>, CopyOf(v)}
    BY <1>1, <2>1 DEF PullHas
  <2>3. job[j].temporary = CopyOf(v)
    <3>1. Len(Nothing) = 0 /\ Len(<<v>>) = 1
      BY Sizes
    <3> QED
      BY <2>1, <2>2, <3>1
  <2>4. /\ r \in JobRecord /\ r.at = "publish" /\ r.stamp = job[j].stamp /\ r.temporary = Nothing
    BY <1>1, Kinds DEF JobRecord, Places
  <2>5. /\ job'[j] = r /\ pulled' \in [Pulls -> Contents] /\ pulled'[j] = CopyOf(v)
        /\ \A p \in Pulls \ {j} : pulled'[p] = pulled[p]
    BY <1>1, <2>1, <2>3, Typed, Kinds
  <2>6. CopyOf(v) # Nothing
    BY Sizes
  <2>7. Published'
    BY <1>1, <2>1, <2>5, <2>6 DEF SnapshotsInv, Published, Publishable
  <2>8. JobHas(j)'
    BY <1>1, <2>2, <2>4, <2>5 DEF JobHas, PullHas
  <2> QED
    BY <1>1, <2>1, <2>4, <2>5, <2>7, <2>8, Typed, OneJob
<1>4. CASE UpdateLatest(j)
  <2> DEFINE r == [job[j] EXCEPT !.at = "done"]
  <2>1. /\ job' = [job EXCEPT ![j] = r] /\ UNCHANGED pulled /\ job[j].at = "publish"
        /\ latest' = {j}
    BY <1>4 DEF UpdateLatest, Move
  <2>2. /\ r \in JobRecord /\ r.at = "done" /\ r.stamp = job[j].stamp
        /\ r.temporary = job[j].temporary
    BY <1>1 DEF JobRecord, Places
  <2>3. PICK v \in Versions : v >= begun[j] /\ pulled[j] = CopyOf(v)
    BY <1>1, <2>1 DEF PullHas
  <2>4. job'[j] = r /\ Cardinality(latest') <= 1 /\ pulled[j] # Nothing
    <3>1. Cardinality({j}) = 1
      BY FS_Singleton
    <3>2. Nothing # CopyOf(v)
      BY Sizes
    <3> QED
      BY <1>1, <2>1, <2>3, <3>1, <3>2, Typed
  <2>5. Published'
    BY <1>1, <2>1, <2>4 DEF SnapshotsInv, Published, Publishable
  <2>6. JobHas(j)'
    BY <1>1, <2>1, <2>2, <2>3, <2>4 DEF JobHas, PullHas
  <2> QED
    BY <1>1, <2>1, <2>2, <2>4, <2>5, <2>6, Typed, OneJob DEF PullHas
<1> QED
  BY <1>2, <1>3, <1>4 DEF PullStep

LEMMA ExportSteps ==
    ASSUME SnapshotsInv, NEW j \in Exports, BeginExport(j) \/ ExportStep(j)
    PROVE  SnapshotsInv'
<1>1. /\ UNCHANGED <<version, backup, pulled, latest>>
      /\ job[j] \in JobRecord /\ j \in Jobs /\ j \notin Backups /\ j \notin Pulls
      /\ ExportHas(j) /\ begun[j] \in 0..version /\ version \in Versions
      /\ job[j].at = "idle" => job[j].temporary = Nothing
  BY Typed, SnapshotsAssumption DEF ExportStep, BeginExport, WriteRows, PublishCsv, SnapshotsInv, JobHas
<1>2. UNCHANGED csv => Published'
  BY <1>1 DEF SnapshotsInv, Published, Publishable
<1>3. CASE BeginExport(j)
  <2> DEFINE r == [job[j] EXCEPT !.at = "copy"]
  <2>1. /\ job' = [job EXCEPT ![j] = r] /\ UNCHANGED csv /\ job[j].at = "idle"
        /\ begun' = [begun EXCEPT ![j] = version]
    BY <1>3 DEF BeginExport, Move
  <2>2. /\ r \in JobRecord /\ r.at = "copy" /\ r.stamp = job[j].stamp /\ r.temporary = Nothing
    BY <1>1, <2>1 DEF JobRecord, Places
  <2>3. /\ job'[j] = r /\ begun'[j] = version /\ begun' \in [Jobs -> Versions]
        /\ \A i \in Jobs \ {j} : begun'[i] = begun[i]
    BY <1>1, <2>1, Typed
  <2>4. JobHas(j)'
    BY <1>1, <2>2, <2>3, Typed DEF JobHas, ExportHas
  <2> QED
    BY <1>1, <1>2, <2>1, <2>2, <2>3, <2>4, Typed, OneJob
<1>4. CASE WriteRows(j)
  <2> DEFINE rows == IF job[j].temporary = Nothing THEN <<version>>
                     ELSE <<job[j].temporary[1], job[j].temporary[1]>>
             r    == [job[j] EXCEPT !.temporary = rows]
  <2>1. /\ job' = [job EXCEPT ![j] = r] /\ UNCHANGED <<csv, begun>> /\ job[j].at = "copy"
    BY <1>4 DEF WriteRows
  <2>2. \E v \in Versions : rows \in {<<v>>, CopyOf(v)}
    <3>1. CASE job[j].temporary = Nothing
      BY <1>1, <3>1
    <3>2. CASE job[j].temporary # Nothing
      <4>1. PICK v \in Versions : job[j].temporary \in {<<v>>, CopyOf(v)}
        BY <1>1, <2>1, <3>2 DEF ExportHas
      <4>2. job[j].temporary[1] = v
        BY <4>1, Sizes
      <4> QED
        BY <3>2, <4>2 DEF CopyOf
    <3> QED
      BY <3>1, <3>2
  <2> HIDE DEF rows
  <2>3. /\ r \in JobRecord /\ r.at = "copy" /\ r.stamp = job[j].stamp /\ r.temporary = rows
    BY <1>1, <2>1, <2>2, Kinds DEF JobRecord
  <2>4. job'[j] = r
    BY <1>1, <2>1, Typed
  <2>5. JobHas(j)'
    BY <1>1, <2>1, <2>2, <2>3, <2>4 DEF JobHas, ExportHas
  <2> QED
    BY <1>1, <1>2, <2>1, <2>3, <2>5, Typed, OneJob
<1>5. CASE PublishCsv(j)
  <2> DEFINE r == [job[j] EXCEPT !.at = "done", !.temporary = Nothing]
  <2>1. /\ job' = [job EXCEPT ![j] = r] /\ UNCHANGED begun /\ job[j].at = "copy"
        /\ csv' = job[j].temporary /\ Len(job[j].temporary) = 2
    BY <1>5 DEF PublishCsv, Checked, Filled
  <2>2. PICK v \in Versions : job[j].temporary = CopyOf(v)
    <3>1. job[j].temporary # Nothing
      BY <2>1 DEF Nothing
    <3>2. PICK v \in Versions : job[j].temporary \in {<<v>>, CopyOf(v)}
      BY <1>1, <2>1, <3>1 DEF ExportHas
    <3>3. job[j].temporary # <<v>>
      BY <2>1, Sizes
    <3> QED
      BY <3>2, <3>3
  <2>3. /\ r \in JobRecord /\ r.at = "done" /\ r.stamp = job[j].stamp /\ r.temporary = Nothing
    BY <1>1, Kinds DEF JobRecord, Places
  <2>4. job'[j] = r /\ csv' \in Contents
    BY <1>1, <2>1, <2>2, Typed, Kinds
  <2>5. Published'
    BY <1>1, <2>1, <2>2 DEF SnapshotsInv, Published, Publishable
  <2>6. JobHas(j)'
    BY <1>1, <2>1, <2>3, <2>4 DEF JobHas, ExportHas
  <2> QED
    BY <1>1, <2>1, <2>3, <2>4, <2>5, <2>6, Typed, OneJob
<1> QED
  BY <1>3, <1>4, <1>5 DEF ExportStep

LEMMA FaultKeeps ==
    ASSUME SnapshotsInv, NEW j \in Jobs, JobFails(j) \/ JobDies(j)
    PROVE  SnapshotsInv'
<1>1. /\ UNCHANGED <<version, begun, backup, pulled, latest, csv>>
      /\ job[j] \in JobRecord /\ begun[j] \in 0..version
  BY Typed DEF JobFails, JobDies, SnapshotsInv, JobHas
<1>2. Published'
  BY <1>1 DEF SnapshotsInv, Published, Publishable
<1>3. CASE JobFails(j)
  <2> DEFINE r == [job[j] EXCEPT !.at = "failed", !.temporary = Nothing]
  <2>1. job' = [job EXCEPT ![j] = r]
    BY <1>3 DEF JobFails, CleanUp
  <2>2. /\ r \in JobRecord /\ r.at = "failed" /\ r.stamp = job[j].stamp /\ r.temporary = Nothing
    BY <1>1, Kinds DEF JobRecord, Places
  <2>3. job'[j] = r
    BY <2>1, Typed
  <2>4. JobHas(j)'
    BY <1>1, <2>2, <2>3 DEF JobHas, BackupHas, PullHas, ExportHas
  <2> QED
    BY <1>1, <1>2, <2>1, <2>2, <2>4, Typed, OneJob
<1>4. CASE JobDies(j)
  <2> DEFINE r == [job[j] EXCEPT !.at = "dead"]
  <2>1. job' = [job EXCEPT ![j] = r]
    BY <1>4 DEF JobDies, Move
  <2>2. /\ r \in JobRecord /\ r.at = "dead" /\ r.stamp = job[j].stamp
        /\ r.temporary = job[j].temporary
    BY <1>1 DEF JobRecord, Places
  <2>3. job'[j] = r
    BY <2>1, Typed
  <2>4. JobHas(j)'
    BY <1>1, <2>2, <2>3 DEF JobHas, BackupHas, PullHas, ExportHas
  <2> QED
    BY <1>1, <1>2, <2>1, <2>2, <2>4, Typed, OneJob
<1> QED
  BY <1>3, <1>4

LEMMA SnapshotsStep ==
    ASSUME SnapshotsInv, [SnapshotsNext]_snapshotVars
    PROVE  SnapshotsInv'
<1>1. CASE UNCHANGED snapshotVars
  <2>1. UNCHANGED <<version, job, begun, backup, pulled, latest, csv>>
    BY <1>1 DEF snapshotVars
  <2> QED
    BY <2>1 DEF SnapshotsInv, SnapshotsTypeOK, Published, Publishable, JobHas, BackupHas, PullHas,
                ExportHas
<1>2. CASE BackupNext
  BY <1>2, CommitKeeps, BackupSteps, BeginBackupKeeps, PullSteps, BeginPullKeeps, FaultKeeps, Typed
  DEF BackupNext
<1>3. CASE ExportNext
  BY <1>3, CommitKeeps, ExportSteps, FaultKeeps, Typed DEF ExportNext
<1> QED
  BY <1>1, <1>2, <1>3 DEF SnapshotsNext

LEMMA SnapshotsStart == SnapshotsInit => SnapshotsInv
<1> SUFFICES ASSUME SnapshotsInit PROVE SnapshotsInv
  OBVIOUS
<1>1. \A j \in Jobs : /\ job[j].at = "idle" /\ job[j].temporary = Nothing
                      /\ begun[j] = 0
  BY DEF SnapshotsInit
<1>2. version = 0 /\ 0 \in Versions /\ Cardinality(latest) <= 1 /\ latest = {}
  BY SnapshotsAssumption, FS_EmptySet DEF SnapshotsInit, Versions
<1>3. SnapshotsTypeOK
  BY <1>1, <1>2, Kinds DEF SnapshotsInit, SnapshotsTypeOK
<1>4. Published
  BY <1>2 DEF SnapshotsInit, Published, Publishable
<1>5. \A j \in Jobs : JobHas(j)
  BY <1>1, <1>2 DEF JobHas, BackupHas, PullHas, ExportHas
<1> QED
  BY <1>3, <1>4, <1>5 DEF SnapshotsInv

LEMMA SnapshotsInvariant == SnapshotsSpec => []SnapshotsInv
<1>1. SnapshotsInv /\ [SnapshotsNext]_snapshotVars => SnapshotsInv'
  BY SnapshotsStep
<1> QED
  BY <1>1, SnapshotsStart, PTL DEF SnapshotsSpec

LEMMA SnapshotsGive == SnapshotsInv => PublishedIsSound
<1> SUFFICES ASSUME SnapshotsInv PROVE PublishedIsSound
  OBVIOUS
<1>1. PublishedIsWhole
  BY Kinds DEF SnapshotsInv, Published, Publishable, PublishedIsWhole
<1>2. ASSUME NEW j \in Backups, job[j].at = "done"
      PROVE  backup[job[j].stamp] # Nothing /\ backup[job[j].stamp][1] >= begun[j]
  <2>1. PICK v \in Versions : v >= begun[j] /\ backup[job[j].stamp] = CopyOf(v)
    BY <1>2, Typed DEF SnapshotsInv, JobHas, BackupHas
  <2> QED
    BY <2>1, Sizes
<1>3. ASSUME NEW j \in Pulls, job[j].at = "done"
      PROVE  pulled[j][1] >= begun[j]
  <2>1. PICK v \in Versions : v >= begun[j] /\ pulled[j] = CopyOf(v)
    BY <1>3, Typed DEF SnapshotsInv, JobHas, PullHas
  <2> QED
    BY <2>1, Sizes
<1> QED
  BY <1>1, <1>2, <1>3 DEF PublishedIsSound, BackupIsCurrent

-----------------------------------------------------------------------------
\* What has the name of a backup, a pulled snapshot or the export is whole, a backup that
\* reports its name is there and as recent as its start, and so is a pull, whatever fails,
\* dies or is written meanwhile (backup_sqlite of database/backup.py, pull-radio-data).
THEOREM SnapshotsAreSound == SnapshotsSpec => []PublishedIsSound
BY SnapshotsInvariant, SnapshotsGive, PTL

\* A backup is never replaced nor taken back, by another of the same moment neither
\* (os.link in backup_sqlite).
THEOREM BackupsAreKept == SnapshotsSpec => BackupsKept
<1>1. SnapshotsInv /\ [SnapshotsNext]_snapshotVars =>
         [\A s \in Stamps : backup[s] # Nothing => backup'[s] = backup[s]]_backup
  <2> SUFFICES ASSUME SnapshotsInv, [SnapshotsNext]_snapshotVars, backup' # backup
               PROVE  \A s \in Stamps : backup[s] # Nothing => backup'[s] = backup[s]
    OBVIOUS
  <2>1. \E j \in Backups : PublishBackup(j) /\ Free(job[j].stamp)
    BY DEF SnapshotsNext, BackupNext, ExportNext, Commit, BackupStep, BeginBackup, CopyPages,
           CheckBackup, PublishBackup, EndBackup, PullStep, BeginPull, Fetch, KeepPull, UpdateLatest,
           ExportStep, BeginExport, WriteRows, PublishCsv, JobFails, JobDies, snapshotVars
  <2> QED
    BY <2>1, Typed DEF PublishBackup, Free
<1> QED
  BY <1>1, SnapshotsInvariant, PTL DEF SnapshotsSpec, BackupsKept
=============================================================================
