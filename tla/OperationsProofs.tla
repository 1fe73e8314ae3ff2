-------------------------- MODULE OperationsProofs --------------------------
(***************************************************************************)
(* Proofs about what runs beside the logger or instead of it: the import   *)
(* of history (HistoryImport), the supervisor of the receiver              *)
(* (ReceiverSupervisor), the check of an installation (HeadlessCheck) and  *)
(* the archive of decodes with its replay (DecodeArchive).  They share no  *)
(* state; at the end, what holds of each, and of the copies of the         *)
(* database (SnapshotsProofs), is put together for the specification of    *)
(* MCOperations, in which each has its behaviours.                         *)
(***************************************************************************)
EXTENDS MCOperations, SnapshotsProofs, DataLemmas

-----------------------------------------------------------------------------
(***************************************************************************)
(* HistoryImport, for any number of decodes and of looks at the size of    *)
(* ALL.TXT: the file and UDP never store the same decode.                  *)
(***************************************************************************)
ImportSpec == ImportInit /\ [][ImportNext]_importVars

Before == {"mark", "settle", "copy", "lock"}   \* the script, before its replay

\* The lock is held by the service exactly while it is up, by the replay while it runs.
Locked ==
    /\ service = "up" <=> lock = "service"
    /\ script = "replay" <=> lock = "replay"

\* A database that is not there has no rows; before the replay only a service that
\* still runs can have made one.
Fresh ==
    /\ database = FALSE => \A d \in 1..MaxLines : rows[d] = 0
    /\ service = "up" \/ script = "replay" => database = TRUE
    /\ script \in Before /\ service # "up" => database = FALSE

\* Nothing is stored that was not decoded, nor of the snapshot what is yet to be replayed.
NotYet ==
    /\ \A d \in 1..MaxLines : d > source => rows[d] = 0
    /\ snapshot <= source
    /\ script = "replay" =>
          previous <= snapshot /\ \A d \in 1..MaxLines : previous < d => rows[d] = 0

ImportInv ==
    /\ ImportTypeOK /\ NeverTwice
    /\ Locked /\ Fresh /\ NotYet

\* Storing a decode that has no row
LEMMA IngestOne ==
    ASSUME rows \in [1..MaxLines -> 0..2], NeverTwice, refused \subseteq 1..MaxLines,
           NEW d \in 1..MaxLines, rows[d] = 0, Ingest(d)
    PROVE  /\ rows' \in [1..MaxLines -> 0..2] /\ refused' \subseteq 1..MaxLines
           /\ NeverTwice'
           /\ \A e \in 1..MaxLines : e # d => rows'[e] = rows[e]
<1>1. CASE rows' = [rows EXCEPT ![d] = @ + 1] /\ UNCHANGED refused
  <2>1. rows' \in [1..MaxLines -> 0..2]
    BY <1>1
  <2>2. \A e \in 1..MaxLines : rows'[e] = IF e = d THEN 1 ELSE rows[e]
    BY <1>1
  <2> QED
    BY <1>1, <2>1, <2>2 DEF NeverTwice
<1>2. CASE refused' = refused \cup {d} /\ UNCHANGED rows
  BY <1>2 DEF NeverTwice
<1> QED
  BY <1>1, <1>2 DEF Ingest

LEMMA DecodedKeeps ==
    ASSUME ImportInv, Decoded
    PROVE  ImportInv'
<1> USE ImportAssumption DEF ImportInv, ImportTypeOK, Locked, Fresh, NotYet, scriptVars
<1>1. /\ source + 1 \in 1..MaxLines /\ rows[source + 1] = 0
      /\ source' = source + 1
      /\ UNCHANGED <<database, lock, service, marker, snapshot, script, previous, attempt>>
  BY DEF Decoded
<1>2. CASE service = "up"
  <2>1. /\ rows' \in [1..MaxLines -> 0..2] /\ refused' \subseteq 1..MaxLines
        /\ NeverTwice'
        /\ \A e \in 1..MaxLines : e # source + 1 => rows'[e] = rows[e]
    BY <1>1, <1>2, IngestOne DEF Decoded
  <2>2. database = TRUE
    BY <1>2
  <2> QED
    BY <1>1, <1>2, <2>1, <2>2 DEF Before
<1>3. CASE service # "up"
  <2>1. UNCHANGED <<rows, refused>>
    BY <1>3 DEF Decoded
  <2>2. ImportTypeOK' /\ NeverTwice'
    BY <1>1, <2>1 DEF NoSize, NeverTwice
  <2>3. Locked' /\ Fresh' /\ NotYet'
    BY <1>1, <2>1 DEF Before, NoSize
  <2> QED
    BY <2>2, <2>3
<1> QED
  BY <1>2, <1>3

LEMMA ReplayKeeps ==
    ASSUME ImportInv, BeginReplay \/ Replay
    PROVE  ImportInv'
<1> USE ImportAssumption DEF ImportInv, ImportTypeOK, Locked, Fresh, NotYet, Before
<1>1. CASE BeginReplay
  <2>1. UNCHANGED <<source, rows, refused, service, marker, snapshot, attempt>>
    BY <1>1 DEF BeginReplay
  <2>2. CASE script' = "idle"
    BY <1>1, <2>1, <2>2 DEF BeginReplay, Acquire, NeverTwice, NoSize
  <2>3. CASE lock = "free" /\ lock' = "replay" /\ script' = "replay" /\ database' = TRUE /\ previous' = 0
    <3>1. service # "up" /\ script = "lock"
      BY <1>1, <2>3 DEF BeginReplay
    <3>2. \A d \in 1..MaxLines : rows[d] = 0
      BY <3>1
    <3> QED
      BY <2>1, <2>3, <3>1, <3>2 DEF NeverTwice, NoSize
  <2> QED
    BY <1>1, <2>2, <2>3 DEF BeginReplay, Acquire
<1>2. CASE Replay /\ previous < snapshot
  <2>1. /\ script = "replay" /\ previous + 1 \in 1..MaxLines /\ rows[previous + 1] = 0
        /\ Ingest(previous + 1) /\ previous' = previous + 1
        /\ UNCHANGED <<source, database, service, marker, snapshot, attempt, lock, script>>
    BY <1>2 DEF Replay, NoSize
  <2>2. /\ rows' \in [1..MaxLines -> 0..2] /\ refused' \subseteq 1..MaxLines
        /\ NeverTwice'
        /\ \A e \in 1..MaxLines : e # previous + 1 => rows'[e] = rows[e]
    BY <2>1, IngestOne
  <2>3. database = TRUE
    BY <2>1
  <2>4. ImportTypeOK'
    BY <2>1, <2>2 DEF NoSize
  <2>5. Locked' /\ Fresh'
    BY <2>1, <2>2, <2>3
  <2>6. NotYet'
    BY <1>2, <2>1, <2>2 DEF NoSize
  <2> QED
    BY <2>2, <2>4, <2>5, <2>6
<1>3. CASE Replay /\ ~(previous < snapshot)
  BY <1>3 DEF Replay, ReplayFreesLock, NeverTwice
<1> QED
  BY <1>1, <1>2, <1>3

\* The commands of the script that store nothing
LEMMA ScriptKeeps ==
    ASSUME ImportInv,
           Check \/ Mark \/ Settle \/ Copy \/ StartService \/ Health \/ Compare \/ Complete \/ ScriptFails
    PROVE  ImportInv'
<1> USE ImportAssumption DEF ImportInv, ImportTypeOK, Locked, Fresh, NotYet, Before, NeverTwice, NoSize
<1>1. CASE Check
  BY <1>1 DEF Check, MayImport
<1>2. CASE Mark
  BY <1>2 DEF Mark
<1>3. CASE Settle
  BY <1>3 DEF Settle, Tried
<1>4. CASE Copy
  BY <1>4 DEF Copy
<1>5. CASE StartService
  BY <1>5 DEF StartService
<1>6. CASE Health
  BY <1>6 DEF Health
<1>7. CASE Compare
  BY <1>7 DEF Compare, Grew
<1>8. CASE Complete
  BY <1>8 DEF Complete
<1>9. CASE ScriptFails
  BY <1>9 DEF ScriptFails
<1> QED
  BY <1>1, <1>2, <1>3, <1>4, <1>5, <1>6, <1>7, <1>8, <1>9

\* The service starts and stops, beside the script or not.
LEMMA ServiceKeeps ==
    ASSUME ImportInv, ServiceUp \/ AdminStarts \/ ServiceDown \/ Reboot
    PROVE  ImportInv'
<1> USE ImportAssumption
    DEF ImportInv, ImportTypeOK, Locked, Fresh, NotYet, Before, NeverTwice, NoSize, scriptVars
<1>1. CASE ServiceUp
  BY <1>1 DEF ServiceUp, Acquire
<1>2. CASE AdminStarts
  BY <1>2 DEF AdminStarts
<1>3. CASE ServiceDown
  BY <1>3 DEF ServiceDown
<1>4. CASE Reboot
  BY <1>4 DEF Reboot
<1> QED
  BY <1>1, <1>2, <1>3, <1>4

LEMMA ImportStepKeeps ==
    ASSUME ImportInv, [ImportNext]_importVars
    PROVE  ImportInv'
<1>1. CASE UNCHANGED importVars
  BY <1>1
  DEF importVars, ImportInv, ImportTypeOK, Locked, Fresh, NotYet, Before, NeverTwice, NoSize
<1> QED
  BY <1>1, DecodedKeeps, ReplayKeeps, ScriptKeeps, ServiceKeeps DEF ImportNext, ScriptStep

LEMMA ImportStarts == ImportInit => ImportInv
<1> SUFFICES ASSUME ImportInit
             PROVE  ImportInv
  OBVIOUS
<1>1. ImportTypeOK
  <2>1. rows \in [1..MaxLines -> 0..2] /\ refused \subseteq 1..MaxLines
    BY DEF ImportInit
  <2>2. /\ source \in 0..MaxLines /\ snapshot \in 0..MaxLines
        /\ previous \in 0..NoSize /\ attempt \in 0..MaxAttempts
    BY ImportAssumption DEF ImportInit, NoSize
  <2> QED
    BY <2>1, <2>2 DEF ImportInit, ImportTypeOK
<1>2. NeverTwice /\ Locked /\ Fresh
  BY ImportAssumption DEF ImportInit, NeverTwice, Locked, Fresh, Before
<1>3. NotYet
  BY ImportAssumption DEF ImportInit, NotYet
<1> QED
  BY <1>1, <1>2, <1>3 DEF ImportInv

\* import-existing-all-txt.sh, the service and the writer lock: who holds the lock, whose
\* database there is and what has no row yet, at any command of the script.
THEOREM ImportInvariant == ImportSpec => []ImportInv
<1>1. ImportInv /\ [ImportNext]_importVars => ImportInv'
  BY ImportStepKeeps
<1> QED
  BY <1>1, ImportStarts, PTL DEF ImportSpec

\* The file and UDP never store the same decode, and the service stores nothing while
\* the history is replayed: over any number of calls of the script, failures of its
\* commands, starts and stops of the service and reboots (import-existing-all-txt.sh
\* with the lock of lifecycle.py).
THEOREM HistoryIsImportedOnce == ImportSpec => []ImportedOnce
<1>1. ImportInv => ImportedOnce
  BY DEF ImportInv, Locked, ImportedOnce, AloneWhileReplaying
<1> QED
  BY <1>1, ImportInvariant, PTL

\* A decode that was handed to the database, which has it or has refused it
Handed(d) == rows[d] = 1 \/ d \in refused

\* What the replay has behind it, and then the whole snapshot, was handed to the database.
SnapshotHanded ==
    /\ script = "replay" => \A d \in 1..MaxLines : d <= previous => Handed(d)
    /\ script \in {"start", "health", "compare"} => \A d \in 1..MaxLines : d <= snapshot => Handed(d)

LEMMA IngestHands ==
    ASSUME ImportInv, NEW d \in 1..MaxLines, rows[d] = 0, Ingest(d)
    PROVE  Handed(d)' /\ \A e \in 1..MaxLines : Handed(e) => Handed(e)'
<1>1. rows \in [1..MaxLines -> 0..2] /\ NeverTwice /\ refused \subseteq 1..MaxLines
  BY DEF ImportInv, ImportTypeOK
<1>2. \A e \in 1..MaxLines : e # d => rows'[e] = rows[e]
  BY <1>1, IngestOne
<1>3. refused \subseteq refused' /\ (rows'[d] = 1 \/ d \in refused')
  <2>1. CASE rows' = [rows EXCEPT ![d] = @ + 1] /\ UNCHANGED refused
    BY <1>1, <2>1
  <2>2. CASE refused' = refused \cup {d} /\ UNCHANGED rows
    BY <2>2
  <2> QED
    BY <2>1, <2>2 DEF Ingest
<1> QED
  BY <1>2, <1>3 DEF Handed

LEMMA HandedKeeps ==
    ASSUME ImportInv, SnapshotHanded, [ImportNext]_importVars
    PROVE  SnapshotHanded'
<1>1. /\ MaxLines \in Nat /\ source \in 0..MaxLines /\ snapshot \in 0..MaxLines /\ previous \in 0..NoSize
      /\ snapshot <= source /\ rows \in [1..MaxLines -> 0..2]
      /\ \A d \in 1..MaxLines : d > source => rows[d] = 0
      /\ script = "replay" => /\ previous <= snapshot
                             /\ \A d \in 1..MaxLines : previous < d => rows[d] = 0
  BY ImportAssumption DEF ImportInv, ImportTypeOK, NotYet
<1>2. CASE Decoded
  <2>1. /\ UNCHANGED <<script, previous, snapshot>>
        /\ source + 1 \in 1..MaxLines /\ rows[source + 1] = 0
    BY <1>1, <1>2 DEF Decoded, scriptVars
  <2>2. Ingest(source + 1) \/ UNCHANGED <<rows, refused>>
    BY <1>2 DEF Decoded
  <2>3. \A d \in 1..MaxLines : Handed(d) => Handed(d)'
    BY <2>1, <2>2, IngestHands DEF Handed
  <2> QED
    BY <2>1, <2>3 DEF SnapshotHanded
<1>3. CASE Replay /\ previous < snapshot
  <2>1. PICK next \in 1..MaxLines : next = previous + 1
    BY <1>1, <1>3 DEF Replay
  <2>2. /\ script = "replay" /\ script' = "replay" /\ previous' = next
        /\ Ingest(next) /\ rows[next] = 0
    BY <1>1, <1>3, <2>1 DEF Replay
  <2>3. Handed(next)' /\ \A e \in 1..MaxLines : Handed(e) => Handed(e)'
    BY <2>2, IngestHands
  <2>4. \A d \in 1..MaxLines : d <= next => d <= previous \/ d = next
    BY <1>1, <2>1
  <2>5. \A d \in 1..MaxLines : d <= previous => Handed(d)
    BY <2>2 DEF SnapshotHanded
  <2>6. \A d \in 1..MaxLines : d <= next => Handed(d)'
    BY <2>3, <2>4, <2>5
  <2> QED
    BY <2>2, <2>6 DEF SnapshotHanded
<1>4. CASE Replay /\ ~(previous < snapshot)
  BY <1>1, <1>4 DEF Replay, SnapshotHanded, Handed
<1>5. CASE BeginReplay
  BY <1>5 DEF BeginReplay, SnapshotHanded, Handed
<1>6. CASE Check \/ Mark \/ Settle \/ Copy \/ Compare \/ Complete \/ ScriptFails \/ Reboot
  BY <1>6 DEF Check, Mark, Settle, Copy, Compare, Complete, ScriptFails, Reboot, SnapshotHanded, Handed
<1>7. CASE StartService \/ Health
  BY <1>7 DEF StartService, Health, SnapshotHanded, Handed
<1>8. CASE ServiceUp \/ AdminStarts \/ ServiceDown \/ UNCHANGED importVars
  <2>1. UNCHANGED <<script, previous, snapshot, rows, refused>>
    BY <1>8 DEF ServiceUp, AdminStarts, ServiceDown, importVars, scriptVars
  <2> QED
    BY <2>1 DEF SnapshotHanded, Handed
<1> QED
  BY <1>2, <1>3, <1>4, <1>5, <1>6, <1>7, <1>8 DEF ImportNext, ScriptStep

\* An import is called complete only when every line of ALL.TXT was handed to the
\* database: what was decoded between the snapshot and the start of the service makes
\* the file longer than the snapshot, and the script asks for a review instead.
THEOREM CompleteImportsAreWhole == ImportSpec => CompleteMeansAll
<1>1. ImportInit => SnapshotHanded
  BY DEF ImportInit, SnapshotHanded
<1>2. ASSUME ImportInv, SnapshotHanded, [ImportNext]_importVars
      PROVE  [script # "complete" /\ script' = "complete" =>
                 \A d \in 1..source : rows[d] = 1 \/ d \in refused]_script
  <2> SUFFICES ASSUME script # "complete", script' = "complete"
               PROVE  \A d \in 1..source : Handed(d)
    BY DEF Handed
  <2>1. Compare
    BY <1>2 DEF ImportNext, ScriptStep, Check, Mark, Settle, Copy, BeginReplay, Replay, StartService,
                Health, Complete, ScriptFails, Decoded, ServiceUp, AdminStarts, ServiceDown,
                Reboot, importVars, scriptVars
  <2>2. script = "compare" /\ source = snapshot
    BY <2>1 DEF Compare, Grew
  <2>3. source \in 0..MaxLines /\ MaxLines \in Nat
    BY <1>2, ImportAssumption DEF ImportInv, ImportTypeOK
  <2> QED
    BY <1>2, <2>2, <2>3 DEF SnapshotHanded
<1> QED
  BY <1>1, <1>2, HandedKeeps, ImportInvariant, PTL DEF ImportSpec, CompleteMeansAll

-----------------------------------------------------------------------------
(***************************************************************************)
(* ReceiverSupervisor: whatever signals and exits arrive, no child outlives*)
(* the script.                                                             *)
(***************************************************************************)
SupervisorSpec == SupervisorInit /\ [][SupervisorNext]_supervisorVars

\* Which children there can be at a stage: none before the first is started, none
\* that was not asked to stop once all were, and none that lives after the kill.
Stages ==
    /\ stage \in {"begin", "receiver"} => \A c \in Children : child[c] = "none"
    /\ stage \in {"audio", "watch"} => child["receiver"] # "none"
    /\ stage \in {"wait", "kill"} => \A c \in Children : child[c] # "running"
    /\ stage \in {"last", "over"} => \A c \in Children : ~Alive(c)

SupervisorInv == SupervisorTypeOK /\ Stages

LEMMA StartKeeps ==
    ASSUME SupervisorInv, StartReceiver \/ StartAudio
    PROVE  SupervisorInv'
<1> USE DEF SupervisorInv, SupervisorTypeOK, Stages, Children, Alive, Start, Return
<1>1. CASE StartReceiver
  BY <1>1 DEF StartReceiver
<1>2. CASE StartAudio
  BY <1>2 DEF StartAudio
<1> QED
  BY <1>1, <1>2

LEMMA StopKeeps ==
    ASSUME SupervisorInv, AskToStop \/ Wait \/ Kill \/ LastWait
    PROVE  SupervisorInv'
<1> USE DEF SupervisorInv, SupervisorTypeOK, Stages, Children, Alive
<1>1. CASE AskToStop
  BY <1>1 DEF AskToStop
<1>2. CASE Wait
  BY <1>2 DEF Wait
<1>3. CASE Kill
  BY <1>3 DEF Kill, KillAll
<1>4. CASE LastWait
  BY <1>4 DEF LastWait
<1> QED
  BY <1>1, <1>2, <1>3, <1>4

LEMMA SupervisorStepKeeps ==
    ASSUME SupervisorInv, [SupervisorNext]_supervisorVars
    PROVE  SupervisorInv'
<1>1. CASE Signal
  BY <1>1 DEF Signal, SupervisorInv, SupervisorTypeOK, Stages, Children, Alive
<1>2. CASE SetHandlers
  BY <1>2 DEF SetHandlers, SupervisorInv, SupervisorTypeOK, Stages, Children, Alive
<1>3. CASE Watch
  BY <1>3 DEF Watch, Return, SupervisorInv, SupervisorTypeOK, Stages, Children, Alive
<1>4. ASSUME NEW c \in Children, ChildEnds(c)
      PROVE  SupervisorInv'
  BY <1>4 DEF ChildEnds, SupervisorInv, SupervisorTypeOK, Stages, Children, Alive
<1>5. CASE UNCHANGED supervisorVars
  BY <1>5 DEF supervisorVars, SupervisorInv, SupervisorTypeOK, Stages, Children, Alive
<1> QED
  BY <1>1, <1>2, <1>3, <1>4, <1>5, StartKeeps, StopKeeps DEF SupervisorNext, SupervisorStep

LEMMA SupervisorStarts == SupervisorInit => SupervisorInv
BY DEF SupervisorInit, SupervisorInv, SupervisorTypeOK, Stages, Children, Alive

\* When the script has ended, no child runs that was not at least killed: at whatever
\* moment signals came, children ended by themselves, or one could not be started
\* (run_pipeline and stop_children of deploy/radio-ft8/receive).
THEOREM NoChildLeft == SupervisorSpec => []NothingLeftRunning
<1>1. SupervisorInit => SupervisorInv
  BY SupervisorStarts
<1>2. SupervisorInv /\ [SupervisorNext]_supervisorVars => SupervisorInv'
  BY SupervisorStepKeeps
<1>3. SupervisorInv => NothingLeftRunning
  BY DEF SupervisorInv, Stages, NothingLeftRunning
<1> QED
  BY <1>1, <1>2, <1>3, PTL DEF SupervisorSpec

-----------------------------------------------------------------------------
(***************************************************************************)
(* HeadlessCheck, for any keys, lines and faults of the logger: the        *)
(* verdict is right both ways.                                             *)
(***************************************************************************)
HeadlessSpec == HeadlessInit /\ [][HeadlessNext]_headlessVars

AllKeys == DecodeKeys \cup {CutKey}

\* There are no more rows of a key than the logger may have made, and a sound logger has
\* made none but those of the lines it has dealt with; the check saw no more.
RowsOfLines ==
    /\ \A k \in AllKeys : stored[k] <= position + slips /\ seen[k] <= stored[k]
    /\ slips = 0 => \A k \in AllKeys : stored[k] <= CountIn(text, k, position)

\* What is expected is in the log, and all that was there when the check was started is
\* expected.
ExpectedOfLog ==
    /\ \A k \in AllKeys : expected[k] <= CountIn(text, k, Len(text))
    /\ verdict \notin {"idle", "started"} =>
          \A k \in AllKeys : CountIn(text, k, since) <= expected[k]

\* A verdict says what the last look has shown.
VerdictOfLook ==
    /\ verdict \notin {"idle", "started", "refused"} => Expected # {}
    /\ verdict \in {"counted", "passed", "lost"} => \A k \in Expected : seen[k] = expected[k]
    /\ verdict = "missing" => Absent # {}
    /\ verdict = "repeated" => Surplus # {}
    /\ verdict # "lost"

HeadlessInv ==
    /\ HeadlessTypeOK /\ position \in Nat /\ since <= Len(text)
    /\ cut => Len(text) < MaxSource
    /\ RowsOfLines /\ ExpectedOfLog /\ VerdictOfLook

LEMMA HeadlessTypes ==
    ASSUME HeadlessInv
    PROVE  /\ MaxKey \in Nat /\ MaxSource \in Nat /\ MaxSlips \in Nat
           /\ text \in Seq(DecodeKeys) /\ Len(text) \in Nat /\ Len(text) <= MaxSource
           /\ position \in 0..Len(text) /\ since \in 0..Len(text) /\ slips \in Nat
           /\ stored \in Counts /\ expected \in Counts /\ seen \in Counts
           /\ \A k \in AllKeys : stored[k] \in Nat /\ expected[k] \in Nat /\ seen[k] \in Nat
           /\ \A i \in 1..Len(text) : text[i] \in DecodeKeys
           /\ expected[CutKey] = 0 /\ AllKeys \subseteq Nat /\ DOMAIN expected = AllKeys
           /\ DOMAIN NoRows = AllKeys /\ DecodeKeys \subseteq AllKeys
<1>1. MaxKey \in Nat /\ MaxSource \in Nat /\ MaxSlips \in Nat
    BY HeadlessAssumption
<1>2. text \in Seq(DecodeKeys) /\ Len(text) \in Nat /\ Len(text) <= MaxSource
    BY <1>1 DEF HeadlessInv, HeadlessTypeOK
<1>3. \A i \in 1..Len(text) : text[i] \in DecodeKeys
    BY <1>2, ElementOfSeq
<1>4. stored \in Counts /\ expected \in Counts /\ seen \in Counts /\ expected[CutKey] = 0
    BY DEF HeadlessInv, HeadlessTypeOK
<1>5. \A k \in AllKeys : stored[k] \in Nat /\ expected[k] \in Nat /\ seen[k] \in Nat
    BY <1>1, <1>4 DEF Counts, AllKeys
<1>6. position \in 0..Len(text) /\ since \in 0..Len(text) /\ slips \in Nat
    BY <1>1, <1>2 DEF HeadlessInv, HeadlessTypeOK
<1>7. /\ AllKeys \subseteq Nat /\ DecodeKeys \subseteq AllKeys
      /\ DOMAIN expected = AllKeys /\ DOMAIN NoRows = AllKeys
    BY <1>1, <1>4 DEF AllKeys, DecodeKeys, CutKey, Counts, NoRows
<1> QED BY <1>1, <1>2, <1>3, <1>4, <1>5, <1>6, <1>7

-----------------------------------------------------------------------------
\* Count of HeadlessCheck, of the whole log and of its beginning
LEMMA CountIsCountIn ==
    ASSUME HeadlessInv, NEW k, NEW n \in 0..Len(text)
    PROVE  /\ Count(k, text) = CountIn(text, k, Len(text))
           /\ Count(k, SubSeq(text, 1, n)) = CountIn(text, k, n)
<1>1. text \in Seq(DecodeKeys) /\ Len(text) \in Nat
    BY HeadlessTypes
<1>2. DOMAIN text = 1..Len(text)
    BY <1>1
<1>3. /\ SubSeq(text, 1, n) \in Seq(DecodeKeys) /\ Len(SubSeq(text, 1, n)) = n
      /\ \A i \in 1..n : SubSeq(text, 1, n)[i] = text[i]
    BY <1>1, SubSeqProperties
<1>4. DOMAIN SubSeq(text, 1, n) = 1..n
    BY <1>1, <1>3
<1>5. {i \in DOMAIN SubSeq(text, 1, n) : SubSeq(text, 1, n)[i] = k} = {i \in 1..n : text[i] = k}
    BY <1>3, <1>4
<1> QED BY <1>2, <1>5 DEF Count, CountIn

-----------------------------------------------------------------------------
LEMMA HeadlessStarts == HeadlessInit => HeadlessInv
<1> SUFFICES ASSUME HeadlessInit PROVE HeadlessInv
    OBVIOUS
<1>1. MaxKey \in Nat /\ MaxSource \in Nat /\ MaxSlips \in Nat
    BY HeadlessAssumption
<1>2. /\ text = <<>> /\ Len(text) = 0 /\ position = 0 /\ slips = 0 /\ since = 0
      /\ verdict = "idle" /\ stored = NoRows /\ expected = NoRows /\ seen = NoRows
    BY DEF HeadlessInit
<1>3. NoRows \in Counts /\ \A k \in AllKeys : NoRows[k] = 0
    BY <1>1 DEF NoRows, Counts, AllKeys
<1>4. HeadlessTypeOK /\ position \in Nat /\ since <= Len(text) /\ ~cut
    BY <1>1, <1>2, <1>3 DEF HeadlessInit, HeadlessTypeOK, NoRows, CutKey
<1>5. ASSUME NEW k \in AllKeys PROVE 0 <= CountIn(text, k, 0)
    <2>1. CountIn(text, k, 0) \in 0..0
        BY CountInType
    <2> QED BY <2>1
<1>6. RowsOfLines /\ ExpectedOfLog /\ VerdictOfLook
    BY <1>2, <1>3, <1>5 DEF RowsOfLines, ExpectedOfLog, VerdictOfLook
<1> QED BY <1>4, <1>6 DEF HeadlessInv

\* The decoder adds to the log: what was counted in it stays.
LEMMA DecoderKeeps ==
    ASSUME HeadlessInv, WriterBegins \/ WriterEnds
    PROVE  HeadlessInv'
<1>1. CASE WriterBegins
    BY <1>1 DEF WriterBegins, checkVars, HeadlessInv, HeadlessTypeOK, RowsOfLines,
                ExpectedOfLog, VerdictOfLook, Expected, Absent, Surplus
<1>2. CASE WriterEnds
    <2>1. PICK key \in DecodeKeys : text' = Append(text, key)
        BY <1>2 DEF WriterEnds
    <2>2. /\ UNCHANGED <<position, stored, slips, since, verdict, expected, seen, overdue>>
          /\ cut' = FALSE /\ Len(text) < MaxSource
        BY <1>2 DEF WriterEnds, checkVars, HeadlessInv
    <2>3. /\ text' \in Seq(DecodeKeys) /\ Len(text') = Len(text) + 1
          /\ \A i \in 1..Len(text) : text'[i] = text[i]
        <3>1. text \in Seq(DecodeKeys)
            BY HeadlessTypes
        <3> QED BY <2>1, <3>1, AppendProperties
    <2>4. \A n \in 0..Len(text), k \in AllKeys : CountIn(text', k, n) = CountIn(text, k, n)
        <3> SUFFICES ASSUME NEW n \in 0..Len(text), NEW k \in AllKeys
                     PROVE  CountIn(text', k, n) = CountIn(text, k, n)
            OBVIOUS
        <3>1. n \in Nat /\ \A i \in 1..n : text'[i] = text[i]
            BY <2>3, HeadlessTypes
        <3> QED BY <3>1, CountInSame
    <2>5. /\ Len(text) \in Nat /\ position \in 0..Len(text) /\ since \in 0..Len(text)
          /\ Len(text) \in 0..Len(text)
          /\ \A k \in AllKeys : expected[k] \in Nat
        BY HeadlessTypes
    <2>6. HeadlessTypeOK' /\ position' \in Nat /\ since' <= Len(text') /\ ~cut'
        <3>1. MaxSource \in Nat /\ Len(text') \in position..MaxSource /\ since <= Len(text')
            BY <2>2, <2>3, <2>5, HeadlessAssumption
        <3>2. /\ {stored, expected, seen} \subseteq Counts /\ expected[CutKey] = 0
              /\ verdict \in {"idle", "started", "read", "looked", "counted"} \cup Ends
              /\ slips \in 0..MaxSlips /\ since \in 0..MaxSource /\ overdue \in BOOLEAN
              /\ position \in Nat
            BY DEF HeadlessInv, HeadlessTypeOK
        <3> QED BY <2>2, <2>3, <3>1, <3>2 DEF HeadlessTypeOK
    <2>7. RowsOfLines'
        BY <2>2, <2>4, <2>5 DEF HeadlessInv, RowsOfLines
    <2>8. ASSUME NEW k \in AllKeys PROVE expected[k] <= CountIn(text', k, Len(text'))
        <3>1. expected[k] <= CountIn(text', k, Len(text))
            BY <2>4, <2>5 DEF HeadlessInv, ExpectedOfLog
        <3>2. CountIn(text', k, Len(text)) <= CountIn(text', k, Len(text) + 1)
            BY <2>5, CountInGrows
        <3>3. CountIn(text', k, Len(text)) \in Nat /\ CountIn(text', k, Len(text) + 1) \in Nat
            <4>1. Len(text) + 1 \in Nat
                BY <2>5
            <4>2. /\ CountIn(text', k, Len(text)) \in 0..Len(text)
                  /\ CountIn(text', k, Len(text) + 1) \in 0..(Len(text) + 1)
                BY <2>5, <4>1, CountInType
            <4> QED BY <2>5, <4>2
        <3> QED BY <2>3, <2>5, <3>1, <3>2, <3>3
    <2>9. ExpectedOfLog'
        BY <2>2, <2>4, <2>5, <2>8 DEF HeadlessInv, ExpectedOfLog
    <2>10. VerdictOfLook'
        BY <2>2 DEF HeadlessInv, VerdictOfLook, Expected, Absent, Surplus
    <2> QED BY <2>6, <2>7, <2>9, <2>10 DEF HeadlessInv
<1> QED BY <1>1, <1>2

\* The logger deals with the next line, or stores one again.
LEMMA LoggerKeeps ==
    ASSUME HeadlessInv, Stores \/ LeavesOut \/ StoresAgain
    PROVE  HeadlessInv'
<1>1. /\ Len(text) \in Nat /\ position \in 0..Len(text) /\ slips \in Nat
      /\ \A k \in AllKeys : stored[k] \in Nat /\ seen[k] \in Nat
      /\ \A i \in 1..Len(text) : text[i] \in DecodeKeys
      /\ DecodeKeys \subseteq AllKeys /\ stored \in Counts /\ Len(text) <= MaxSource
      /\ MaxSource \in Nat /\ MaxSlips \in Nat
    BY HeadlessTypes
<1>2. UNCHANGED <<text, cut, since, verdict, expected, seen, overdue>>
    BY DEF Stores, LeavesOut, StoresAgain, checkVars
<1>3. ExpectedOfLog' /\ VerdictOfLook'
    BY <1>2 DEF HeadlessInv, ExpectedOfLog, VerdictOfLook, Expected, Absent, Surplus
<1>4. position' \in position..Len(text) /\ slips' \in 0..MaxSlips
    BY <1>1, <1>2 DEF Stores, LeavesOut, StoresAgain, HeadlessInv, HeadlessTypeOK
<1>5. ASSUME NEW key \in AllKeys, stored' = [stored EXCEPT ![key] = @ + 1]
      PROVE  /\ \A k \in AllKeys : stored'[k] = IF k = key THEN stored[k] + 1 ELSE stored[k]
             /\ DOMAIN stored' = AllKeys /\ stored' = [k \in AllKeys |-> stored'[k]]
    BY <1>1, <1>5 DEF Counts, AllKeys
<1>6. ASSUME RowsOfLines', stored' = [k \in AllKeys |-> stored'[k]],
             \A k \in AllKeys : stored'[k] \in Nat
      PROVE  HeadlessInv'
    <2>1. \A k \in AllKeys : stored'[k] \in 0..(MaxSource + MaxSlips)
        BY <1>1, <1>4, <1>6 DEF RowsOfLines
    <2>2. stored' \in Counts
        BY <1>6, <2>1 DEF Counts, AllKeys
    <2>3. HeadlessTypeOK'
        BY <1>1, <1>2, <1>4, <2>2 DEF HeadlessInv, HeadlessTypeOK
    <2> QED BY <1>1, <1>2, <1>3, <1>4, <1>6, <2>3 DEF HeadlessInv
<1>7. CASE Stores
    <2> DEFINE key == text[position + 1]
    <2>1. /\ position < Len(text) /\ position' = position + 1 /\ slips' = slips
          /\ stored' = [stored EXCEPT ![key] = @ + 1] /\ key \in AllKeys
        BY <1>1, <1>7 DEF Stores
    <2>2. /\ \A k \in AllKeys : stored'[k] = IF k = key THEN stored[k] + 1 ELSE stored[k]
          /\ stored' = [k \in AllKeys |-> stored'[k]]
        <3> HIDE DEF key
        <3> QED BY <2>1, <1>5
    <2>3. \A k \in AllKeys : stored'[k] <= position' + slips' /\ seen'[k] <= stored'[k]
        <3> HIDE DEF key
        <3> SUFFICES ASSUME NEW k \in AllKeys
                     PROVE  stored'[k] <= position' + slips' /\ seen'[k] <= stored'[k]
            OBVIOUS
        <3>1. stored[k] <= position + slips /\ seen[k] <= stored[k] /\ seen' = seen
            BY <1>2 DEF HeadlessInv, RowsOfLines
        <3>2. stored[k] \in Nat /\ seen[k] \in Nat /\ position \in Nat /\ slips \in Nat
            BY <1>1
        <3>3. stored'[k] = stored[k] \/ stored'[k] = stored[k] + 1
            BY <2>2
        <3> QED BY <2>1, <3>1, <3>2, <3>3
    <2>4. ASSUME slips' = 0, NEW k \in AllKeys PROVE stored'[k] <= CountIn(text', k, position')
        <3>1. stored[k] <= CountIn(text, k, position)
            BY <2>1, <2>4 DEF HeadlessInv, RowsOfLines
        <3>2. CountIn(text, k, position + 1) = IF key = k THEN CountIn(text, k, position) + 1
                                               ELSE CountIn(text, k, position)
            BY <1>1, CountInNext
        <3>3. CountIn(text, k, position) \in 0..position
            <4>1. position \in Nat
                BY <1>1
            <4> QED BY <4>1, CountInType
        <3> QED BY <1>1, <1>2, <2>1, <2>2, <3>1, <3>2, <3>3
    <2>5. RowsOfLines'
        BY <2>3, <2>4 DEF RowsOfLines
    <2> QED BY <1>1, <1>6, <2>2, <2>5
<1>8. CASE LeavesOut
    <2>1. position' = position + 1 /\ slips' = slips + 1 /\ stored' = stored
        BY <1>8 DEF LeavesOut
    <2>2. RowsOfLines'
        BY <1>1, <1>2, <2>1 DEF HeadlessInv, RowsOfLines
    <2> QED BY <1>1, <1>6, <2>1, <2>2 DEF Counts, AllKeys
<1>9. CASE StoresAgain
    <2>1. slips' = slips + 1 /\ position' = position
        BY <1>9 DEF StoresAgain
    <2>2. PICK key \in AllKeys : stored' = [stored EXCEPT ![key] = @ + 1]
        <3>1. PICK i \in 1..position : stored' = [stored EXCEPT ![text[i]] = @ + 1]
            BY <1>9 DEF StoresAgain
        <3>2. text[i] \in AllKeys
            BY <1>1
        <3> QED BY <3>1, <3>2
    <2>3. /\ \A k \in AllKeys : stored'[k] = IF k = key THEN stored[k] + 1 ELSE stored[k]
          /\ stored' = [k \in AllKeys |-> stored'[k]]
        BY <2>2, <1>5
    <2>4. RowsOfLines'
        <3>1. slips' # 0 /\ seen' = seen
            BY <1>1, <1>2, <2>1
        <3>2. \A k \in AllKeys : stored[k] <= position + slips /\ seen[k] <= stored[k]
            BY DEF HeadlessInv, RowsOfLines
        <3>3. \A k \in AllKeys : stored'[k] <= position' + slips' /\ seen'[k] <= stored'[k]
            BY <1>1, <1>2, <2>1, <2>3, <3>1, <3>2
        <3> QED BY <3>1, <3>3 DEF RowsOfLines
    <2> QED BY <1>1, <1>6, <2>3, <2>4
<1> QED BY <1>7, <1>8, <1>9

\* The check starts, reads, looks and decides.
LEMMA CheckKeeps ==
    ASSUME HeadlessInv, BeginCheck \/ ReadSource \/ Look \/ Deadline \/ Decide \/ AskApi
    PROVE  HeadlessInv'
<1>1. /\ Len(text) \in Nat /\ position \in 0..Len(text) /\ since \in 0..Len(text) /\ slips \in Nat
      /\ \A k \in AllKeys : stored[k] \in Nat /\ seen[k] \in Nat /\ expected[k] \in Nat
      /\ \A i \in 1..Len(text) : text[i] \in DecodeKeys
      /\ stored \in Counts /\ expected \in Counts /\ seen \in Counts /\ Len(text) <= MaxSource
      /\ DOMAIN expected = AllKeys /\ DOMAIN NoRows = AllKeys /\ AllKeys \subseteq Nat
      /\ MaxSource \in Nat /\ MaxSlips \in Nat /\ MaxKey \in Nat
    BY HeadlessTypes
<1>2. UNCHANGED <<text, cut, position, stored, slips>>
    BY DEF BeginCheck, ReadSource, Look, Deadline, Decide, AskApi, loggerVars
<1>3. HeadlessTypeOK /\ RowsOfLines /\ ExpectedOfLog /\ VerdictOfLook /\ since <= Len(text)
      /\ position \in Nat /\ (cut => Len(text) < MaxSource)
    BY DEF HeadlessInv
<1>4. CASE BeginCheck
    <2>1. /\ since' = Len(text) /\ verdict = "idle" /\ verdict' = "started"
          /\ UNCHANGED <<expected, seen, overdue>>
        BY <1>4 DEF BeginCheck
    <2>2. HeadlessTypeOK' /\ since' <= Len(text')
        BY <1>1, <1>2, <1>3, <2>1 DEF HeadlessTypeOK
    <2>3. RowsOfLines' /\ ExpectedOfLog' /\ VerdictOfLook'
        BY <1>2, <1>3, <2>1 DEF RowsOfLines, ExpectedOfLog, VerdictOfLook
    <2> QED BY <1>2, <1>3, <2>2, <2>3 DEF HeadlessInv
<1>5. CASE ReadSource
    <2>1. /\ verdict' = IF expected' = NoRows THEN "refused" ELSE "read"
          /\ expected' = ExpectedOf /\ UNCHANGED <<since, seen, overdue>>
        BY <1>5 DEF ReadSource
    <2>2. /\ expected' = [k \in AllKeys |-> CountIn(text, k, Len(text))]
          /\ \A k \in AllKeys : CountIn(text, k, Len(text)) \in 0..Len(text)
        <3>1. \A k : Count(k, text) = CountIn(text, k, Len(text))
            BY <1>1, CountIsCountIn
        <3>2. \A k : CountIn(text, k, Len(text)) \in 0..Len(text)
            BY <1>1, CountInType
        <3> QED BY <1>1, <2>1, <3>1, <3>2 DEF ExpectedOf
    <2>3. expected' \in Counts
        BY <1>1, <2>2 DEF Counts, AllKeys
    <2>4. expected'[CutKey] = 0
        <3>1. {i \in 1..Len(text) : text[i] = CutKey} = {}
            BY <1>1 DEF DecodeKeys, CutKey
        <3>2. CutKey \in AllKeys
            BY DEF AllKeys
        <3> QED BY <2>2, <3>1, <3>2, FS_EmptySet DEF CountIn
    <2>5. HeadlessTypeOK'
        BY <1>2, <1>3, <2>1, <2>3, <2>4 DEF HeadlessTypeOK, Ends
    <2>6. RowsOfLines'
        BY <1>2, <1>3, <2>1 DEF RowsOfLines
    <2>7. ExpectedOfLog'
        <3>1. \A k \in AllKeys : expected'[k] = CountIn(text, k, Len(text))
            BY <2>2
        <3>2. \A k \in AllKeys : CountIn(text, k, since) <= CountIn(text, k, Len(text))
            <4>1. since \in Nat /\ since <= Len(text)
                BY <1>1
            <4> QED BY <1>1, <4>1, CountInGrows
        <3> QED BY <1>1, <1>2, <2>1, <2>2, <3>1, <3>2 DEF ExpectedOfLog
    <2>8. expected' # NoRows => Expected' # {}
        <3> SUFFICES ASSUME expected' # NoRows PROVE \E k \in AllKeys : expected'[k] > 0
            BY <2>2 DEF Expected
        <3>1. NoRows = [k \in AllKeys |-> 0]
            BY DEF NoRows, AllKeys
        <3>2. PICK k \in AllKeys : CountIn(text, k, Len(text)) # 0
            BY <2>2, <3>1
        <3> QED BY <1>1, <2>2, <3>2
    <2>9. VerdictOfLook'
        BY <2>1, <2>8 DEF VerdictOfLook
    <2> QED BY <1>2, <1>3, <2>1, <2>5, <2>6, <2>7, <2>9 DEF HeadlessInv
<1>6. CASE Look
    <2>1. /\ verdict = "read" /\ verdict' = "looked" /\ seen' = stored
          /\ UNCHANGED <<since, expected, overdue>>
        BY <1>6 DEF Look
    <2>2. HeadlessTypeOK'
        BY <1>2, <1>3, <2>1 DEF HeadlessTypeOK
    <2>3. RowsOfLines'
        BY <1>1, <1>2, <1>3, <2>1 DEF RowsOfLines
    <2>4. ExpectedOfLog' /\ VerdictOfLook'
        BY <1>2, <1>3, <2>1 DEF ExpectedOfLog, VerdictOfLook, Expected
    <2> QED BY <1>2, <1>3, <2>1, <2>2, <2>3, <2>4 DEF HeadlessInv
<1>7. CASE Deadline
    <2>1. overdue' = TRUE /\ UNCHANGED <<since, verdict, expected, seen>>
        BY <1>7 DEF Deadline
    <2>2. HeadlessTypeOK'
        BY <1>2, <1>3, <2>1 DEF HeadlessTypeOK
    <2>3. RowsOfLines' /\ ExpectedOfLog' /\ VerdictOfLook'
        BY <1>2, <1>3, <2>1
           DEF RowsOfLines, ExpectedOfLog, VerdictOfLook, Expected, Absent, Surplus
    <2> QED BY <1>2, <1>3, <2>1, <2>2, <2>3 DEF HeadlessInv
<1>8. CASE Decide
    <2>1. verdict = "looked" /\ verdict' = Verdict /\ UNCHANGED <<since, expected, seen, overdue>>
        BY <1>8 DEF Decide
    <2>2. /\ verdict' \in {"repeated", "counted", "missing", "read"}
          /\ verdict' = "repeated" => Surplus # {}
          /\ verdict' = "missing" => Absent # {}
          /\ verdict' = "counted" => Surplus = {} /\ Absent = {}
        BY <2>1 DEF Verdict
    <2>3. HeadlessTypeOK'
        BY <1>2, <1>3, <2>1, <2>2 DEF HeadlessTypeOK, Ends
    <2>4. RowsOfLines' /\ ExpectedOfLog'
        BY <1>2, <1>3, <2>1, <2>2 DEF RowsOfLines, ExpectedOfLog
    <2>5. ASSUME verdict' = "counted", NEW k \in Expected PROVE seen[k] = expected[k]
        <3>1. k \in AllKeys
            BY <1>1 DEF Expected
        <3>2. ~(seen[k] < expected[k]) /\ ~(seen[k] > expected[k])
            BY <2>2, <2>5 DEF Surplus, Absent
        <3> QED BY <1>1, <3>1, <3>2
    <2>6. VerdictOfLook'
        BY <1>3, <2>1, <2>2, <2>5 DEF VerdictOfLook, Expected, Absent, Surplus
    <2> QED BY <1>2, <1>3, <2>1, <2>3, <2>4, <2>6 DEF HeadlessInv
<1>9. CASE AskApi
    <2>1. /\ verdict = "counted" /\ UNCHANGED <<since, expected, seen, overdue>>
          /\ verdict' = IF stored[Newest] >= seen[Newest] THEN "passed" ELSE "lost"
        BY <1>9 DEF AskApi
    <2>2. Newest \in Expected
        <3>1. Expected \in SUBSET Nat /\ Expected # {} /\ \A k \in Expected : k <= MaxKey
            BY <1>1, <1>3, <2>1 DEF Expected, VerdictOfLook, AllKeys, DecodeKeys, CutKey
        <3>2. \E k \in Expected : \A l \in Expected : l <= k
            BY <1>1, <3>1, GreatestNumber
        <3> QED BY <3>2 DEF Newest
    <2>3. stored[Newest] >= seen[Newest]
        <3>1. Newest \in AllKeys
            BY <1>1, <2>2 DEF Expected
        <3> QED BY <1>1, <1>3, <3>1 DEF RowsOfLines
    <2>4. verdict' = "passed"
        BY <2>1, <2>3
    <2>5. HeadlessTypeOK'
        BY <1>2, <1>3, <2>1, <2>4 DEF HeadlessTypeOK, Ends
    <2>6. RowsOfLines' /\ ExpectedOfLog' /\ VerdictOfLook'
        BY <1>2, <1>3, <2>1, <2>4
           DEF RowsOfLines, ExpectedOfLog, VerdictOfLook, Expected, Absent, Surplus
    <2> QED BY <1>2, <1>3, <2>1, <2>5, <2>6 DEF HeadlessInv
<1> QED BY <1>4, <1>5, <1>6, <1>7, <1>8, <1>9

LEMMA HeadlessStep == HeadlessInv /\ [HeadlessNext]_headlessVars => HeadlessInv'
<1> SUFFICES ASSUME HeadlessInv, [HeadlessNext]_headlessVars PROVE HeadlessInv'
    OBVIOUS
<1>1. CASE UNCHANGED headlessVars
    BY <1>1 DEF headlessVars, loggerVars, checkVars, HeadlessInv, HeadlessTypeOK, RowsOfLines,
                ExpectedOfLog, VerdictOfLook, Expected, Absent, Surplus
<1> QED BY <1>1, DecoderKeeps, LoggerKeeps, CheckKeeps DEF HeadlessNext

LEMMA InvGivesVerdict == HeadlessInv => VerdictIsSound
<1> SUFFICES ASSUME HeadlessInv PROVE VerdictIsSound
    OBVIOUS
<1>1. /\ Len(text) \in Nat /\ since \in 0..Len(text) /\ position \in 0..Len(text)
      /\ \A k \in AllKeys : stored[k] \in Nat /\ seen[k] \in Nat /\ expected[k] \in Nat
      /\ DOMAIN expected = AllKeys /\ DecodeKeys \subseteq AllKeys /\ expected[CutKey] = 0
    BY HeadlessTypes
<1>2. \A k : /\ Count(k, text) = CountIn(text, k, Len(text))
             /\ Count(k, SubSeq(text, 1, since)) = CountIn(text, k, since)
             /\ CountIn(text, k, since) \in Nat /\ CountIn(text, k, Len(text)) \in Nat
    <2> SUFFICES ASSUME NEW k
                 PROVE  /\ Count(k, text) = CountIn(text, k, Len(text))
                        /\ Count(k, SubSeq(text, 1, since)) = CountIn(text, k, since)
                        /\ CountIn(text, k, since) \in Nat /\ CountIn(text, k, Len(text)) \in Nat
        OBVIOUS
    <2>1. since \in Nat
        BY <1>1
    <2>2. CountIn(text, k, since) \in 0..since /\ CountIn(text, k, Len(text)) \in 0..Len(text)
        BY <1>1, <2>1, CountInType
    <2> QED BY <1>1, <2>2, CountIsCountIn
<1>3. \A k \in AllKeys : expected[k] <= Count(k, text)
    BY <1>2 DEF HeadlessInv, ExpectedOfLog
<1>4. PassMeansAll
    <2> SUFFICES ASSUME verdict = "passed"
                 PROVE  /\ \A k \in DecodeKeys : seen[k] >= Count(k, SubSeq(text, 1, since))
                        /\ \A k \in Expected : seen[k] = expected[k]
        BY DEF PassMeansAll
    <2>1. \A k \in Expected : seen[k] = expected[k]
        BY DEF HeadlessInv, VerdictOfLook
    <2>2. ASSUME NEW k \in DecodeKeys PROVE seen[k] >= Count(k, SubSeq(text, 1, since))
        <3>1. k \in AllKeys /\ CountIn(text, k, since) <= expected[k] /\ CountIn(text, k, since) \in Nat
            BY <1>1, <1>2 DEF HeadlessInv, ExpectedOfLog
        <3>2. CASE k \in Expected
            BY <1>1, <1>2, <2>1, <3>1, <3>2
        <3>3. CASE k \notin Expected
            BY <1>1, <1>2, <3>1, <3>3 DEF Expected
        <3> QED BY <3>2, <3>3
    <2> QED BY <2>1, <2>2
<1>5. SoundLoggerPasses
    <2>1. verdict # "lost"
        BY DEF HeadlessInv, VerdictOfLook
    <2>2. ASSUME verdict = "missing" PROVE \E k \in DecodeKeys : seen[k] < Count(k, text)
        <3>1. PICK k \in AllKeys : seen[k] < expected[k] /\ expected[k] > 0
            BY <1>1, <2>2 DEF HeadlessInv, VerdictOfLook, Absent, Expected
        <3>2. k \in DecodeKeys
            BY <1>1, <3>1 DEF AllKeys
        <3> QED BY <1>1, <1>2, <1>3, <3>1, <3>2
    <2>3. ASSUME slips = 0, verdict = "repeated" PROVE \E k \in Expected : Count(k, text) > expected[k]
        <3>1. PICK k \in Expected : seen[k] > expected[k]
            BY <2>3 DEF HeadlessInv, VerdictOfLook, Surplus
        <3>2. k \in AllKeys
            BY <1>1, <3>1 DEF Expected
        <3>3. seen[k] <= stored[k] /\ stored[k] <= CountIn(text, k, position)
            BY <2>3, <3>2 DEF HeadlessInv, RowsOfLines
        <3>4. CountIn(text, k, position) <= CountIn(text, k, Len(text)) /\ CountIn(text, k, position) \in Nat
            <4>1. position \in Nat /\ position <= Len(text)
                BY <1>1
            <4>2. CountIn(text, k, position) \in 0..position
                BY <4>1, CountInType
            <4> QED BY <1>1, <4>1, <4>2, CountInGrows
        <3> QED BY <1>1, <1>2, <3>1, <3>2, <3>3, <3>4
    <2> QED BY <2>1, <2>2, <2>3 DEF SoundLoggerPasses
<1> QED BY <1>4, <1>5 DEF VerdictIsSound

\* scripts/verify-headless.py: a check that passes has found every decode that was in the
\* log when it was started, whatever is written and stored meanwhile and whichever faults
\* the logger has; a sound logger is refused only while it is behind, or where an equal
\* decode came after the reading.
THEOREM VerdictsAreSound == HeadlessSpec => []VerdictIsSound
<1>1. HeadlessInit => HeadlessInv
    BY HeadlessStarts
<1>2. HeadlessInv /\ [HeadlessNext]_headlessVars => HeadlessInv'
    BY HeadlessStep
<1>3. HeadlessInv => VerdictIsSound
    BY InvGivesVerdict
<1> QED BY <1>1, <1>2, <1>3, PTL DEF HeadlessSpec

-----------------------------------------------------------------------------
(***************************************************************************)
(* DecodeArchive, for any number of decodes and faults and for batches of  *)
(* any size: what a replay of decodes.jsonl restores.  A decode is safe    *)
(* once its line is ended; until then the next append may spoil it, which  *)
(* the fault that left the line open has paid for (Paid).                  *)
(***************************************************************************)
ArchiveSpec == ArchiveInit /\ [][ArchiveNext]_archiveVars

Numbers == 1..Len(archived)

\* The decodes that are appended or given up, and the first that is not
Handled == 1..(Len(archived) - Len(pending))
Coming  == Len(archived) - Len(pending) + 1

\* What is in the file was stored, and is not what is yet to be appended; decodes are
\* numbered as they are stored.
FromDatabase ==
    /\ \A n \in Numbers : archived[n].number = n
    /\ \A i \in DOMAIN lines : \A j \in DOMAIN lines[i] :
          lines[i][j] # <<>> =>
              /\ lines[i][j][1].number \in Handled
              /\ lines[i][j] = <<archived[lines[i][j][1].number]>>

\* The decodes of the file are in the order in which they were stored.
Ahead(i, j, k, l) == i < k \/ (i = k /\ j < l)
InOrder(log) ==
    \A i, k \in DOMAIN log : \A j \in DOMAIN log[i], l \in DOMAIN log[k] :
        log[i][j] # <<>> /\ log[k][l] # <<>> /\ Ahead(i, j, k, l) =>
            log[i][j][1].number < log[k][l][1].number

\* A line that nothing more can be appended to keeps its decode for good.
Ended == IF unended THEN Len(lines) - 1 ELSE Len(lines)
Lost == {n \in Handled : \A i \in 1..Ended : lines[i] # <<<<archived[n]>>>>}

\* A fault pays for what is lost with it and one more; while the last line has no end,
\* that one is yet to be lost.
Allowed == 2 * failures + (MaxArchiveBatch + 1) * stops
Paid == Cardinality(Lost) + (IF unended THEN 1 ELSE 0) <= Allowed

ArchiveTypes ==
    /\ archived \in Seq(ArchivedDecodes) /\ Len(archived) <= MaxArchived
    /\ pending \in Seq(ArchivedDecodes) /\ Len(pending) <= MaxArchiveBatch
    /\ Len(pending) <= Len(archived)
    /\ \A k \in 1..Len(pending) : pending[k] = archived[Len(archived) - Len(pending) + k]
    /\ lines \in Seq(Seq(Pieces)) /\ \A i \in DOMAIN lines : lines[i] # <<>>
    /\ unended \in BOOLEAN /\ failures \in Nat /\ stops \in Nat
    /\ unended => lines # <<>>
    /\ recovered # <<>> => pending = <<>>

ArchiveInv ==
    /\ ArchiveTypes /\ FromDatabase /\ InOrder(lines) /\ Paid
    /\ OnlyWhatWasStored /\ LossBounded

LEMMA PieceType ==
    ASSUME NEW p \in Pieces
    PROVE  p # <<>> => p[1] \in ArchivedDecodes /\ p = <<p[1]>> /\ p[1].number \in 1..MaxArchived
BY DEF Pieces, ArchivedDecodes

\* A piece is written at the end of the last line, or is a line.
LEMMA WithLines ==
    ASSUME ArchiveTypes, NEW piece \in Pieces, NEW log, log = With(piece)
    PROVE  /\ log \in Seq(Seq(Pieces)) /\ Len(log) = (IF unended THEN Len(lines) ELSE Len(lines) + 1)
           /\ Len(log) > 0
           /\ \A i \in 1..(Len(log) - 1) : log[i] = lines[i]
           /\ \A i \in DOMAIN log : log[i] # <<>>
           /\ log[Len(log)] = IF unended THEN Append(lines[Len(lines)], piece) ELSE <<piece>>
<1>1. CASE unended
  <2>1. /\ Len(lines) \in Nat \ {0} /\ lines[Len(lines)] \in Seq(Pieces)
        /\ DOMAIN lines = 1..Len(lines)
    BY <1>1 DEF ArchiveTypes
  <2>2. Append(lines[Len(lines)], piece) \in Seq(Pieces) /\ Append(lines[Len(lines)], piece) # <<>>
    <3>1. Append(lines[Len(lines)], piece) \in Seq(Pieces)
      BY <2>1
    <3>2. Len(Append(lines[Len(lines)], piece)) = Len(lines[Len(lines)]) + 1
      BY <2>1
    <3> DEFINE last == Append(lines[Len(lines)], piece)
    <3>3. Len(lines[Len(lines)]) \in Nat
      BY <2>1
    <3>4. Len(last) # 0 /\ last \in Seq(Pieces)
      BY <3>1, <3>2, <3>3
    <3>5. last # <<>>
      <4> HIDE DEF last
      <4> QED BY <3>4
    <3> QED BY <3>4, <3>5
  <2>3. /\ Front(lines) \in Seq(Seq(Pieces)) /\ Len(Front(lines)) = Len(lines) - 1
        /\ \A i \in 1..(Len(lines) - 1) : Front(lines)[i] = lines[i]
    BY <2>1 DEF Front, ArchiveTypes
  <2>4. log = Append(Front(lines), Append(lines[Len(lines)], piece))
    BY <1>1 DEF With, Last
  <2>5. /\ log \in Seq(Seq(Pieces)) /\ Len(log) = Len(lines)
        /\ \A i \in 1..(Len(lines) - 1) : log[i] = lines[i]
        /\ log[Len(lines)] = Append(lines[Len(lines)], piece)
    <3> DEFINE front == Front(lines)
               last == Append(lines[Len(lines)], piece)
    <3>1. front \in Seq(Seq(Pieces)) /\ last \in Seq(Pieces) /\ log = Append(front, last)
      BY <2>2, <2>3, <2>4
    <3>2. Len(front) = Len(lines) - 1 /\ \A i \in 1..(Len(lines) - 1) : front[i] = lines[i]
      BY <2>3
    <3> HIDE DEF front, last
    <3>3. log \in Seq(Seq(Pieces)) /\ Len(log) = Len(front) + 1
      BY <3>1
    <3>4. \A i \in 1..Len(front) : log[i] = front[i]
      BY <3>1
    <3>5. log[Len(front) + 1] = last
      BY <3>1
    <3> QED BY <2>1, <3>2, <3>3, <3>4, <3>5 DEF last
  <2>6. \A i \in 1..Len(lines) : log[i] # <<>>
    <3>1. \A i \in DOMAIN lines : lines[i] # <<>>
      BY DEF ArchiveTypes
    <3> DEFINE n == Len(lines)
    <3>4. n \in Nat /\ DOMAIN lines = 1..n
      BY <2>1
    <3> HIDE DEF n
    <3>2. \A i \in 1..(n - 1) : lines[i] # <<>>
      BY <3>1, <3>4
    <3>3. \A i \in 1..n : i = n \/ i \in 1..(n - 1)
      BY <3>4
    <3>5. \A i \in 1..(n - 1) : log[i] # <<>>
      BY <2>5, <3>2 DEF n
    <3>6. log[n] # <<>>
      BY <2>2, <2>5 DEF n
    <3>7. \A i \in 1..n : log[i] # <<>>
      BY <3>3, <3>5, <3>6
    <3> QED BY <3>7 DEF n
  <2>7. Len(log) = Len(lines) /\ Len(lines) > 0 /\ DOMAIN log = 1..Len(lines)
    BY <2>1, <2>5
  <2>8. /\ \A i \in DOMAIN log : log[i] # <<>>
        /\ log[Len(log)] = Append(lines[Len(lines)], piece)
    BY <2>5, <2>6, <2>7
  <2>9. \A i \in 1..(Len(log) - 1) : log[i] = lines[i]
    BY <2>5, <2>7
  <2> QED BY <1>1, <2>5, <2>7, <2>8, <2>9
<1>2. CASE ~unended
  <2>1. Len(lines) \in Nat /\ DOMAIN lines = 1..Len(lines) /\ lines \in Seq(Seq(Pieces))
    BY DEF ArchiveTypes
  <2>2. log = Append(lines, <<piece>>)
    BY <1>2 DEF With
  <2>3. <<piece>> \in Seq(Pieces) /\ <<piece>> # <<>>
    OBVIOUS
  <2>4. /\ log \in Seq(Seq(Pieces)) /\ Len(log) = Len(lines) + 1
        /\ \A i \in 1..Len(lines) : log[i] = lines[i]
        /\ log[Len(lines) + 1] = <<piece>>
    <3> QED BY <2>1, <2>2, <2>3
  <2>5. \A i \in 1..(Len(lines) + 1) : log[i] # <<>>
    <3>1. \A i \in DOMAIN lines : lines[i] # <<>>
      BY DEF ArchiveTypes
    <3>2. \A i \in 1..Len(lines) : lines[i] # <<>>
      BY <3>1, <2>1
    <3>3. \A i \in 1..(Len(lines) + 1) : i = Len(lines) + 1 \/ i \in 1..Len(lines)
      BY <2>1
    <3> QED BY <3>2, <3>3, <2>3, <2>4
  <2> QED BY <1>2, <2>1, <2>4, <2>5
<1> QED BY <1>1, <1>2 DEF ArchiveTypes

\* Each place of the file is one that it had, or the last one, with the new piece.
LEMMA WithPlaces ==
    ASSUME ArchiveTypes, NEW piece \in Pieces, NEW log, log = With(piece),
           NEW i \in DOMAIN log, NEW j \in DOMAIN log[i]
    PROVE  \/ i \in DOMAIN lines /\ j \in DOMAIN lines[i] /\ log[i][j] = lines[i][j]
           \/ i = Len(log) /\ j = Len(log[i]) /\ log[i][j] = piece
<1>1. /\ log \in Seq(Seq(Pieces)) /\ Len(log) = (IF unended THEN Len(lines) ELSE Len(lines) + 1)
      /\ \A m \in 1..(Len(log) - 1) : log[m] = lines[m]
      /\ log[Len(log)] = IF unended THEN Append(lines[Len(lines)], piece) ELSE <<piece>>
  BY WithLines
<1>2. Len(lines) \in Nat /\ DOMAIN lines = 1..Len(lines) /\ \A m \in 1..Len(lines) : lines[m] \in Seq(Pieces)
  BY DEF ArchiveTypes
<1>3. DOMAIN log = 1..Len(log) /\ Len(log) \in Nat
  BY <1>1
<1>4. CASE i # Len(log)
  <2>1. i \in 1..(Len(log) - 1) /\ i \in 1..Len(lines)
    BY <1>1, <1>2, <1>3, <1>4 DEF ArchiveTypes
  <2>2. log[i] = lines[i]
    BY <1>1, <2>1
  <2> QED BY <1>2, <2>1, <2>2
<1>5. CASE i = Len(log) /\ unended
  <2>1. i = Len(lines) /\ i \in 1..Len(lines) /\ lines[i] \in Seq(Pieces)
    BY <1>1, <1>2, <1>3, <1>5
  <2>2. log[i] = Append(lines[i], piece)
    BY <1>1, <1>5, <2>1
  <2>3. Len(log[i]) = Len(lines[i]) + 1 /\ j \in 1..(Len(lines[i]) + 1) /\ Len(lines[i]) \in Nat
    BY <2>1, <2>2
  <2>4. CASE j = Len(lines[i]) + 1
    BY <1>5, <2>1, <2>2, <2>3, <2>4
  <2>5. CASE j # Len(lines[i]) + 1
    BY <1>2, <2>1, <2>2, <2>3, <2>5
  <2> QED BY <2>4, <2>5
<1>6. CASE i = Len(log) /\ ~unended
  <2>1. log[i] = <<piece>>
    BY <1>1, <1>6 DEF ArchiveTypes
  <2>2. j = 1 /\ Len(log[i]) = 1 /\ log[i][j] = piece
    BY <2>1
  <2> QED BY <1>6, <2>2
<1> QED BY <1>4, <1>5, <1>6 DEF ArchiveTypes

\* What faults allow grows with them.
LEMMA AllowedGrows ==
    ASSUME ArchiveTypes
    PROVE  /\ Allowed \in Nat /\ MaxArchiveBatch \in Nat
           /\ failures' = failures + 1 /\ stops' = stops => Allowed' = Allowed + 2
           /\ stops' = stops + 1 /\ failures' = failures => Allowed' = Allowed + MaxArchiveBatch + 1
           /\ UNCHANGED <<failures, stops>> => Allowed' = Allowed
<1>1. failures \in Nat /\ stops \in Nat /\ MaxArchiveBatch \in Nat
  BY ArchiveAssumption DEF ArchiveTypes
<1>2. \A m, n \in Nat : (m + 1) * n \in Nat /\ (m + 1) * (n + 1) = (m + 1) * n + m + 1
  OBVIOUS
<1>3. (MaxArchiveBatch + 1) * stops \in Nat
      /\ (MaxArchiveBatch + 1) * (stops + 1) = (MaxArchiveBatch + 1) * stops + MaxArchiveBatch + 1
  BY <1>1, <1>2
<1> DEFINE cost == (MaxArchiveBatch + 1) * stops
<1>4. cost \in Nat /\ Allowed = 2 * failures + cost
  BY <1>3 DEF Allowed
<1>5. Allowed' = 2 * failures' + (MaxArchiveBatch + 1) * stops'
  BY DEF Allowed
<1>6. (stops' = stops => Allowed' = 2 * failures' + cost)
      /\ (stops' = stops + 1 => Allowed' = 2 * failures' + (cost + MaxArchiveBatch + 1))
  BY <1>3, <1>5
<1> HIDE DEF cost
<1> QED BY <1>1, <1>4, <1>6

LEMMA ArchiveInitial ==
    ASSUME ArchiveInit
    PROVE  ArchiveInv
<1>1. ArchiveTypes
  <2>1. /\ archived = <<>> /\ pending = <<>> /\ lines = <<>>
        /\ MaxArchived \in Nat /\ MaxArchiveBatch \in Nat
    BY ArchiveAssumption DEF ArchiveInit
  <2>2. <<>> \in Seq(ArchivedDecodes) /\ <<>> \in Seq(Seq(Pieces)) /\ Len(<<>>) = 0
    OBVIOUS
  <2>3. Len(archived) <= MaxArchived /\ Len(pending) <= MaxArchiveBatch /\ Len(pending) <= Len(archived)
    BY <2>1
  <2>4. lines \in Seq(Seq(Pieces)) /\ \A i \in DOMAIN lines : lines[i] # <<>>
    BY <2>1, <2>2
  <2>5. \A k \in 1..Len(pending) : pending[k] = archived[Len(archived) - Len(pending) + k]
    BY <2>1
  <2> QED BY <2>1, <2>2, <2>3, <2>4, <2>5 DEF ArchiveInit, ArchiveTypes
<1>2. FromDatabase /\ InOrder(lines) /\ OnlyWhatWasStored /\ LossBounded
  BY DEF ArchiveInit, FromDatabase, InOrder, Numbers, OnlyWhatWasStored, LossBounded
<1>3. Lost = {}
  BY DEF ArchiveInit, Lost, Handled
<1>4. Paid
  <2>1. Cardinality(Lost) = 0 /\ unended = FALSE
    BY <1>3, FS_EmptySet DEF ArchiveInit
  <2> QED BY <1>1, <2>1, AllowedGrows DEF Paid
<1> QED BY <1>1, <1>2, <1>4 DEF ArchiveInv

\* What is lost is finite, and grows by what is added to it, at most.
LEMMA LostGrows ==
    ASSUME ArchiveTypes, NEW added, IsFiniteSet(added), NEW more, more \subseteq Lost \cup added
    PROVE  /\ IsFiniteSet(Lost) /\ Cardinality(Lost) \in Nat
           /\ IsFiniteSet(more) /\ Cardinality(more) \in Nat
           /\ Cardinality(more) <= Cardinality(Lost) + Cardinality(added)
<1>1. IsFiniteSet(Lost)
  <2>1. IsFiniteSet(Handled)
    BY FS_Interval DEF ArchiveTypes, Handled
  <2>2. Lost \in SUBSET Handled
    BY DEF Lost
  <2> QED BY <2>1, <2>2, FS_Subset
<1> HIDE DEF Lost
<1>2. /\ IsFiniteSet(Lost \cup added)
      /\ Cardinality(Lost \cup added) = Cardinality(Lost) + Cardinality(added) - Cardinality(Lost \cap added)
  BY <1>1, FS_Union
<1>3. IsFiniteSet(Lost \cap added)
  BY <1>1, FS_Intersection
<1>4. IsFiniteSet(more) /\ Cardinality(more) <= Cardinality(Lost \cup added)
  BY <1>2, FS_Subset
<1>5. /\ Cardinality(Lost) \in Nat /\ Cardinality(added) \in Nat /\ Cardinality(more) \in Nat
      /\ Cardinality(Lost \cap added) \in Nat /\ Cardinality(Lost \cup added) \in Nat
  BY <1>1, <1>2, <1>3, <1>4, FS_CardinalityType
<1> QED BY <1>1, <1>2, <1>4, <1>5

\* A batch is stored, and none of it is in the file, nor lost.
LEMMA StoreStep ==
    ASSUME ArchiveInv, StoreBatch
    PROVE  ArchiveInv'
<1>1. PICK batch \in NextBatches :
         /\ Len(archived) + Len(batch) <= MaxArchived
         /\ pending' = batch /\ archived' = archived \o batch
  BY DEF StoreBatch
<1>2. PICK n \in 1..MaxArchiveBatch : batch \in [1..n -> ArchivedDecodes]
  BY DEF NextBatches
<1>3. /\ pending = <<>> /\ recovered = <<>>
      /\ UNCHANGED <<lines, unended, failures, stops, recovered>>
      /\ MaxArchiveBatch \in Nat /\ n \in Nat /\ n <= MaxArchiveBatch
  BY ArchiveAssumption DEF StoreBatch
<1>4. /\ batch \in Seq(ArchivedDecodes) /\ Len(batch) = n
      /\ \A k \in 1..n : batch[k].number = Len(archived) + k
  <2>1. batch \in Seq(ArchivedDecodes) /\ Len(batch) = n /\ DOMAIN batch = 1..n
    BY <1>2, <1>3
  <2> QED BY <2>1 DEF NextBatches
<1>5. /\ archived \in Seq(ArchivedDecodes) /\ Len(archived) \in Nat
      /\ archived' \in Seq(ArchivedDecodes) /\ Len(archived') = Len(archived) + n
      /\ \A k \in 1..Len(archived) : archived'[k] = archived[k]
      /\ \A k \in 1..n : archived'[Len(archived) + k] = batch[k]
  <2>1. archived \in Seq(ArchivedDecodes) /\ Len(archived) \in Nat
    BY DEF ArchiveInv, ArchiveTypes
  <2>2. /\ archived \o batch \in Seq(ArchivedDecodes)
        /\ Len(archived \o batch) = Len(archived) + Len(batch)
        /\ \A k \in 1..Len(archived) + Len(batch) :
              (archived \o batch)[k] = IF k <= Len(archived) THEN archived[k] ELSE batch[k - Len(archived)]
    BY <1>4, <2>1, ConcatProperties
  <2> DEFINE all == archived \o batch
  <2>3. archived' = all
    BY <1>1
  <2> HIDE DEF all
  <2>4. \A k \in 1..Len(archived) : all[k] = archived[k]
    BY <1>3, <1>4, <2>1, <2>2 DEF all
  <2>5. \A k \in 1..n : all[Len(archived) + k] = batch[k]
    BY <1>3, <1>4, <2>1, <2>2 DEF all
  <2>6. all \in Seq(ArchivedDecodes) /\ Len(all) = Len(archived) + n
    BY <1>4, <2>2 DEF all
  <2> QED BY <2>1, <2>3, <2>4, <2>5, <2>6
<1>6. ArchiveTypes'
  <2>1. Len(archived') <= MaxArchived /\ Len(pending') <= MaxArchiveBatch /\ Len(pending') <= Len(archived')
    BY <1>1, <1>3, <1>4, <1>5
  <2>2. \A k \in 1..Len(pending') : pending'[k] = archived'[Len(archived') - Len(pending') + k]
    <3>1. Len(archived') - Len(pending') = Len(archived)
      BY <1>1, <1>3, <1>4, <1>5
    <3> QED BY <1>1, <1>4, <1>5, <3>1
  <2> QED BY <1>1, <1>3, <1>4, <1>5, <2>1, <2>2 DEF ArchiveInv, ArchiveTypes
<1>7. Handled' = Handled /\ Handled = Numbers
  <2>1. Len(archived') - Len(pending') = Len(archived) /\ Len(archived) - Len(pending) = Len(archived)
    BY <1>1, <1>3, <1>4, <1>5
  <2> QED BY <2>1 DEF Handled, Numbers
<1>8. \A k \in Numbers : archived'[k] = archived[k]
  BY <1>5 DEF Numbers
<1>9. FromDatabase'
  <2>1. ASSUME NEW k \in Numbers' PROVE archived'[k].number = k
    <3>1. k \in 1..(Len(archived) + n) /\ k \in Nat
      BY <1>3, <1>5 DEF Numbers
    <3>2. CASE k <= Len(archived)
      <4>1. k \in Numbers
        BY <1>3, <1>5, <3>1, <3>2 DEF Numbers
      <4>2. archived[k].number = k
        BY <4>1 DEF ArchiveInv, FromDatabase
      <4> QED BY <1>8, <4>1, <4>2
    <3>3. CASE k > Len(archived)
      <4>1. k - Len(archived) \in 1..n /\ k = Len(archived) + (k - Len(archived))
        BY <1>3, <1>5, <3>1, <3>3
      <4>2. archived'[k] = batch[k - Len(archived)]
        BY <1>5, <4>1
      <4>3. batch[k - Len(archived)].number = k
        BY <1>4, <4>1
      <4> QED BY <4>2, <4>3
    <3> QED BY <1>5, <3>1, <3>2, <3>3
  <2>2. ASSUME NEW i \in DOMAIN lines', NEW j \in DOMAIN lines'[i], lines'[i][j] # <<>>
        PROVE  /\ lines'[i][j][1].number \in Handled'
               /\ lines'[i][j] = <<archived'[lines'[i][j][1].number]>>
    <3>1. lines' = lines
      BY <1>3
    <3>2. /\ lines[i][j][1].number \in Handled
          /\ lines[i][j] = <<archived[lines[i][j][1].number]>>
      BY <2>2, <3>1 DEF ArchiveInv, FromDatabase
    <3> QED BY <1>7, <1>8, <3>1, <3>2
  <2> QED BY <2>1, <2>2 DEF FromDatabase
<1>10. InOrder(lines)'
  BY <1>3 DEF ArchiveInv, InOrder, Ahead
<1>11. Paid'
  <2>1. Ended' = Ended
    BY <1>3 DEF Ended
  <2>2. Lost' = Lost
    BY <1>3, <1>7, <1>8, <2>1 DEF Lost
  <2>3. Allowed' = Allowed
    BY <1>3 DEF Allowed
  <2> QED BY <1>3, <2>2, <2>3 DEF ArchiveInv, Paid
<1>12. OnlyWhatWasStored' /\ LossBounded'
  BY <1>3 DEF OnlyWhatWasStored, LossBounded
<1> QED BY <1>6, <1>9, <1>10, <1>11, <1>12 DEF ArchiveInv

\* The decode whose turn it is, and what is pending after it, or after an end of the
\* process: in both cases it has been handled.
LEMMA TurnOf ==
    ASSUME ArchiveTypes, FromDatabase, pending # <<>>, pending' \in {Tail(pending), <<>>},
           UNCHANGED archived
    PROVE  /\ Coming \in Numbers /\ Head(pending) = archived[Coming]
           /\ archived[Coming] \in ArchivedDecodes /\ archived[Coming].number = Coming
           /\ Handled = 1..(Coming - 1) /\ Numbers' = Numbers
           /\ Handled \subseteq Handled' /\ Coming \in Handled' /\ Handled' \subseteq Numbers
           /\ pending' = Tail(pending) => Handled' = Handled \cup {Coming}
           /\ pending' = <<>> => Handled' = Handled \cup (Coming..Len(archived))
           /\ Len(archived) - Coming + 1 <= MaxArchiveBatch
<1>1. /\ pending \in Seq(ArchivedDecodes) /\ Len(pending) \in Nat \ {0} /\ Len(archived) \in Nat
      /\ Len(pending) <= Len(archived) /\ Len(pending) <= MaxArchiveBatch
      /\ archived \in Seq(ArchivedDecodes)
  BY DEF ArchiveTypes
<1>2. Coming \in 1..Len(archived) /\ Coming = Len(archived) - Len(pending) + 1
  BY <1>1 DEF Coming
<1>3. Head(pending) = archived[Coming]
  <2>1. pending[1] = archived[Len(archived) - Len(pending) + 1]
    BY <1>1 DEF ArchiveTypes
  <2> QED BY <1>1, <1>2, <2>1
<1>4. archived[Coming] \in ArchivedDecodes /\ archived[Coming].number = Coming
  BY <1>1, <1>2 DEF FromDatabase, Numbers
<1>5. Handled = 1..(Coming - 1) /\ Numbers' = Numbers
  BY <1>1, <1>2 DEF Handled, Numbers
<1>6. Coming \in Numbers /\ Len(archived) - Coming + 1 <= MaxArchiveBatch
  BY <1>1, <1>2 DEF Numbers
<1>7. CASE pending' = Tail(pending)
  <2>1. Len(pending') = Len(pending) - 1
    BY <1>1, <1>7
  <2>2. Handled' = 1..Coming
    BY <1>1, <1>2, <2>1 DEF Handled
  <2>3. pending' = <<>> => Coming = Len(archived)
    <3> SUFFICES ASSUME pending' = <<>> PROVE Coming = Len(archived)
      OBVIOUS
    <3>1. Len(pending') = 0
      OBVIOUS
    <3>2. Len(pending) = 1
      BY <1>1, <2>1, <3>1
    <3> QED BY <1>1, <1>2, <3>2
  <2>4. /\ Handled \subseteq Handled' /\ Coming \in Handled' /\ Handled' \subseteq Numbers
        /\ Handled' = Handled \cup {Coming}
    BY <1>2, <1>5, <2>2 DEF Numbers
  <2>5. pending' = <<>> => Handled' = Handled \cup (Coming..Len(archived))
    <3> SUFFICES ASSUME pending' = <<>> PROVE Coming..Len(archived) = {Coming}
      BY <2>4
    <3> QED BY <1>2, <2>3
  <2> QED BY <1>3, <1>4, <1>5, <1>6, <2>4, <2>5
<1>8. CASE pending' = <<>>
  <2>1. Len(pending') = 0
    BY <1>8
  <2>2. Handled' = 1..Len(archived)
    BY <1>1, <2>1 DEF Handled
  <2>3. pending' = Tail(pending) => Coming = Len(archived)
    <3> SUFFICES ASSUME pending' = Tail(pending) PROVE Coming = Len(archived)
      OBVIOUS
    <3>1. Len(pending') = Len(pending) - 1
      BY <1>1
    <3>2. Len(pending) = 1
      BY <1>1, <2>1, <3>1
    <3> QED BY <1>1, <1>2, <3>2
  <2>4. /\ Handled \subseteq Handled' /\ Coming \in Handled' /\ Handled' \subseteq Numbers
        /\ Handled' = Handled \cup (Coming..Len(archived))
    BY <1>2, <1>5, <2>2 DEF Numbers
  <2>5. pending' = Tail(pending) => Handled' = Handled \cup {Coming}
    <3> SUFFICES ASSUME pending' = Tail(pending) PROVE Coming..Len(archived) = {Coming}
      BY <2>4
    <3> QED BY <1>2, <2>3
  <2> QED BY <1>3, <1>4, <1>5, <1>6, <2>4, <2>5
<1> QED BY <1>7, <1>8

\* A piece of the decode whose turn it is keeps the file's order.
LEMMA WithInOrder ==
    ASSUME ArchiveInv, pending # <<>>, NEW piece \in {<<>>, <<Head(pending)>>},
           lines' = With(piece), pending' \in {Tail(pending), <<>>}, UNCHANGED archived
    PROVE  FromDatabase' /\ InOrder(lines)'
<1>1. /\ Coming \in Numbers /\ Head(pending) = archived[Coming]
      /\ archived[Coming] \in ArchivedDecodes /\ archived[Coming].number = Coming
      /\ Handled = 1..(Coming - 1) /\ Numbers' = Numbers
      /\ Handled \subseteq Handled' /\ Coming \in Handled'
  BY TurnOf DEF ArchiveInv
<1>2. piece \in Pieces /\ ArchiveTypes /\ Coming \in Nat
  BY <1>1 DEF Pieces, ArchiveInv, Numbers
<1> DEFINE log == With(piece)
           Old(i, j) == i \in DOMAIN lines /\ j \in DOMAIN lines[i] /\ log[i][j] = lines[i][j]
           New(i, j) == i = Len(log) /\ j = Len(log[i]) /\ log[i][j] = piece
<1>3. \A i \in DOMAIN log : \A j \in DOMAIN log[i] : Old(i, j) \/ New(i, j)
  <2> SUFFICES ASSUME NEW i \in DOMAIN log, NEW j \in DOMAIN log[i] PROVE Old(i, j) \/ New(i, j)
    OBVIOUS
  <2> QED BY <1>2, WithPlaces
<1>4. /\ log \in Seq(Seq(Pieces)) /\ Len(log) \in Nat
      /\ \A i \in DOMAIN log : log[i] \in Seq(Pieces)
      /\ DOMAIN log = 1..Len(log) /\ \A i \in DOMAIN log : DOMAIN log[i] = 1..Len(log[i])
  <2>1. log \in Seq(Seq(Pieces))
    BY <1>2, WithLines
  <2> HIDE DEF log
  <2>2. \A i \in DOMAIN log : log[i] \in Seq(Pieces)
    BY <2>1
  <2> QED BY <2>1, <2>2
<1>5. \A i, j : Old(i, j) /\ log[i][j] # <<>> =>
         /\ log[i][j][1].number \in 1..(Coming - 1)
         /\ log[i][j] = <<archived[log[i][j][1].number]>>
  BY <1>1 DEF ArchiveInv, FromDatabase
<1>6. \A i, j : New(i, j) /\ log[i][j] # <<>> =>
         /\ log[i][j][1].number = Coming
         /\ log[i][j] = <<archived[Coming]>>
  BY <1>1
<1>7. lines' = log
  OBVIOUS
<1>8. FromDatabase'
  <2>1. \A n \in Numbers' : archived'[n].number = n
    BY <1>1 DEF ArchiveInv, FromDatabase
  <2>2. ASSUME NEW i \in DOMAIN log, NEW j \in DOMAIN log[i], log[i][j] # <<>>
        PROVE  /\ log[i][j][1].number \in Handled'
               /\ log[i][j] = <<archived[log[i][j][1].number]>>
    <3> HIDE DEF Old, New, log
    <3>1. CASE Old(i, j)
      <4>1. /\ log[i][j][1].number \in 1..(Coming - 1)
            /\ log[i][j] = <<archived[log[i][j][1].number]>>
        BY <1>5, <2>2, <3>1
      <4>2. 1..(Coming - 1) \subseteq Handled'
        BY <1>1
      <4> QED BY <4>1, <4>2
    <3>2. CASE New(i, j)
      <4>1. log[i][j][1].number = Coming /\ log[i][j] = <<archived[Coming]>>
        BY <1>6, <2>2, <3>2
      <4> QED BY <1>1, <4>1
    <3> QED BY <1>3, <2>2, <3>1, <3>2
  <2> HIDE DEF log
  <2> QED BY <1>7, <2>1, <2>2 DEF FromDatabase
<1>9. InOrder(log)
  <2> SUFFICES ASSUME NEW i \in DOMAIN log, NEW k \in DOMAIN log,
                      NEW j \in DOMAIN log[i], NEW l \in DOMAIN log[k],
                      log[i][j] # <<>>, log[k][l] # <<>>, Ahead(i, j, k, l)
               PROVE  log[i][j][1].number < log[k][l][1].number
    <3> HIDE DEF log
    <3> QED BY DEF InOrder
  <2>1. CASE Old(i, j) /\ Old(k, l)
    BY <2>1 DEF ArchiveInv, InOrder
  <2>2. CASE Old(i, j) /\ New(k, l)
    <3> HIDE DEF Old, New, log
    <3> QED BY <1>2, <1>5, <1>6, <2>2
  <2>3. CASE New(i, j)
    <3>1. i \in 1..Len(log) /\ k \in 1..Len(log) /\ j \in 1..Len(log[i]) /\ l \in 1..Len(log[k])
      <4> HIDE DEF log
      <4> QED BY <1>4
    <3>2. i = Len(log) /\ j = Len(log[i])
      BY <2>3
    <3> HIDE DEF log
    <3>3. ~Ahead(i, j, k, l)
      BY <1>4, <3>1, <3>2 DEF Ahead
    <3> QED BY <3>3
  <2>4. (Old(i, j) \/ New(i, j)) /\ (Old(k, l) \/ New(k, l))
    BY <1>3
  <2> QED BY <2>1, <2>2, <2>3, <2>4
<1>10. InOrder(lines)'
  <2> HIDE DEF log
  <2> QED BY <1>7, <1>9 DEF InOrder, Ahead
<1> QED BY <1>8, <1>10

\* An append that is done with, well or not, loses no decode but those that it handles, as
\* long as the lines that were ended are as they were.
LEMMA LostAtMost ==
    ASSUME UNCHANGED archived, Ended \in Int, Ended' \in Int, Ended <= Ended',
           \A i \in 1..Ended : lines'[i] = lines[i],
           NEW handled, Handled' = Handled \cup handled
    PROVE  Lost' \subseteq Lost \cup handled
<1> SUFFICES ASSUME NEW n \in Lost', n \notin handled PROVE n \in Lost
  OBVIOUS
<1>1. n \in Handled
  BY DEF Lost
<1>2. \A i \in 1..Ended : lines[i] # <<<<archived[n]>>>>
  <2> SUFFICES ASSUME NEW i \in 1..Ended PROVE lines[i] # <<<<archived[n]>>>>
    OBVIOUS
  <2>1. i \in 1..Ended'
    OBVIOUS
  <2>2. lines'[i] # <<<<archived'[n]>>>>
    BY <2>1 DEF Lost
  <2> QED BY <2>2
<1> QED BY <1>1, <1>2 DEF Lost

\* Types of what is pending, once a decode has had its turn
LEMMA PendingTypes ==
    ASSUME ArchiveTypes, pending # <<>>, pending' \in {Tail(pending), <<>>}, UNCHANGED archived
    PROVE  /\ pending' \in Seq(ArchivedDecodes) /\ Len(pending') <= MaxArchiveBatch
           /\ Len(pending') <= Len(archived')
           /\ \A k \in 1..Len(pending') : pending'[k] = archived'[Len(archived') - Len(pending') + k]
<1>1. /\ pending \in Seq(ArchivedDecodes) /\ Len(pending) \in Nat \ {0} /\ Len(archived) \in Nat
      /\ Len(pending) <= Len(archived) /\ Len(pending) <= MaxArchiveBatch /\ MaxArchiveBatch \in Nat
      /\ \A k \in 1..Len(pending) : pending[k] = archived[Len(archived) - Len(pending) + k]
  BY ArchiveAssumption DEF ArchiveTypes
<1>2. CASE pending' = Tail(pending)
  <2>1. /\ pending' \in Seq(ArchivedDecodes) /\ Len(pending') = Len(pending) - 1
        /\ \A k \in 1..Len(pending') : pending'[k] = pending[k + 1]
    BY <1>1, <1>2
  <2>2. ASSUME NEW k \in 1..Len(pending')
        PROVE  pending'[k] = archived'[Len(archived') - Len(pending') + k]
    <3>1. k + 1 \in 1..Len(pending)
      BY <1>1, <2>1
    <3>2. pending[k + 1] = archived[Len(archived) - Len(pending) + (k + 1)]
      BY <1>1, <3>1
    <3>3. Len(archived) - Len(pending) + (k + 1) = Len(archived') - Len(pending') + k
      BY <1>1, <2>1
    <3> QED BY <2>1, <3>2, <3>3
  <2>3. Len(pending') <= MaxArchiveBatch /\ Len(pending') <= Len(archived')
    BY <1>1, <2>1
  <2> QED BY <2>1, <2>2, <2>3
<1>3. CASE pending' = <<>>
  <2>1. pending' \in Seq(ArchivedDecodes) /\ Len(pending') = 0
    BY <1>3
  <2> QED BY <1>1, <2>1
<1> QED BY <1>2, <1>3

\* Types and order of an append that is done with
LEMMA WrittenTypes ==
    ASSUME ArchiveInv, pending # <<>>, NEW piece \in {<<>>, <<Head(pending)>>},
           lines' = With(piece), pending' \in {Tail(pending), <<>>}, unended' \in BOOLEAN,
           failures' \in Nat, stops' \in Nat, UNCHANGED <<archived, recovered>>
    PROVE  /\ ArchiveTypes' /\ FromDatabase' /\ InOrder(lines)'
           /\ OnlyWhatWasStored' /\ LossBounded'
<1>1. piece \in Pieces /\ ArchiveTypes
  <2>1. Head(pending) \in ArchivedDecodes
    BY DEF ArchiveInv, ArchiveTypes
  <2> QED BY <2>1 DEF Pieces, ArchiveInv
<1>2. recovered = <<>>
  BY <1>1 DEF ArchiveTypes
<1>3. lines' \in Seq(Seq(Pieces)) /\ Len(lines') > 0 /\ \A i \in DOMAIN lines' : lines'[i] # <<>>
  BY <1>1, WithLines
<1>4. ArchiveTypes'
  <2>1. lines' # <<>>
    BY <1>3
  <2>2. /\ pending' \in Seq(ArchivedDecodes) /\ Len(pending') <= MaxArchiveBatch
        /\ Len(pending') <= Len(archived')
        /\ \A k \in 1..Len(pending') : pending'[k] = archived'[Len(archived') - Len(pending') + k]
    BY <1>1, PendingTypes
  <2> QED BY <1>1, <1>2, <1>3, <2>1, <2>2 DEF ArchiveTypes
<1>5. FromDatabase' /\ InOrder(lines)'
  BY WithInOrder
<1>6. OnlyWhatWasStored' /\ LossBounded'
  BY <1>2 DEF OnlyWhatWasStored, LossBounded
<1> QED BY <1>4, <1>5, <1>6

LEMMA ArchiveStep ==
    ASSUME ArchiveInv, Archive
    PROVE  ArchiveInv'
<1> DEFINE piece == <<Head(pending)>>
<1>1. /\ pending # <<>> /\ lines' = With(piece) /\ unended' = FALSE /\ pending' = Tail(pending)
      /\ UNCHANGED <<archived, failures, stops, recovered>> /\ failures \in Nat /\ stops \in Nat
      /\ unended \in BOOLEAN /\ ArchiveTypes /\ FromDatabase /\ Len(lines) \in Nat
  BY DEF Archive, AppendLine, ArchiveInv, ArchiveTypes
<1>2. /\ ArchiveTypes' /\ FromDatabase' /\ InOrder(lines)'
      /\ OnlyWhatWasStored' /\ LossBounded'
  <2>1. piece \in {<<>>, <<Head(pending)>>} /\ failures' \in Nat /\ stops' \in Nat
    BY <1>1
  <2> HIDE DEF piece
  <2> QED BY <1>1, <2>1, WrittenTypes
<1>3. /\ piece = <<archived[Coming]>> /\ piece \in Pieces /\ Coming \in Numbers
      /\ Handled' = Handled \cup {Coming}
  <2>1. /\ Coming \in Numbers /\ Head(pending) = archived[Coming]
        /\ archived[Coming] \in ArchivedDecodes /\ Handled' = Handled \cup {Coming}
    BY <1>1, TurnOf
  <2> QED BY <2>1 DEF Pieces
<1> HIDE DEF piece
<1>4. /\ Len(lines') = (IF unended THEN Len(lines) ELSE Len(lines) + 1)
      /\ \A i \in 1..(Len(lines') - 1) : lines'[i] = lines[i]
      /\ ~unended => lines'[Len(lines')] = <<piece>>
  <2>1. \A log : log = With(piece) =>
          /\ Len(log) = (IF unended THEN Len(lines) ELSE Len(lines) + 1)
          /\ \A i \in 1..(Len(log) - 1) : log[i] = lines[i]
          /\ log[Len(log)] = IF unended THEN Append(lines[Len(lines)], piece) ELSE <<piece>>
    BY <1>1, <1>3, WithLines
  <2> QED BY <1>1, <2>1
<1>5. /\ Ended \in Int /\ Ended' \in Int /\ Ended' = Ended + 1 /\ Ended' = Len(lines')
      /\ Ended = Len(lines') - 1
  BY <1>1, <1>4 DEF Ended
<1>6. Lost' \subseteq Lost \cup {Coming}
  <2>1. UNCHANGED archived /\ \A i \in 1..Ended : lines'[i] = lines[i]
    BY <1>1, <1>4, <1>5
  <2>2. Ended \in Int /\ Ended' \in Int /\ Ended <= Ended'
    BY <1>5
  <2> QED BY <1>3, <2>1, <2>2, LostAtMost
<1>7. Allowed' = Allowed /\ Allowed \in Nat
  BY <1>1, AllowedGrows
<1>8. CASE unended
  <2>1. Cardinality(Lost) + 1 <= Allowed
    BY <1>8 DEF ArchiveInv, Paid
  <2>2. IsFiniteSet({Coming}) /\ Cardinality({Coming}) = 1
    BY FS_Singleton
  <2>3. /\ Cardinality(Lost) \in Nat /\ Cardinality(Lost') \in Nat
        /\ Cardinality(Lost') <= Cardinality(Lost) + Cardinality({Coming})
    BY <1>1, <1>6, <2>2, LostGrows
  <2>4. Cardinality(Lost') + (IF unended' THEN 1 ELSE 0) <= Allowed'
    BY <1>1, <1>7, <2>1, <2>2, <2>3
  <2> QED BY <1>2, <2>4 DEF ArchiveInv, Paid
<1>9. CASE ~unended
  <2>1. Coming \notin Lost'
    <3>1. Ended' \in 1..Ended' /\ lines'[Ended'] = <<<<archived'[Coming]>>>>
      BY <1>1, <1>3, <1>4, <1>5, <1>9 DEF Ended
    <3> QED BY <3>1 DEF Lost
  <2>2. IsFiniteSet({}) /\ Cardinality({}) = 0
    BY FS_EmptySet
  <2>3. Lost' \subseteq Lost \cup {}
    BY <1>6, <2>1
  <2>4. /\ Cardinality(Lost) \in Nat /\ Cardinality(Lost') \in Nat
        /\ Cardinality(Lost') <= Cardinality(Lost) + Cardinality({})
    BY <1>1, <2>2, <2>3, LostGrows
  <2>5. Cardinality(Lost) <= Allowed
    BY <1>1, <1>7, <1>9, <2>4 DEF ArchiveInv, Paid
  <2>6. Cardinality(Lost') + (IF unended' THEN 1 ELSE 0) <= Allowed'
    BY <1>1, <1>7, <2>2, <2>4, <2>5
  <2> QED BY <1>2, <2>6 DEF ArchiveInv, Paid
<1> QED BY <1>1, <1>8, <1>9

\* A fault, in which the decodes of more are handled and which allows for them and one more
LEMMA FaultStep ==
    ASSUME ArchiveInv, pending # <<>>, Torn, UNCHANGED <<archived, recovered>>,
           pending' \in {Tail(pending), <<>>}, failures' \in Nat, stops' \in Nat,
           NEW more, Handled' = Handled \cup more, IsFiniteSet(more),
           Allowed \in Nat, Allowed' \in Nat, Allowed + Cardinality(more) + 1 <= Allowed'
    PROVE  ArchiveInv'
<1>1. /\ ArchiveTypes /\ FromDatabase /\ Len(lines) \in Nat /\ unended \in BOOLEAN
      /\ Cardinality(more) \in Nat
  BY FS_CardinalityType DEF ArchiveInv, ArchiveTypes
<1>2. ASSUME Lost' \subseteq Lost \cup more, unended' \in BOOLEAN
      PROVE  Paid' /\ Cardinality(Lost) \in Nat
  <2>1. /\ Cardinality(Lost) \in Nat /\ Cardinality(Lost') \in Nat
        /\ Cardinality(Lost') <= Cardinality(Lost) + Cardinality(more)
    BY <1>1, <1>2, LostGrows
  <2>2. Cardinality(Lost) <= Allowed
    BY <1>1, <2>1 DEF ArchiveInv, Paid
  <2>3. Cardinality(Lost') + (IF unended' THEN 1 ELSE 0) <= Allowed'
    BY <1>1, <1>2, <2>1, <2>2
  <2> QED BY <2>1, <2>3 DEF Paid
<1>3. CASE UNCHANGED <<lines, unended>>
  <2>1. ArchiveTypes'
    <3>1. /\ pending' \in Seq(ArchivedDecodes) /\ Len(pending') <= MaxArchiveBatch
          /\ Len(pending') <= Len(archived')
          /\ \A k \in 1..Len(pending') : pending'[k] = archived'[Len(archived') - Len(pending') + k]
      BY <1>1, PendingTypes
    <3> QED BY <1>1, <1>3, <3>1 DEF ArchiveTypes
  <2>2. FromDatabase'
    <3>1. Numbers' = Numbers /\ Handled \subseteq Handled'
      BY <1>1, TurnOf
    <3>2. archived' = archived /\ lines' = lines
      BY <1>3
    <3> QED BY <1>1, <3>1, <3>2 DEF FromDatabase
  <2>3. InOrder(lines)' /\ OnlyWhatWasStored' /\ LossBounded'
    BY <1>1, <1>3 DEF ArchiveInv, InOrder, Ahead, OnlyWhatWasStored, LossBounded, ArchiveTypes
  <2>4. Ended' = Ended /\ Ended \in Int
    BY <1>1, <1>3 DEF Ended
  <2>5. Lost' \subseteq Lost \cup more
    BY <1>3, <2>4, LostAtMost
  <2> QED BY <1>1, <1>2, <1>3, <2>1, <2>2, <2>3, <2>5 DEF ArchiveInv
<1>4. ASSUME NEW piece \in {<<>>, <<Head(pending)>>}, lines' = With(piece), unended' = TRUE
      PROVE  ArchiveInv'
  <2>1. /\ ArchiveTypes' /\ FromDatabase' /\ InOrder(lines)'
        /\ OnlyWhatWasStored' /\ LossBounded'
    BY <1>4, WrittenTypes
  <2>2. piece \in Pieces
    BY <1>1 DEF ArchiveTypes, Pieces
  <2>3. /\ Len(lines') = (IF unended THEN Len(lines) ELSE Len(lines) + 1)
        /\ \A i \in 1..(Len(lines') - 1) : lines'[i] = lines[i]
    BY <1>1, <1>4, <2>2, WithLines
  <2>4. Ended \in Int /\ Ended' = Ended /\ Ended = Len(lines') - 1
    BY <1>1, <1>4, <2>3 DEF Ended
  <2>5. Lost' \subseteq Lost \cup more
    BY <2>3, <2>4, LostAtMost
  <2> QED BY <1>2, <1>4, <2>1, <2>5 DEF ArchiveInv
<1> QED BY <1>3, <1>4 DEF Torn

LEMMA FailsStep ==
    ASSUME ArchiveInv, ArchiveFails
    PROVE  ArchiveInv'
<1>1. /\ pending # <<>> /\ Torn /\ UNCHANGED <<archived, recovered>> /\ pending' = Tail(pending)
      /\ failures' = failures + 1 /\ stops' = stops /\ failures \in Nat /\ stops \in Nat
      /\ ArchiveTypes /\ FromDatabase
  BY DEF ArchiveFails, Faulty, ArchiveInv, ArchiveTypes
<1>2. Allowed \in Nat /\ Allowed' = Allowed + 2
  BY <1>1, AllowedGrows
<1>3. Handled' = Handled \cup {Coming}
  BY <1>1, TurnOf
<1>4. IsFiniteSet({Coming}) /\ Cardinality({Coming}) = 1
  BY FS_Singleton
<1>5. /\ Allowed' \in Nat /\ Allowed + Cardinality({Coming}) + 1 <= Allowed'
      /\ failures' \in Nat /\ stops' \in Nat
  BY <1>1, <1>2, <1>4
<1> QED BY <1>1, <1>2, <1>3, <1>4, <1>5, FaultStep

LEMMA StopsStep ==
    ASSUME ArchiveInv, LoggerStops
    PROVE  ArchiveInv'
<1>1. /\ pending # <<>> /\ Torn /\ UNCHANGED <<archived, recovered>> /\ pending' = <<>>
      /\ stops' = stops + 1 /\ failures' = failures /\ failures \in Nat /\ stops \in Nat
      /\ ArchiveTypes /\ FromDatabase /\ Len(archived) \in Nat
  BY DEF LoggerStops, Faulty, ArchiveInv, ArchiveTypes
<1>2. Allowed \in Nat /\ MaxArchiveBatch \in Nat /\ Allowed' = Allowed + MaxArchiveBatch + 1
  BY <1>1, AllowedGrows
<1> DEFINE more == Coming..Len(archived)
<1>3. /\ Handled' = Handled \cup more /\ Coming \in 1..Len(archived)
      /\ Len(archived) - Coming + 1 <= MaxArchiveBatch
  BY <1>1, TurnOf DEF Numbers
<1>4. IsFiniteSet(more) /\ Cardinality(more) = Len(archived) - Coming + 1
  <2>1. Coming \in Int /\ Len(archived) \in Int /\ Coming <= Len(archived)
    BY <1>1, <1>3
  <2> QED BY <2>1, FS_Interval
<1>5. /\ Allowed' \in Nat /\ Allowed + Cardinality(more) + 1 <= Allowed'
      /\ failures' \in Nat /\ stops' \in Nat
  BY <1>1, <1>2, <1>3, <1>4
<1> HIDE DEF more
<1> QED BY <1>1, <1>2, <1>3, <1>4, <1>5, FaultStep

\* The lines that a replay reads a decode from
Kept(line) == WholeLine(line) /\ line[1][1].content # "noMessage"
Given == {GivenBack(d) : d \in ArchivedDecodes}

Reads(f, N, log) ==
    f = [n \in 0..N |-> IF n = 0 THEN <<>> ELSE f[n - 1] \o ReadBack(log[n])]

\* What the first lines give, for each number of them, exists.
LEMMA ReadsExist ==
    ASSUME NEW N \in Nat, NEW log
    PROVE  \E f : Reads(f, N, log)
<1> DEFINE Good(n) == \E f : f = [i \in 0..n |-> IF i = 0 THEN <<>> ELSE f[i - 1] \o ReadBack(log[i])]
           Bad == {n \in Nat : ~Good(n)}
<1> SUFFICES ASSUME Bad # {} PROVE FALSE
  <2>1. CASE Bad = {}
    <3>1. PICK f : f = [i \in 0..N |-> IF i = 0 THEN <<>> ELSE f[i - 1] \o ReadBack(log[i])]
      BY <2>1
    <3> QED BY <3>1 DEF Reads
  <2> QED BY <2>1
<1>1. PICK m \in Bad : \A n \in Bad : m <= n
  <2> HIDE DEF Good
  <2> QED BY LeastNumber
<1>2. m # 0
  <2>1. Good(0)
    <3> DEFINE f == [i \in 0..0 |-> <<>>]
    <3>1. f = [i \in 0..0 |-> IF i = 0 THEN <<>> ELSE f[i - 1] \o ReadBack(log[i])]
      OBVIOUS
    <3> QED BY <3>1
  <2> QED BY <2>1
<1>3. PICK g : g = [i \in 0..(m - 1) |-> IF i = 0 THEN <<>> ELSE g[i - 1] \o ReadBack(log[i])]
  <2>1. m \in Nat /\ m - 1 \in Nat /\ m - 1 < m
    BY <1>2
  <2>2. m - 1 \notin Bad
    <3> HIDE DEF Bad
    <3> QED BY <1>1, <2>1
  <2>3. Good(m - 1)
    <3> HIDE DEF Good
    <3> QED BY <2>1, <2>2
  <2> QED BY <2>3
<1> DEFINE f == [i \in 0..m |-> IF i = 0 THEN <<>> ELSE g[i - 1] \o ReadBack(log[i])]
<1>4. \A i \in 0..(m - 1) : f[i] = g[i]
  BY <1>2, <1>3
<1>5. \A i \in 0..m : i # 0 => g[i - 1] = f[i - 1]
  <2> HIDE DEF f
  <2> QED BY <1>2, <1>4
<1>6. f = [i \in 0..m |-> IF i = 0 THEN <<>> ELSE f[i - 1] \o ReadBack(log[i])]
  BY <1>5
<1>7. Good(m)
  BY <1>6
<1> QED BY <1>7

\* told is what the first n lines give: from says of each decode which line it is from.
Tells(log, n, told, from) ==
    /\ from \in [1..Len(told) -> 1..n]
    /\ \A k \in 1..Len(told) : Kept(log[from[k]]) /\ told[k] = GivenBack(log[from[k]][1][1])
    /\ \A k, l \in 1..Len(told) : k < l => from[k] < from[l]
    /\ \A i \in 1..n : Kept(log[i]) => \E k \in 1..Len(told) : from[k] = i

LEMMA TellsNext ==
    ASSUME NEW log \in Seq(Seq(Pieces)), NEW n \in 1..Len(log),
           NEW told \in Seq(Given), NEW from, Tells(log, n - 1, told, from),
           NEW next, next = told \o ReadBack(log[n])
    PROVE  next \in Seq(Given) /\ \E g : Tells(log, n, next, g)
<1>1. n \in Nat \ {0} /\ Len(told) \in Nat /\ log[n] \in Seq(Pieces)
  OBVIOUS
<1>2. CASE ~Kept(log[n])
  <2>1. ReadBack(log[n]) = <<>>
    BY <1>2 DEF Kept, ReadBack
  <2>2. next = told
    BY <2>1
  <2>3. Tells(log, n, told, from)
    <3>1. from \in [1..Len(told) -> 1..n]
      BY <1>1 DEF Tells
    <3>2. \A i \in 1..n : i = n \/ i \in 1..(n - 1)
      BY <1>1
    <3> QED BY <1>2, <3>1, <3>2 DEF Tells
  <2> QED BY <2>2, <2>3
<1>3. CASE Kept(log[n])
  <2> DEFINE d == GivenBack(log[n][1][1])
             g == [k \in 1..(Len(told) + 1) |-> IF k = Len(told) + 1 THEN n ELSE from[k]]
  <2>1. d \in Given
    <3>1. Len(log[n]) = 1 /\ log[n][1] # <<>>
      BY <1>3 DEF Kept, WholeLine
    <3>2. log[n][1] \in Pieces
      BY <1>1, <3>1
    <3>3. log[n][1][1] \in ArchivedDecodes
      BY <3>1, <3>2, PieceType
    <3> QED BY <3>3 DEF Given
  <2>2. ReadBack(log[n]) = <<d>>
    BY <1>3 DEF Kept, ReadBack
  <2> HIDE DEF d
  <2>3. next = Append(told, d)
    BY <2>1, <2>2
  <2>4. /\ next \in Seq(Given) /\ Len(next) = Len(told) + 1 /\ next[Len(told) + 1] = d
        /\ \A k \in 1..Len(told) : next[k] = told[k]
    BY <2>1, <2>3
  <2>5. \A k \in 1..(Len(told) + 1) : k = Len(told) + 1 \/ k \in 1..Len(told)
    BY <1>1
  <2>6. \A k \in 1..Len(told) : g[k] = from[k] /\ from[k] \in 1..n /\ from[k] < n
    <3> SUFFICES ASSUME NEW k \in 1..Len(told)
                 PROVE  g[k] = from[k] /\ from[k] \in 1..n /\ from[k] < n
      OBVIOUS
    <3>1. from[k] \in 1..(n - 1)
      BY DEF Tells
    <3>2. from[k] \in 1..n /\ from[k] < n
      BY <1>1, <3>1
    <3>3. g[k] = from[k]
      BY <1>1
    <3> QED BY <3>2, <3>3
  <2>7. g[Len(told) + 1] = n
    BY <1>1
  <2>8. g \in [1..Len(next) -> 1..n]
    <3>1. \A k \in 1..Len(told) : from[k] \in 1..n
      BY <2>6
    <3>2. n \in 1..n
      BY <1>1
    <3> QED BY <2>4, <2>5, <3>1, <3>2
  <2> HIDE DEF g
  <2>9. \A k \in 1..Len(next) : Kept(log[g[k]]) /\ next[k] = GivenBack(log[g[k]][1][1])
    <3>1. \A k \in 1..Len(told) : Kept(log[from[k]]) /\ told[k] = GivenBack(log[from[k]][1][1])
      BY DEF Tells
    <3> QED BY <1>3, <2>4, <2>5, <2>6, <2>7, <3>1 DEF d
  <2>10. \A k, l \in 1..Len(next) : k < l => g[k] < g[l]
    <3> SUFFICES ASSUME NEW k \in 1..Len(next), NEW l \in 1..Len(next), k < l PROVE g[k] < g[l]
      OBVIOUS
    <3>1. k \in 1..Len(told)
      BY <1>1, <2>4
    <3>2. CASE l = Len(told) + 1
      <4>1. g[k] = from[k] /\ from[k] < n /\ g[l] = n
        BY <2>6, <2>7, <3>1, <3>2
      <4> QED BY <4>1
    <3>3. CASE l \in 1..Len(told)
      <4>1. from[k] < from[l]
        BY <3>1, <3>3 DEF Tells
      <4> QED BY <2>6, <3>1, <3>3, <4>1
    <3> QED BY <2>4, <2>5, <3>2, <3>3
  <2>11. \A i \in 1..n : Kept(log[i]) => \E k \in 1..Len(next) : g[k] = i
    <3> SUFFICES ASSUME NEW i \in 1..n, Kept(log[i]) PROVE \E k \in 1..Len(next) : g[k] = i
      OBVIOUS
    <3>1. CASE i = n
      BY <1>1, <2>4, <2>7, <3>1
    <3>2. CASE i \in 1..(n - 1)
      <4>1. PICK k \in 1..Len(told) : from[k] = i
        BY <3>2 DEF Tells
      <4>2. k \in 1..Len(next)
        BY <1>1, <2>4
      <4> QED BY <2>6, <4>1, <4>2
    <3> QED BY <1>1, <3>1, <3>2
  <2> QED BY <2>4, <2>8, <2>9, <2>10, <2>11 DEF Tells
<1> QED BY <1>2, <1>3

\* A replay gives the decodes of the lines that it can read, one for each, in their order.
LEMMA ReplayTells ==
    ASSUME NEW log \in Seq(Seq(Pieces))
    PROVE  RestoredFrom(log) \in Seq(Given) /\ \E from : Tells(log, Len(log), RestoredFrom(log), from)
<1> DEFINE upTo[n \in 0..Len(log)] ==
               IF n = 0 THEN <<>> ELSE upTo[n - 1] \o ReadBack(log[n])
<1>1. RestoredFrom(log) = upTo[Len(log)]
  BY DEF RestoredFrom
<1>2. upTo = [n \in 0..Len(log) |-> IF n = 0 THEN <<>> ELSE upTo[n - 1] \o ReadBack(log[n])]
  <2> DEFINE N == Len(log)
  <2>1. N \in Nat
    OBVIOUS
  <2> HIDE DEF N
  <2>2. PICK f : Reads(f, N, log)
    BY <2>1, ReadsExist
  <2>3. f = [n \in 0..N |-> IF n = 0 THEN <<>> ELSE f[n - 1] \o ReadBack(log[n])]
    BY <2>2 DEF Reads
  <2> QED BY <2>3 DEF N
<1> HIDE DEF upTo
<1> DEFINE Held(n) == upTo[n] \in Seq(Given) /\ \E from : Tells(log, n, upTo[n], from)
           Bad == {n \in 0..Len(log) : ~Held(n)}
<1>3. Bad = {}
  <2> SUFFICES ASSUME Bad # {} PROVE FALSE
    OBVIOUS
  <2>1. PICK m \in Bad : \A n \in Bad : m <= n
    <3>1. Bad \in SUBSET Nat
      OBVIOUS
    <3> HIDE DEF Bad
    <3> QED BY <3>1, LeastNumber
  <2>2. m # 0
    <3>1. upTo[0] = <<>>
      BY <1>2
    <3>2. Tells(log, 0, <<>>, <<>>)
      <4>1. 1..Len(<<>>) = {} /\ 1..0 = {}
        OBVIOUS
      <4>2. <<>> \in [1..Len(<<>>) -> 1..0]
        OBVIOUS
      <4> QED BY <4>1, <4>2 DEF Tells
    <3>3. Held(0)
      BY <3>1, <3>2
    <3> QED BY <3>3
  <2>3. m \in 1..Len(log) /\ m - 1 \in 0..Len(log) /\ m - 1 < m
    BY <2>2
  <2>4. m - 1 \notin Bad
    <3> HIDE DEF Bad
    <3> QED BY <2>1, <2>3
  <2>5. Held(m - 1)
    BY <2>3, <2>4
  <2>6. upTo[m] = upTo[m - 1] \o ReadBack(log[m])
    BY <1>2, <2>2, <2>3
  <2>7. Held(m)
    <3> HIDE DEF Bad
    <3> QED BY <2>3, <2>5, <2>6, TellsNext
  <2> QED BY <2>7
<1>4. Held(Len(log))
  <2>1. Len(log) \in 0..Len(log)
    OBVIOUS
  <2> HIDE DEF Held
  <2> QED BY <1>3, <2>1
<1> QED BY <1>1, <1>4

LEMMA RecoverStep ==
    ASSUME ArchiveInv, Recover
    PROVE  ArchiveInv'
<1> DEFINE r == RestoredFrom(lines)
<1>1. /\ pending = <<>> /\ recovered' = <<r>> /\ UNCHANGED <<archived, pending, lines, unended, failures, stops>>
      /\ lines \in Seq(Seq(Pieces)) /\ Len(lines) \in Nat /\ ArchiveTypes
      /\ archived \in Seq(ArchivedDecodes) /\ Len(archived) \in Nat /\ unended \in BOOLEAN
  BY DEF Recover, ArchiveInv, ArchiveTypes
<1>2. r \in Seq(Given) /\ \E f : Tells(lines, Len(lines), r, f)
  BY <1>1, ReplayTells
<1> HIDE DEF r
<1>3. PICK f : Tells(lines, Len(lines), r, f)
  BY <1>2
<1> DEFINE from == [k \in 1..Len(r) |-> lines[f[k]][1][1].number]
<1>4. \A i \in 1..Len(lines) : Kept(lines[i]) =>
         /\ 1 \in DOMAIN lines[i] /\ lines[i][1] # <<>> /\ lines[i] = <<lines[i][1]>>
         /\ lines[i][1][1].number \in Recoverable
         /\ lines[i][1] = <<archived[lines[i][1][1].number]>>
  <2> SUFFICES ASSUME NEW i \in 1..Len(lines), Kept(lines[i])
               PROVE  /\ 1 \in DOMAIN lines[i] /\ lines[i][1] # <<>> /\ lines[i] = <<lines[i][1]>>
                      /\ lines[i][1][1].number \in Recoverable
                      /\ lines[i][1] = <<archived[lines[i][1][1].number]>>
    OBVIOUS
  <2>1. lines[i] \in Seq(Pieces) /\ Len(lines[i]) = 1 /\ lines[i][1] # <<>> /\ lines[i][1][1].content # "noMessage"
    BY <1>1 DEF Kept, WholeLine
  <2>2. 1 \in DOMAIN lines[i] /\ lines[i] = <<lines[i][1]>>
    BY <2>1
  <2>3. /\ lines[i][1][1].number \in Numbers
        /\ lines[i][1] = <<archived[lines[i][1][1].number]>>
    <3>1. Handled \subseteq Numbers
      BY <1>1 DEF Handled, Numbers
    <3> QED BY <1>1, <2>1, <2>2, <3>1 DEF ArchiveInv, FromDatabase
  <2>4. archived[lines[i][1][1].number].content # "noMessage"
    <3>1. archived[lines[i][1][1].number] \in ArchivedDecodes
      BY <1>1, <2>3 DEF Numbers
    <3>2. archived[lines[i][1][1].number] = lines[i][1][1]
      BY <2>3
    <3> QED BY <2>1, <3>1, <3>2 DEF ArchivedDecodes
  <2> QED BY <1>1, <2>1, <2>2, <2>3, <2>4 DEF Recoverable, Numbers
<1>5. \A k \in 1..Len(r) : f[k] \in 1..Len(lines) /\ Kept(lines[f[k]]) /\ r[k] = GivenBack(lines[f[k]][1][1])
  BY <1>3 DEF Tells
<1>6. from \in [1..Len(r) -> Recoverable]
  BY <1>4, <1>5
<1>7. \A k \in 1..Len(r) : from[k] = lines[f[k]][1][1].number
  OBVIOUS
<1> HIDE DEF from
<1>8. \A k \in 1..Len(r) : r[k] = GivenBack(archived[from[k]])
  <2> SUFFICES ASSUME NEW k \in 1..Len(r) PROVE r[k] = GivenBack(archived[from[k]])
    OBVIOUS
  <2>1. lines[f[k]][1] = <<archived[from[k]]>>
    BY <1>4, <1>5, <1>7
  <2>2. lines[f[k]][1][1] = archived[from[k]]
    BY <2>1
  <2> QED BY <1>5, <2>2
<1>9. \A k, l \in 1..Len(r) : k < l => from[k] < from[l]
  <2> SUFFICES ASSUME NEW k \in 1..Len(r), NEW l \in 1..Len(r), k < l PROVE from[k] < from[l]
    OBVIOUS
  <2>1. f[k] < f[l] /\ f[k] \in 1..Len(lines) /\ f[l] \in 1..Len(lines)
    BY <1>3, <1>5 DEF Tells
  <2>2. /\ 1 \in DOMAIN lines[f[k]] /\ lines[f[k]][1] # <<>>
        /\ 1 \in DOMAIN lines[f[l]] /\ lines[f[l]][1] # <<>>
    BY <1>4, <1>5
  <2>3. lines[f[k]][1][1].number < lines[f[l]][1][1].number
    <3>1. Ahead(f[k], 1, f[l], 1)
      BY <2>1 DEF Ahead
    <3>2. InOrder(lines) /\ f[k] \in DOMAIN lines /\ f[l] \in DOMAIN lines
      BY <1>1, <2>1 DEF ArchiveInv
    <3> QED BY <2>2, <3>1, <3>2 DEF InOrder
  <2> QED BY <1>7, <2>3
<1>10. recovered'[1] = r /\ DOMAIN r = 1..Len(r) /\ Len(r) \in Nat
  BY <1>1, <1>2
<1>11. Recoverable' = Recoverable
  BY <1>1 DEF Recoverable
<1>12. OnlyWhatWasStored'
  <2>1. from \in [DOMAIN recovered'[1] -> Recoverable']
    BY <1>6, <1>10, <1>11
  <2>2. \A n \in DOMAIN recovered'[1] : recovered'[1][n] = GivenBack(archived'[from[n]])
    BY <1>1, <1>8, <1>10
  <2>3. \A m, n \in DOMAIN recovered'[1] : m < n => from[m] < from[n]
    BY <1>9, <1>10
  <2> QED BY <2>1, <2>2, <2>3 DEF OnlyWhatWasStored
\* What can be given back is given back, or lost.
<1> DEFINE got == {from[k] : k \in 1..Len(r)}
<1>13. Recoverable \subseteq Lost \cup got
  <2> SUFFICES ASSUME NEW n \in Recoverable, n \notin Lost PROVE n \in got
    OBVIOUS
  <2>1. n \in Handled /\ archived[n].content # "noMessage" /\ archived[n] \in ArchivedDecodes
        /\ archived[n].number = n
    BY <1>1 DEF Recoverable, Numbers, Handled, ArchiveInv, FromDatabase
  <2>2. PICK i \in 1..Ended : lines[i] = <<<<archived[n]>>>>
    BY <2>1 DEF Lost
  <2>3. i \in 1..Len(lines)
    BY <1>1 DEF Ended
  <2>4. Kept(lines[i]) /\ lines[i][1][1] = archived[n]
    BY <2>1, <2>2 DEF Kept, WholeLine
  <2>5. PICK k \in 1..Len(r) : f[k] = i
    BY <1>3, <2>3, <2>4 DEF Tells
  <2>6. from[k] = n
    BY <1>7, <2>1, <2>4, <2>5
  <2> QED BY <2>6
<1>14. IsFiniteSet(got) /\ Cardinality(got) <= Len(r) /\ Cardinality(got) \in Nat
  <2> DEFINE N == Len(r)
  <2>1. N \in Nat /\ from \in [1..N -> Recoverable]
    BY <1>6, <1>10
  <2> HIDE DEF N
  <2>2. IsFiniteSet(1..N) /\ Cardinality(1..N) = N
    BY <2>1, IntervalFromOne
  <2> DEFINE g == [k \in 1..N |-> from[k]]
  <2>3. g \in Surjection(1..N, got)
    <3>1. g \in [1..N -> got] /\ \A m \in got : \E k \in 1..N : g[k] = m
      BY DEF N
    <3> HIDE DEF g, got
    <3> QED BY <3>1 DEF Surjection
  <2> HIDE DEF g, got
  <2>4. IsFiniteSet(got) /\ Cardinality(got) <= Cardinality(1..N)
    BY <2>2, <2>3, FS_Surjection
  <2> QED BY <2>2, <2>4, FS_CardinalityType DEF N
<1> HIDE DEF got
<1>15. IsFiniteSet(Lost) /\ Cardinality(Lost) \in Nat /\ Cardinality(Lost) <= Allowed /\ Allowed \in Nat
  <2>1. IsFiniteSet(Lost) /\ Cardinality(Lost) \in Nat
    <3>1. IsFiniteSet({})
      BY FS_EmptySet
    <3> QED BY <1>1, <3>1, LostGrows
  <2>2. Allowed \in Nat
    BY <1>1, AllowedGrows
  <2> QED BY <1>1, <2>1, <2>2 DEF ArchiveInv, Paid
<1>16. Cardinality(Recoverable) \in Nat /\ Cardinality(Recoverable) <= Cardinality(Lost) + Cardinality(got)
  <2>1. /\ IsFiniteSet(Lost \cup got)
        /\ Cardinality(Lost \cup got) = Cardinality(Lost) + Cardinality(got) - Cardinality(Lost \cap got)
    BY <1>14, <1>15, FS_Union
  <2>2. IsFiniteSet(Recoverable) /\ Cardinality(Recoverable) <= Cardinality(Lost \cup got)
    BY <1>13, <2>1, FS_Subset
  <2>3. Cardinality(Lost \cap got) \in Nat
    <3>1. IsFiniteSet(Lost \cap got)
      BY <1>15, FS_Intersection
    <3> QED BY <3>1, FS_CardinalityType
  <2>4. Cardinality(Recoverable) \in Nat /\ Cardinality(Lost \cup got) \in Nat
    BY <2>1, <2>2, FS_CardinalityType
  <2> QED BY <1>14, <1>15, <2>1, <2>2, <2>3, <2>4
<1>17. Cardinality(Recoverable) - Len(r) <= Allowed
  BY <1>1, <1>10, <1>14, <1>15, <1>16
<1>18. LossBounded'
  BY <1>1, <1>10, <1>11, <1>17 DEF LossBounded, Allowed
<1>19. ArchiveTypes' /\ FromDatabase' /\ InOrder(lines)' /\ Paid'
  <2>1. ArchiveTypes'
    BY <1>1 DEF ArchiveTypes
  <2>2. Numbers' = Numbers /\ Handled' = Handled /\ Ended' = Ended /\ Allowed' = Allowed
    BY <1>1 DEF Numbers, Handled, Ended, Allowed
  <2>3. FromDatabase'
    BY <1>1, <2>2 DEF ArchiveInv, FromDatabase
  <2>4. InOrder(lines)'
    BY <1>1 DEF ArchiveInv, InOrder, Ahead
  <2>5. Lost' = Lost
    BY <1>1, <2>2 DEF Lost
  <2> QED BY <1>1, <2>1, <2>2, <2>3, <2>4, <2>5 DEF ArchiveInv, Paid
<1> QED BY <1>12, <1>18, <1>19 DEF ArchiveInv

LEMMA ArchiveInductive ==
    ASSUME ArchiveInv, [ArchiveNext]_archiveVars
    PROVE  ArchiveInv'
<1>1. CASE UNCHANGED archiveVars
  <2>1. UNCHANGED <<archived, pending, lines, unended, failures, stops, recovered>>
    BY <1>1 DEF archiveVars
  <2>2. ArchiveTypes' /\ FromDatabase'
    BY <2>1 DEF ArchiveInv, ArchiveTypes, FromDatabase, Numbers, Handled
  <2>3. InOrder(lines)' /\ OnlyWhatWasStored'
    BY <2>1 DEF ArchiveInv, InOrder, Ahead, OnlyWhatWasStored, Recoverable
  <2>6. LossBounded'
    <3>1. Recoverable' = Recoverable /\ recovered' = recovered /\ failures' = failures /\ stops' = stops
      BY <2>1 DEF Recoverable
    <3> QED BY <3>1 DEF ArchiveInv, LossBounded
  <2>4. Lost' = Lost /\ Allowed' = Allowed
    BY <2>1 DEF Lost, Handled, Ended, Allowed
  <2> QED BY <2>1, <2>2, <2>3, <2>4, <2>6 DEF ArchiveInv, Paid
<1> QED BY <1>1, StoreStep, ArchiveStep, FailsStep, StopsStep, RecoverStep DEF ArchiveNext

\* Pieces that are the same are one: of two places one is ahead of the other.
LEMMA ArchiveTypesHold ==
    ASSUME ArchiveInv
    PROVE  ArchiveTypeOK
<1>1. \A i \in DOMAIN lines : i \in Nat /\ lines[i] \in Seq(Pieces) /\ lines[i] # <<>>
  BY DEF ArchiveInv, ArchiveTypes
<1>2. ASSUME NEW i \in DOMAIN lines, NEW k \in DOMAIN lines,
             NEW j \in DOMAIN lines[i], NEW l \in DOMAIN lines[k],
             lines[i][j] = lines[k][l], lines[i][j] # <<>>
      PROVE  i = k /\ j = l
  <2>1. i \in Nat /\ k \in Nat /\ j \in Nat /\ l \in Nat
    BY <1>1
  <2>2. lines[i][j][1].number = lines[k][l][1].number /\ lines[i][j][1].number \in Nat
    BY <1>2 DEF ArchiveInv, FromDatabase, Handled
  <2>3. ~Ahead(i, j, k, l)
    BY <1>2, <2>2 DEF ArchiveInv, InOrder
  <2>4. ~Ahead(k, l, i, j)
    BY <1>2, <2>2 DEF ArchiveInv, InOrder
  <2> QED BY <2>1, <2>3, <2>4 DEF Ahead
<1>3. IsSuffix(pending, archived) /\ Len(pending) <= MaxArchiveBatch
  <2>1. /\ pending \in Seq(ArchivedDecodes) /\ archived \in Seq(ArchivedDecodes)
        /\ Len(pending) \in Nat /\ Len(archived) \in Nat
        /\ Len(pending) <= Len(archived) /\ Len(pending) <= MaxArchiveBatch
        /\ \A k \in 1..Len(pending) : pending[k] = archived[Len(archived) - Len(pending) + k]
    BY DEF ArchiveInv, ArchiveTypes
  <2> DEFINE back == Reverse(pending)
             all == Reverse(archived)
  <2>2. /\ back = [i \in 1..Len(pending) |-> pending[Len(pending) - i + 1]]
        /\ all = [i \in 1..Len(archived) |-> archived[Len(archived) - i + 1]]
    BY DEF Reverse
  <2>3. Len(back) = Len(pending) /\ Len(all) = Len(archived)
    BY <2>1, <2>2
  <2>4. ASSUME NEW i \in 1..Len(pending) PROVE back[i] = all[i]
    <3>1. Len(pending) - i + 1 \in 1..Len(pending) /\ i \in 1..Len(archived)
      BY <2>1
    <3>2. pending[Len(pending) - i + 1] = archived[Len(archived) - Len(pending) + (Len(pending) - i + 1)]
      BY <2>1, <3>1
    <3>3. Len(archived) - Len(pending) + (Len(pending) - i + 1) = Len(archived) - i + 1
      BY <2>1
    <3> QED BY <2>2, <3>1, <3>2, <3>3
  <2> HIDE DEF back, all
  <2>5. /\ SubSeq(back, 1, Len(back)) = [i \in 1..Len(pending) |-> back[i]]
        /\ SubSeq(all, 1, Len(back)) = [i \in 1..Len(pending) |-> all[i]]
    BY <2>1, <2>3
  <2>6. IsPrefix(back, all)
    BY <2>1, <2>3, <2>4, <2>5 DEF IsPrefix
  <2> QED BY <2>1, <2>6 DEF IsSuffix, back, all
<1>4. archived \in Seq(ArchivedDecodes) /\ Len(archived) <= MaxArchived /\ (unended => lines # <<>>)
  BY DEF ArchiveInv, ArchiveTypes
<1> QED BY <1>1, <1>2, <1>3, <1>4 DEF ArchiveTypeOK

\* The invariant of the archive: each of its conjuncts is explained above, where it is
\* defined.
THEOREM ArchiveInvHolds == ArchiveSpec => []ArchiveInv
<1>1. ArchiveInit => ArchiveInv
  BY ArchiveInitial
<1>2. ArchiveInv /\ [ArchiveNext]_archiveVars => ArchiveInv'
  BY ArchiveInductive
<1> QED BY <1>1, <1>2, PTL DEF ArchiveSpec

\* A database that is restored from decodes.jsonl has decodes that were stored, in the
\* order in which they were and each once, and lacks at most two for each append that
\* failed, and one more than a batch for each end of the process between a commit and the
\* last append (ingest_file_batch, _archive_optional, _append_jsonl, replay_file).
THEOREM ArchiveRestoresHolds == ArchiveSpec => []ArchiveRestores
<1>1. ArchiveInv => ArchiveRestores
  BY DEF ArchiveInv, ArchiveRestores
<1> QED BY <1>1, ArchiveInvHolds, PTL

\* The file holds pieces of decodes, none of them twice (_append_jsonl).
THEOREM ArchiveTypeHolds == ArchiveSpec => []ArchiveTypeOK
<1>1. ArchiveInv => ArchiveTypeOK
  BY ArchiveTypesHold
<1> QED BY <1>1, ArchiveInvHolds, PTL

-----------------------------------------------------------------------------
(***************************************************************************)
(* The parts together.  A step is one of the part whose behaviour it is    *)
(* and leaves the variables of the others alone.                           *)
(***************************************************************************)
OperationsInv == ImportInv /\ SnapshotsInv /\ SupervisorInv /\ HeadlessInv /\ ArchiveInv

LEMMA OperationsStart == Init => OperationsInv
<1> SUFFICES ASSUME Init PROVE OperationsInv
  OBVIOUS
<1>1. ImportInv
  BY ImportStarts DEF Init
<1>2. SnapshotsInv
  BY SnapshotsStart DEF Init
<1>3. SupervisorInv
  BY SupervisorStarts DEF Init
<1>4. HeadlessInv
  BY HeadlessStarts DEF Init
<1>5. ArchiveInv
  BY ArchiveInitial DEF Init
<1> QED BY <1>1, <1>2, <1>3, <1>4, <1>5 DEF OperationsInv

LEMMA OperationsStep == OperationsInv /\ [Next]_vars => OperationsInv'
<1> SUFFICES ASSUME OperationsInv, [Next]_vars PROVE OperationsInv'
  OBVIOUS
<1>1. [ImportNext]_importVars /\ [SnapshotsNext]_snapshotVars /\ [SupervisorNext]_supervisorVars
      /\ [HeadlessNext]_headlessVars /\ [ArchiveNext]_archiveVars
  <2>1. CASE UNCHANGED vars
    BY <2>1 DEF vars, checkingVars
  <2>2. CASE Next
    BY <2>2 DEF Next, checkingVars, SnapshotsNext
  <2> QED BY <2>1, <2>2
<1>2. ImportInv'
  BY <1>1, ImportStepKeeps DEF OperationsInv
<1>3. SnapshotsInv'
  BY <1>1, SnapshotsStep DEF OperationsInv
<1>4. SupervisorInv'
  BY <1>1, SupervisorStepKeeps DEF OperationsInv
<1>5. HeadlessInv'
  BY <1>1, HeadlessStep DEF OperationsInv
<1>6. ArchiveInv'
  BY <1>1, ArchiveInductive DEF OperationsInv
<1> QED BY <1>2, <1>3, <1>4, <1>5, <1>6 DEF OperationsInv

\* Of whatever runs beside the logger, started in any of the ways that MCOperations has:
\* types, no decode stored twice by an import, no partial copy published, no child left,
\* no wrong verdict on an installation, and an archive that restores what it was given;
\* an import that is called complete is, and no backup is replaced.
THEOREM OperationsHolds ==
    Spec => /\ [](/\ OperationsTypeOK
                  /\ ImportedOnce /\ PublishedIsSound /\ NothingLeftRunning
                  /\ VerdictIsSound /\ ArchiveRestores)
            /\ CompleteMeansAll /\ BackupsKept
<1>1. OperationsInv => OperationsTypeOK
  <2>1. OperationsInv => ImportTypeOK /\ SnapshotsTypeOK
    BY DEF OperationsInv, ImportInv, SnapshotsInv
  <2>2. OperationsInv => SupervisorTypeOK /\ HeadlessTypeOK
    BY DEF OperationsInv, SupervisorInv, HeadlessInv
  <2>3. OperationsInv => ArchiveTypeOK
    BY ArchiveTypesHold DEF OperationsInv
  <2> QED BY <2>1, <2>2, <2>3 DEF OperationsTypeOK
<1>2. OperationsInv => ImportedOnce
  BY DEF OperationsInv, ImportInv, Locked, ImportedOnce, AloneWhileReplaying
<1>3. OperationsInv => PublishedIsSound
  BY SnapshotsGive DEF OperationsInv
<1>4. OperationsInv => NothingLeftRunning
  BY DEF OperationsInv, SupervisorInv, Stages, NothingLeftRunning
<1>5. OperationsInv => VerdictIsSound
  BY InvGivesVerdict DEF OperationsInv
<1>6. OperationsInv => ArchiveRestores
  BY DEF OperationsInv, ArchiveInv, ArchiveRestores
<1>7. Init => ImportInit /\ SnapshotsInit
  BY DEF Init
<1>8. [Next]_vars => [ImportNext]_importVars /\ [SnapshotsNext]_snapshotVars
  BY DEF Next, vars, SnapshotsNext
<1>9. Spec => ImportSpec /\ SnapshotsSpec
  BY <1>7, <1>8, PTL DEF Spec, ImportSpec, SnapshotsSpec
<1> QED
  BY <1>1, <1>2, <1>3, <1>4, <1>5, <1>6, <1>9, OperationsStart, OperationsStep,
     CompleteImportsAreWhole, BackupsAreKept, PTL DEF Spec
=============================================================================
