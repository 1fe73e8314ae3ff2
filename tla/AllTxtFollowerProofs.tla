------------------------ MODULE AllTxtFollowerProofs ------------------------
(***************************************************************************)
(* Proofs about AllTxtFollower, for any number of consumers, files, texts, *)
(* lines and faults: the model's values keep their types, and no received  *)
(* line gets two observation rows.                                         *)
(***************************************************************************)
EXTENDS AllTxtFollower, SequenceTheorems, TLAPS

\* The position of an offset in an open file is a position.
LEMMA AtType ==
    ASSUME LogTypeOK, NEW f \in Files, NEW offset \in 0..MaxLines
    PROVE  /\ At(f, offset) \in Positions
           /\ At(f, offset).file = f
           /\ At(f, offset).offset = offset
           /\ At(f, offset).text = files[f].text
           /\ At(f, offset).anchor # "none"
BY SourceLogAssumption DEF At, LogTypeOK, Positions, Files

\* A candidate path names a file or none.
LEMMA CandidateType ==
    ASSUME LogTypeOK, NEW n \in Nat
    PROVE  Candidate(n) \in Files \cup {None}
BY DEF Candidate, LogTypeOK

\* The end of a poll resets what only a poll uses.
LEMMA EndPollType ==
    ASSUME TypeOK, NEW f \in Followers, EndPoll(f)
    PROVE  /\ pc' \in [Followers -> Labels]
           /\ seen' \in [Followers -> Nat]
           /\ k' \in [Followers -> Nat]
           /\ round' \in [Followers -> 0..3]
           /\ batch' \in [Followers -> Batches]
           /\ next' \in [Followers -> Positions]
BY SourceLogAssumption
DEF EndPoll, Goto, TypeOK, Labels, NoBatch, NoPosition, Batches, Positions, None

\* Every call of a poll is one of the labels.
LEMMA GotoType ==
    ASSUME TypeOK, NEW f \in Followers, NEW label \in Labels, Goto(f, label)
    PROVE  pc' \in [Followers -> Labels]
BY DEF Goto, TypeOK

LEMMA LabelNames ==
    {"idle", "scan", "anchor", "reopen", "fresh",
     "verify", "read", "stat", "switch", "check", "at", "commit"} \subseteq Labels
BY DEF Labels

\* The log keeps its type whatever happens to it.
LEMMA LogType ==
    ASSUME LogTypeOK,
           \/ WriterOpen \/ WriterLine \/ WriterDies \/ Rename
           \/ Create \/ Compress \/ Truncate \/ CopyTruncate
    PROVE  LogTypeOK'
<1> USE SourceLogAssumption DEF LogTypeOK, Files, Texts, None
<1>1. CASE WriterOpen
  BY <1>1 DEF WriterOpen
<1>2. CASE WriterLine
  <2>1. files' \in [Files -> [text : 0..MaxTexts, size : 0..MaxLines]]
    <3>1. /\ writer \in Files /\ files[writer].size + 1 \in 0..MaxLines
          /\ files' = [files EXCEPT ![writer].size = @ + 1]
      BY <1>2 DEF WriterLine
    <3>2. [files[writer] EXCEPT !.size = @ + 1] \in [text : 0..MaxTexts, size : 0..MaxLines]
      BY <3>1
    <3>3. files' = [files EXCEPT ![writer] = [files[writer] EXCEPT !.size = @ + 1]]
      BY <3>1
    <3> QED
      BY <3>2, <3>3
  <2> QED
    BY <1>2, <2>1 DEF WriterLine
<1>3. CASE WriterDies
  BY <1>3 DEF WriterDies
<1>4. CASE Rename
  <2>1. active \in Files /\ archives' = <<active>> \o archives
    BY <1>4 DEF Rename
  <2>2. archives' \in Seq(Files)
    BY <2>1
  <2> QED
    BY <1>4, <2>2 DEF Rename
<1>5. CASE Create
  BY <1>5 DEF Create, Unborn
<1>6. CASE Compress
  <2>1. Len(archives) \in Nat /\ Len(archives) # 0
    BY <1>6 DEF Compress
  <2>2. \A i \in 1..(Len(archives) - 1) : archives[i] \in Files
    <3>1. \A i \in 1..(Len(archives) - 1) : i \in 1..Len(archives)
      BY <2>1
    <3> QED
      BY <3>1, ElementOfSeq
  <2>3. SubSeq(archives, 1, Len(archives) - 1) \in Seq(Files)
    BY <2>1, <2>2, SubSeqProperties
  <2> QED
    BY <1>6, <2>3 DEF Compress
<1>7. CASE Truncate
  BY <1>7 DEF Truncate
<1>8. CASE CopyTruncate
  <2>1. PICK f \in Files :
           /\ files' = [files EXCEPT ![f] = files[active],
                                     ![active] = [text |-> newest + 1, size |-> 0]]
           /\ archives' = <<f>> \o archives
    BY <1>8 DEF CopyTruncate
  <2>2. active \in Files /\ newest + 1 \in 1..MaxTexts /\ newest' = newest + 1
    BY <1>8 DEF CopyTruncate
  <2>3. files' \in [Files -> [text : 0..MaxTexts, size : 0..MaxLines]]
    <3>1. files[active] \in [text : 0..MaxTexts, size : 0..MaxLines]
      BY <2>2
    <3>2. [text |-> newest + 1, size |-> 0] \in [text : 0..MaxTexts, size : 0..MaxLines]
      BY <2>2
    <3> QED
      BY <2>1, <3>1, <3>2
  <2>4. archives' \in Seq(Files)
    BY <2>1
  <2> QED
    BY <1>8, <2>2, <2>3, <2>4 DEF CopyTruncate
<1> QED
  BY <1>1, <1>2, <1>3, <1>4, <1>5, <1>6, <1>7, <1>8

LEMMA InitType == Init => TypeOK
BY SourceLogAssumption, FollowerAssumption
DEF Init, LogInit, TypeOK, LogTypeOK, Files, Texts, None, NoPosition, NoBatch,
    Positions, Batches, Lines, Labels

\* Where a poll reads or stores, a file is open.
LEMMA FileIsOpen ==
    ASSUME TypeOK, NEW f \in Followers, FollowerInv(f),
           pc[f] \in {"verify", "read", "stat", "switch", "check", "at", "commit"}
    PROVE  handle[f] \in Files /\ working[f].file = handle[f]
BY DEF FollowerInv, Opened, Sound, TypeOK

\* Every step keeps the types.
LEMMA StepType ==
    ASSUME TypeOK, \A f \in Followers : FollowerInv(f), [Next]_vars
    PROVE  TypeOK'
<1>0. NoPosition \in Positions /\ NoBatch \in Batches /\ None \in Files \cup {None}
  BY SourceLogAssumption DEF NoPosition, NoBatch, Positions, Batches, None
<1>open. ASSUME NEW f \in Followers, NEW r \in 0..3, BeginOpen(f, r),
              batch' \in [Followers -> Batches], UNCHANGED <<logVars, dbVars, faults>>
       PROVE  TypeOK'
  <2>1. pc' \in [Followers -> Labels]
    BY <1>open, GotoType, LabelNames DEF BeginOpen
  <2>2. Len(archives) \in Nat
    BY DEF TypeOK, LogTypeOK
  <2> QED
    BY <1>0, <1>open, <2>1, <2>2
    DEF BeginOpen, Close, SetHandle, TypeOK, LogTypeOK, logVars, dbVars
<1>1. ASSUME NEW f \in Followers, PollStart(f)
      PROVE  TypeOK'
  <2>1. CASE handle[f] = None
    <3>1. /\ 3 \in 0..3 /\ BeginOpen(f, 3) /\ batch' \in [Followers -> Batches]
          /\ UNCHANGED <<logVars, dbVars, faults>>
      BY <1>1, <2>1 DEF PollStart, TypeOK
    <3> QED
      BY <3>1, <1>open
  <2>2. CASE handle[f] # None
    <3>1. /\ Goto(f, "verify")
          /\ round' = [round EXCEPT ![f] = 1]
          /\ UNCHANGED <<handle, working, position, seen, k, batch, next>>
          /\ UNCHANGED <<logVars, dbVars, faults>>
      BY <1>1, <2>2 DEF PollStart
    <3>2. pc' \in [Followers -> Labels] /\ round' \in [Followers -> 0..3]
      BY <3>1, GotoType, LabelNames DEF TypeOK
    <3> QED
      BY <3>1, <3>2 DEF TypeOK, LogTypeOK, logVars, dbVars
  <2> QED
    BY <2>1, <2>2
<1>2. ASSUME NEW f \in Followers, NEW file \in Files, NEW p \in Positions,
             EndOpen(f, file, p), UNCHANGED <<logVars, position, dbVars, faults>>
      PROVE  TypeOK'
  <2>1. CASE round[f] = 0
    BY <1>2, <2>1, EndPollType DEF EndOpen, SetHandle, TypeOK, LogTypeOK, logVars, dbVars
  <2>2. CASE round[f] # 0
    <3>1. /\ SetHandle(f, file, p) /\ (Goto(f, "verify") \/ Goto(f, "read"))
          /\ seen' = [seen EXCEPT ![f] = 0] /\ k' = [k EXCEPT ![f] = 0]
          /\ round' = [round EXCEPT ![f] = 1]
          /\ UNCHANGED <<batch, next>>
      BY <1>2, <2>2 DEF EndOpen
    <3>2. /\ pc' \in [Followers -> Labels] /\ round' \in [Followers -> 0..3]
          /\ seen' \in [Followers -> Nat] /\ k' \in [Followers -> Nat]
      BY <3>1, GotoType, LabelNames DEF TypeOK
    <3> QED
      BY <1>2, <3>1, <3>2 DEF SetHandle, TypeOK, LogTypeOK, logVars, dbVars
  <2> QED
    BY <2>1, <2>2
<1>3. ASSUME NEW f \in Followers, EndPoll(f), UNCHANGED <<handle, working>>,
             UNCHANGED <<logVars, position, dbVars, faults>>
      PROVE  TypeOK'
  BY <1>3, EndPollType DEF TypeOK, LogTypeOK, logVars, dbVars
<1>4. ASSUME NEW f \in Followers, ScanIdentity(f)
      PROVE  TypeOK'
  <2> DEFINE c == Candidate(k[f])
  <2>1. c \in Files \cup {None} /\ position[f] \in Positions
    BY CandidateType DEF TypeOK
  <2>2. CASE c # None /\ c = position[f].file /\ Matches(c, position[f])
    BY <1>2, <1>4, <2>1, <2>2 DEF ScanIdentity
  <2>3. CASE ~(c # None /\ c = position[f].file /\ Matches(c, position[f]))
    <3>1. /\ \/ k' = [k EXCEPT ![f] = k[f] + 1] /\ pc' = pc
             \/ /\ k' = [k EXCEPT ![f] = 1]
                /\ Goto(f, "anchor") \/ Goto(f, "fresh")
          /\ UNCHANGED <<handle, working, seen, round, batch, next>>
          /\ UNCHANGED <<logVars, position, dbVars, faults>>
      BY <1>4, <2>3 DEF ScanIdentity
    <3>2. pc' \in [Followers -> Labels] /\ k' \in [Followers -> Nat]
      BY <3>1, GotoType, LabelNames DEF TypeOK
    <3> QED
      BY <3>1, <3>2 DEF TypeOK, LogTypeOK, logVars, dbVars
  <2> QED
    BY <2>2, <2>3
<1>5. ASSUME NEW f \in Followers, ScanAnchor(f)
      PROVE  TypeOK'
  <2> DEFINE c == Candidate(k[f])
  <2>1. CASE c = None
    BY <1>3, <1>5, <2>1 DEF ScanAnchor
  <2>2. CASE c # None
    <3>1. /\ Goto(f, "reopen") \/ Goto(f, "fresh") \/ pc' = pc
          /\ k' = k \/ k' = [k EXCEPT ![f] = k[f] + 1]
          /\ UNCHANGED <<seen, round, batch, next, logVars, handle, working, position,
                         dbVars, faults>>
      BY <1>5, <2>2 DEF ScanAnchor
    <3>2. pc' \in [Followers -> Labels] /\ k' \in [Followers -> Nat]
      BY <3>1, GotoType, LabelNames DEF TypeOK
    <3> QED
      BY <3>1, <3>2 DEF TypeOK, LogTypeOK, logVars, dbVars
  <2> QED
    BY <2>1, <2>2
<1>6. ASSUME NEW f \in Followers, ReopenArchive(f)
      PROVE  TypeOK'
  <2> DEFINE c == Candidate(k[f])
  <2>1. CASE c = None
    BY <1>3, <1>6, <2>1 DEF ReopenArchive
  <2>2. CASE c # None
    <3>1. c \in Files /\ position[f].offset \in 0..MaxLines
      BY <2>2, CandidateType DEF TypeOK, Positions
    <3>2. At(c, position[f].offset) \in Positions
      BY <3>1, AtType DEF TypeOK
    <3> QED
      BY <1>2, <1>6, <2>2, <3>1, <3>2 DEF ReopenArchive
  <2> QED
    BY <2>1, <2>2
<1>7. ASSUME NEW f \in Followers, OpenFresh(f)
      PROVE  TypeOK'
  <2>1. CASE active = None
    BY <1>3, <1>7, <2>1 DEF OpenFresh
  <2>2. CASE active # None
    <3>1. active \in Files /\ At(active, 0) \in Positions
      BY <2>2, AtType, SourceLogAssumption DEF TypeOK, LogTypeOK
    <3> QED
      BY <1>2, <1>7, <2>2, <3>1 DEF OpenFresh
  <2> QED
    BY <2>1, <2>2
<1>8. ASSUME NEW f \in Followers, Read(f)
      PROVE  TypeOK'
  <2>1. CASE files[handle[f]].size > working[f].offset
    <3>1. [text |-> files[handle[f]].text, first |-> working[f].offset + 1,
           last |-> BatchEnd(handle[f], working[f].offset)] \in Batches
      <4>1. handle[f] \in Files /\ working[f] \in Positions
        BY <1>8, FileIsOpen DEF Read, TypeOK
      <4>2. /\ files[handle[f]].text \in 0..MaxTexts /\ files[handle[f]].size \in 0..MaxLines
            /\ working[f].offset \in 0..MaxLines
        BY <4>1 DEF TypeOK, LogTypeOK, Positions
      <4>3. BatchEnd(handle[f], working[f].offset) \in 0..MaxLines
        BY <4>2, SourceLogAssumption, FollowerAssumption DEF BatchEnd
      <4> QED
        BY <4>2, <4>3, SourceLogAssumption DEF Batches
    <3> QED
      BY GotoType, LabelNames, <1>8, <2>1, <3>1 DEF Read, TypeOK, LogTypeOK, logVars, dbVars
  <2>2. CASE ~(files[handle[f]].size > working[f].offset)
    BY GotoType, LabelNames, <1>8, <2>2 DEF Read, TypeOK, LogTypeOK, logVars, dbVars
  <2> QED
    BY <2>1, <2>2
<1>9. ASSUME NEW f \in Followers, StatActive(f)
      PROVE  TypeOK'
  <2>1. CASE active = None \/ active = handle[f]
    BY <1>3, <1>9, <2>1 DEF StatActive
  <2>2. CASE ~(active = None \/ active = handle[f])
    BY GotoType, LabelNames, <1>9, <2>2 DEF StatActive, pollVars, TypeOK, LogTypeOK, logVars, dbVars
  <2> QED
    BY <2>1, <2>2
<1>10. ASSUME NEW f \in Followers, SwitchFile(f)
       PROVE  TypeOK'
  <2>1. CASE active = None
    BY <1>3, <1>10, <2>1 DEF SwitchFile
  <2>2. CASE active # None
    <3>1. active \in Files /\ At(active, 0) \in Positions
      BY <2>2, AtType, SourceLogAssumption DEF TypeOK, LogTypeOK
    <3>2. CASE round[f] = 2
      BY <1>10, <2>2, <3>1, <3>2, EndPollType
      DEF SwitchFile, SetHandle, TypeOK, LogTypeOK, logVars, dbVars
    <3>3. CASE round[f] # 2
      <4>1. /\ SetHandle(f, active, At(active, 0)) /\ Goto(f, "read")
            /\ round' = [round EXCEPT ![f] = 2]
            /\ UNCHANGED <<seen, k, batch, next, logVars, position, dbVars, faults>>
        BY <1>10, <2>2, <3>3 DEF SwitchFile
      <4>2. pc' \in [Followers -> Labels] /\ round' \in [Followers -> 0..3]
        BY <4>1, GotoType, LabelNames DEF TypeOK
      <4> QED
        BY <3>1, <4>1, <4>2 DEF SetHandle, TypeOK, LogTypeOK, logVars, dbVars
    <3> QED
      BY <3>2, <3>3
  <2> QED
    BY <2>1, <2>2
<1>11. ASSUME NEW f \in Followers, Recheck(f)
       PROVE  TypeOK'
  <2>1. CASE Matches(handle[f], working[f])
    BY GotoType, LabelNames, <1>11, <2>1 DEF Recheck, pollVars, TypeOK, LogTypeOK, logVars, dbVars
  <2>2. CASE ~Matches(handle[f], working[f])
    <3>1. /\ 0 \in 0..3 /\ BeginOpen(f, 0) /\ batch' \in [Followers -> Batches]
          /\ UNCHANGED <<logVars, dbVars, faults>>
      BY <1>0, <1>11, <2>2 DEF Recheck, TypeOK
    <3> QED
      BY <3>1, <1>open
  <2> QED
    BY <2>1, <2>2
<1>12. ASSUME NEW f \in Followers, TakePosition(f)
       PROVE  TypeOK'
  <2>1. handle[f] \in Files /\ batch[f].last \in 0..MaxLines
    BY <1>12, FileIsOpen DEF TakePosition, TypeOK, Batches
  <2>2. At(handle[f], batch[f].last) \in Positions
    BY <2>1, AtType DEF TypeOK
  <2> QED
    BY GotoType, LabelNames, <1>12, <2>2 DEF TakePosition, TypeOK, LogTypeOK, logVars, dbVars
<1>13. ASSUME NEW f \in Followers, Transaction(f)
       PROVE  cursor' \in Positions /\ stored' \in [Lines -> Nat]
  BY <1>13 DEF Transaction, TypeOK
<1>14. ASSUME NEW f \in Followers, Commit(f)
       PROVE  TypeOK'
  <2>1. EndPoll(f)
    BY <1>14 DEF Commit, Transaction
  <2> QED
    BY <1>13, <1>14, <2>1, EndPollType DEF Commit, TypeOK, LogTypeOK, logVars
<1>15. ASSUME NEW f \in Followers, RolledBack(f), faults' \in 0..MaxFaults
       PROVE  TypeOK'
  BY <1>0, <1>15, EndPollType
  DEF RolledBack, Close, SetHandle, TypeOK, LogTypeOK, logVars, dbVars
<1>16. ASSUME Fault
       PROVE  faults' \in 0..MaxFaults
  BY <1>16, FollowerAssumption DEF Fault, TypeOK
<1>17. ASSUME NEW f \in Followers, AfterCommitRaises(f)
       PROVE  TypeOK'
  <2>1. EndPoll(f) /\ Fault
    BY <1>17 DEF AfterCommitRaises, Transaction
  <2> QED
    BY <1>13, <1>16, <1>17, <2>1, EndPollType DEF AfterCommitRaises, TypeOK, LogTypeOK, logVars
<1>18. ASSUME NEW f \in Followers, PollRaises(f)
       PROVE  TypeOK'
  BY <1>16, <1>18, EndPollType DEF PollRaises, TypeOK, LogTypeOK, logVars, dbVars
<1>19. ASSUME NEW f \in Followers, AnchorReadFails(f)
       PROVE  TypeOK'
  <2>1. Candidate(k[f]) \in Files
    BY <1>19, CandidateType DEF AnchorReadFails, TypeOK
  <2> QED
    BY <1>0, <1>16, <1>19, <2>1, EndPollType
    DEF AnchorReadFails, SetHandle, TypeOK, LogTypeOK, logVars, dbVars
<1>20. ASSUME NEW f \in Followers, Crash(f)
       PROVE  TypeOK'
  BY <1>0, <1>16, <1>20, EndPollType
  DEF Crash, Close, SetHandle, TypeOK, LogTypeOK, logVars, dbVars
<1>21. ASSUME Environment
       PROVE  TypeOK'
  <2>1. LogTypeOK'
    BY <1>21, LogType DEF Environment, Rotate, Empty, TypeOK
  <2> QED
    BY <1>21, <2>1 DEF Environment, memoryVars, dbVars, TypeOK
<1>22. ASSUME UNCHANGED vars
       PROVE  TypeOK'
  BY <1>22 DEF vars, logVars, memoryVars, dbVars, TypeOK, LogTypeOK
<1>23. ASSUME NEW f \in Followers, CommitRejected(f) \/ CommitFails(f)
       PROVE  TypeOK'
  BY <1>15, <1>16, <1>23 DEF CommitRejected, CommitFails, TypeOK
<1>verify. ASSUME NEW f \in Followers, Verify(f)
       PROVE  TypeOK'
  <2>1. CASE Matches(handle[f], working[f])
    BY GotoType, LabelNames, <1>verify, <2>1 DEF Verify, pollVars, TypeOK, LogTypeOK, logVars, dbVars
  <2>2. CASE ~Matches(handle[f], working[f])
    <3>1. /\ 1 \in 0..3 /\ BeginOpen(f, 1) /\ batch' \in [Followers -> Batches]
          /\ UNCHANGED <<logVars, dbVars, faults>>
      BY <1>verify, <2>2 DEF Verify, TypeOK
    <3> QED
      BY <3>1, <1>open
  <2> QED
    BY <2>1, <2>2
<1> QED
  BY <1>1, <1>4, <1>5, <1>6, <1>7, <1>8, <1>9, <1>10, <1>11, <1>12, <1>14, <1>17, <1>18,
     <1>19, <1>20, <1>21, <1>22, <1>23, <1>verify
  DEF Next, Poll, Failure

-----------------------------------------------------------------------------
\* How the log may change: texts on a file are replaced by newer ones only, a
\* text does not get shorter, and a new active file has a newer text.
Grown ==
    /\ newest' >= newest
    /\ \A f \in Files :
          /\ files'[f].text >= files[f].text
          /\ files'[f].text = files[f].text => files'[f].size >= files[f].size
    /\ active' # None => (active' = active \/ files'[active'].text > newest)

\* An archive name keeps its file, takes the one of the name before it, or gets
\* the content that was active.
Shifted ==
    \A i \in 1..Len(archives') :
        \/ i \in 1..Len(archives) /\ archives'[i] = archives[i]
        \/ i - 1 \in 1..Len(archives) /\ archives'[i] = archives[i - 1]
        \/ active # None /\ files'[archives'[i]] = files[active]

\* A name put before the archives moves each of them to the next number.
LEMMA PushArchive ==
    ASSUME LogTypeOK, NEW f \in Files, archives' = <<f>> \o archives
    PROVE  /\ Len(archives') = Len(archives) + 1
           /\ Len(archives) \in Nat
           /\ archives'[1] = f
           /\ \A i \in 2..Len(archives') :
                 i - 1 \in 1..Len(archives) /\ archives'[i] = archives[i - 1]
BY DEF LogTypeOK

\* Compression takes the last archive and leaves the names of the others.
LEMMA PopArchive ==
    ASSUME LogTypeOK, Compress
    PROVE  /\ Len(archives') = Len(archives) - 1
           /\ Len(archives) \in Nat
           /\ \A i \in 1..Len(archives') : i \in 1..Len(archives) /\ archives'[i] = archives[i]
<1>1. Len(archives) \in Nat /\ Len(archives) # 0
  BY DEF Compress, LogTypeOK
<1>2. \A i \in 1..(Len(archives) - 1) : archives[i] \in Files
  <2>1. \A i \in 1..(Len(archives) - 1) : i \in 1..Len(archives)
    BY <1>1
  <2> QED
    BY <2>1, ElementOfSeq DEF LogTypeOK
<1>3. /\ Len(SubSeq(archives, 1, Len(archives) - 1)) = Len(archives) - 1
      /\ \A i \in 1..(Len(archives) - 1) :
            SubSeq(archives, 1, Len(archives) - 1)[i] = archives[i]
  <2>1. Len(archives) - 1 \in Int /\ Len(archives) - 1 - 1 + 1 = Len(archives) - 1
    BY <1>1
  <2>2. /\ Len(SubSeq(archives, 1, Len(archives) - 1))
              = IF 1 <= Len(archives) - 1 THEN Len(archives) - 1 - 1 + 1 ELSE 0
        /\ \A i \in 1..(Len(archives) - 1 - 1 + 1) :
              SubSeq(archives, 1, Len(archives) - 1)[i] = archives[1 + i - 1]
    BY <2>1, <1>2, SubSeqProperties
  <2>3. \A i \in 1..(Len(archives) - 1) : 1 + i - 1 = i
    BY <1>1
  <2> QED
    BY <1>1, <2>1, <2>2, <2>3
<1> QED
  BY <1>1, <1>3 DEF Compress

\* An archive name stands for a file.
LEMMA ArchiveType ==
    ASSUME LogTypeOK
    PROVE  /\ Len(archives) \in Nat
           /\ \A i \in 1..Len(archives) : archives[i] \in Files
BY ElementOfSeq DEF LogTypeOK

\* What the log holds, in numbers; and so after a step.
LEMMA LogNumbers ==
    ASSUME LogTypeOK
    PROVE  /\ newest \in Nat /\ newest >= 1
           /\ \A f \in Files : files[f].text \in Nat /\ files[f].size \in Nat
           /\ active # None => active \in Files
BY SourceLogAssumption DEF LogTypeOK, Texts

LEMMA LogNumbersNext ==
    ASSUME LogTypeOK'
    PROVE  /\ newest' \in Nat /\ newest' >= 1
           /\ \A f \in Files : files'[f].text \in Nat /\ files'[f].size \in Nat
           /\ active' # None => active' \in Files
           /\ \A i \in 1..Len(archives') : archives'[i] \in Files
BY SourceLogAssumption, ElementOfSeq DEF LogTypeOK, Texts

LEMMA PositionNumbers ==
    ASSUME NEW p \in Positions
    PROVE  /\ p.text \in Nat /\ p.offset \in Nat /\ p.offset \in 0..MaxLines
           /\ p.file # None => p.file \in Files
BY SourceLogAssumption DEF Positions, Files, None

LEMMA BatchNumbers ==
    ASSUME NEW b \in Batches
    PROVE  /\ b.text \in Nat /\ b.first \in Nat /\ b.last \in Nat
           /\ b.last \in 0..MaxLines
BY SourceLogAssumption DEF Batches

\* Whatever happens to the log, its texts stay in order and it has grown.
LEMMA LogStep ==
    ASSUME LogTypeOK, LogInv,
           \/ WriterOpen \/ WriterLine \/ WriterDies \/ Rename
           \/ Create \/ Compress \/ Truncate \/ CopyTruncate
    PROVE  LogInv' /\ Grown /\ Shifted
<1>0. /\ newest \in Nat /\ newest >= 1
      /\ \A f \in Files : files[f].text \in Nat /\ files[f].size \in Nat
      /\ Len(archives) \in Nat
      /\ \A i \in 1..Len(archives) : archives[i] \in Files
      /\ active # None => active \in Files
  BY ArchiveType DEF LogTypeOK, Texts
<1>1. CASE WriterOpen \/ WriterDies
  BY <1>0, <1>1 DEF WriterOpen, WriterDies, LogInv, Grown, Shifted
<1>2. CASE WriterLine
  <2>1. /\ files' \in [Files -> [text : 0..MaxTexts, size : 0..MaxLines]]
        /\ \A f \in Files : files'[f].text = files[f].text /\ files'[f].size >= files[f].size
    <3>1. /\ writer \in Files
          /\ files' = [files EXCEPT ![writer].size = @ + 1]
      BY <1>2 DEF WriterLine, LogTypeOK
    <3>2. files' \in [Files -> [text : 0..MaxTexts, size : 0..MaxLines]]
      BY <1>2, LogType DEF LogTypeOK
    <3>3. \A f \in Files : files'[f].text = files[f].text /\ files'[f].size >= files[f].size
      BY <1>0, <3>1 DEF LogTypeOK
    <3> QED
      BY <3>2, <3>3
  <2> QED
    BY <1>0, <1>2, <2>1 DEF WriterLine, LogInv, Grown, Shifted
<1>3. CASE Rename
  <2>1. active \in Files /\ active # None /\ archives' = <<active>> \o archives
    BY <1>3, <1>0 DEF Rename
  <2>2. /\ Len(archives') = Len(archives) + 1 /\ archives'[1] = active
        /\ \A i \in 2..Len(archives') :
              i - 1 \in 1..Len(archives) /\ archives'[i] = archives[i - 1]
    BY <2>1, PushArchive
  <2>3. active' = None /\ files' = files /\ newest' = newest
    BY <1>3 DEF Rename
  <2>4. Grown /\ Shifted
    BY <1>0, <2>1, <2>2, <2>3 DEF Grown, Shifted
  <2>5. \A i \in 1..Len(archives') :
          /\ files[archives'[i]].text # 0
          /\ i = 1 => files[archives'[i]].text = newest
          /\ i > 1 => files[archives'[i]].text < newest
    BY <1>0, <2>1, <2>2 DEF LogInv
  <2>6. ASSUME NEW i \in 1..Len(archives'), NEW j \in 1..Len(archives'), i < j
        PROVE  files[archives'[j]].text < files[archives'[i]].text
    <3>1. j \in 2..Len(archives') /\ j - 1 \in 1..Len(archives) /\ archives'[j] = archives[j - 1]
      BY <1>0, <2>2, <2>6
    <3>2. CASE i = 1
      BY <2>5, <2>6, <3>2
    <3>3. CASE i # 1
      <4>1. /\ i \in 2..Len(archives') /\ i - 1 < j - 1
            /\ i - 1 \in 1..Len(archives) /\ archives'[i] = archives[i - 1]
        BY <1>0, <2>2, <2>6, <3>1, <3>3
      <4> QED
        BY <3>1, <4>1 DEF LogInv
    <3> QED
      BY <3>2, <3>3
  <2> QED
    BY <2>3, <2>4, <2>5, <2>6 DEF LogInv
<1>4. CASE Create
  <2>1. PICK f \in Files :
          /\ Unborn(f)
          /\ files' = [files EXCEPT ![f] = [text |-> newest + 1, size |-> 0]]
          /\ active' = f
    BY <1>4 DEF Create
  <2>2. /\ files[f].text = 0 /\ files'[f] = [text |-> newest + 1, size |-> 0]
        /\ \A g \in Files : g # f => files'[g] = files[g]
        /\ newest' = newest + 1 /\ archives' = archives
        /\ \A i \in 1..Len(archives) : archives[i] # f
    BY <1>4, <2>1 DEF Create, Unborn, LogTypeOK, LogInv
  <2>3. Grown
    BY <1>0, <2>1, <2>2 DEF LogInv, Grown
  <2>4. Shifted
    BY <2>2 DEF Shifted
  <2>5. /\ \A g \in Files : files'[g].text <= newest'
        /\ \A g, h \in Files : files'[g].text = files'[h].text /\ files'[g].text # 0 => g = h
        /\ active' # None => files'[active'].text = newest'
    BY <1>0, <2>1, <2>2 DEF LogInv
  <2>6. \A i \in 1..Len(archives') :
          /\ archives'[i] \in Files
          /\ files'[archives'[i]] = files[archives[i]]
    BY <1>0, <2>1, <2>2
  <2>7. \A i \in 1..Len(archives') :
          /\ files'[archives'[i]].text # 0
          /\ active' # None => files'[archives'[i]].text < newest'
          /\ \A j \in 1..Len(archives') :
                i < j => files'[archives'[j]].text < files'[archives'[i]].text
    BY <1>0, <2>2, <2>6 DEF LogInv
  <2> QED
    BY <2>3, <2>4, <2>5, <2>7 DEF LogInv
<1>5. CASE Compress
  <2>1. /\ files' = files /\ active' = active /\ newest' = newest
        /\ \A i \in 1..Len(archives') : i \in 1..Len(archives) /\ archives'[i] = archives[i]
    BY <1>5, PopArchive DEF Compress
  <2>2. Grown
    BY <1>0, <2>1 DEF Grown
  <2>3. Shifted
    BY <2>1 DEF Shifted
  <2>4. \A i \in 1..Len(archives') :
          /\ files'[archives'[i]].text # 0
          /\ active' # None => files'[archives'[i]].text < newest'
          /\ \A j \in 1..Len(archives') :
                i < j => files'[archives'[j]].text < files'[archives'[i]].text
    BY <2>1 DEF LogInv
  <2> QED
    BY <2>1, <2>2, <2>3, <2>4 DEF LogInv
<1>6. CASE Truncate
  <2>1. /\ active \in Files /\ active # None /\ active' = active
        /\ files'[active] = [text |-> newest + 1, size |-> 0]
        /\ \A g \in Files : g # active => files'[g] = files[g]
        /\ newest' = newest + 1 /\ archives' = archives
    BY <1>0, <1>6 DEF Truncate, LogTypeOK
  <2>2. \A i \in 1..Len(archives) : archives[i] # active
    BY <1>0, <2>1 DEF LogInv
  <2>3. Grown
    BY <1>0, <2>1 DEF LogInv, Grown
  <2>4. Shifted
    BY <2>1 DEF Shifted
  <2>5. /\ \A f \in Files : files'[f].text <= newest'
        /\ \A f, g \in Files : files'[f].text = files'[g].text /\ files'[f].text # 0 => f = g
        /\ active' # None => files'[active'].text = newest'
    BY <1>0, <2>1 DEF LogInv
  <2>6. \A i \in 1..Len(archives') :
          /\ archives'[i] \in Files
          /\ files'[archives'[i]] = files[archives[i]]
    BY <1>0, <2>1, <2>2
  <2>7. \A i \in 1..Len(archives') :
          /\ files'[archives'[i]].text # 0
          /\ active' # None => files'[archives'[i]].text < newest'
          /\ \A j \in 1..Len(archives') :
                i < j => files'[archives'[j]].text < files'[archives'[i]].text
    <3>1. \A i \in 1..Len(archives) : files[archives[i]].text < newest
      BY <1>0, <2>1 DEF LogInv
    <3>2. \A i \in 1..Len(archives') :
            /\ files'[archives'[i]].text = files[archives[i]].text
            /\ files[archives[i]].text < newest'
      BY <1>0, <2>1, <2>6, <3>1
    <3> QED
      BY <2>1, <3>2 DEF LogInv
  <2> QED
    BY <2>3, <2>4, <2>5, <2>7 DEF LogInv
<1>7. CASE CopyTruncate
  <2>1. PICK f \in Files :
          /\ Unborn(f)
          /\ files' = [files EXCEPT ![f] = files[active],
                                    ![active] = [text |-> newest + 1, size |-> 0]]
          /\ archives' = <<f>> \o archives
    BY <1>7 DEF CopyTruncate
  <2>2. /\ active \in Files /\ active # None /\ active' = active /\ f # active
        /\ files[f].text = 0 /\ files'[f] = files[active]
        /\ files'[active] = [text |-> newest + 1, size |-> 0]
        /\ \A g \in Files : g # active /\ g # f => files'[g] = files[g]
        /\ newest' = newest + 1
    BY <1>0, <1>7, <2>1 DEF CopyTruncate, Unborn, LogTypeOK, LogInv
  <2>3. \A i \in 1..Len(archives) : archives[i] # f /\ archives[i] # active
    BY <1>0, <2>2 DEF LogInv
  <2>4. /\ Len(archives') = Len(archives) + 1 /\ archives'[1] = f
        /\ \A i \in 2..Len(archives') :
              i - 1 \in 1..Len(archives) /\ archives'[i] = archives[i - 1]
    BY <2>1, PushArchive
  <2>5. Grown
    BY <1>0, <2>2 DEF LogInv, Grown
  <2>9. Shifted
    <3>1. ASSUME NEW i \in 1..Len(archives')
          PROVE  \/ i \in 2..Len(archives')
                 \/ files'[archives'[i]] = files[active]
      BY <1>0, <2>2, <2>4
    <3> QED
      BY <2>2, <2>4, <3>1 DEF Shifted
  <2>6. /\ \A g \in Files : files'[g].text <= newest'
        /\ \A g, h \in Files : files'[g].text = files'[h].text /\ files'[g].text # 0 => g = h
        /\ active' # None => files'[active'].text = newest'
    <3>1. /\ files[active].text = newest /\ files'[active].text = newest + 1
          /\ files'[f].text = newest /\ newest' = newest + 1
      BY <1>0, <2>2 DEF LogInv
    <3>2. \A g \in Files : g # active /\ g # f =>
            /\ files'[g].text = files[g].text /\ files[g].text <= newest
            /\ files[g].text # newest
      BY <1>0, <2>2, <3>1 DEF LogInv
    <3>3. \A g \in Files : files'[g].text <= newest'
      BY <1>0, <3>1, <3>2
    <3>4. ASSUME NEW g \in Files, NEW h \in Files,
                 files'[g].text = files'[h].text, files'[g].text # 0
          PROVE  g = h
      <4>1. CASE g # active /\ g # f /\ h # active /\ h # f
        BY <3>2, <3>4, <4>1 DEF LogInv
      <4> QED
        BY <1>0, <3>1, <3>2, <3>4, <4>1
    <3> QED
      BY <2>2, <3>1, <3>3, <3>4
  <2>7. /\ files'[archives'[1]].text = newest
        /\ \A i \in 2..Len(archives') :
              /\ i - 1 \in 1..Len(archives)
              /\ files'[archives'[i]] = files[archives[i - 1]]
              /\ files[archives[i - 1]].text # 0
              /\ files[archives[i - 1]].text < newest
    BY <1>0, <2>2, <2>3, <2>4 DEF LogInv
  <2>8. ASSUME NEW i \in 1..Len(archives'), NEW j \in 1..Len(archives'), i < j
        PROVE  files'[archives'[j]].text < files'[archives'[i]].text
    <3>1. j \in 2..Len(archives') /\ j - 1 \in 1..Len(archives)
      BY <1>0, <2>4, <2>8
    <3>2. CASE i = 1
      BY <2>7, <3>1, <3>2
    <3>3. CASE i # 1
      <4>1. i \in 2..Len(archives') /\ i - 1 \in 1..Len(archives) /\ i - 1 < j - 1
        BY <1>0, <2>4, <2>8, <3>1, <3>3
      <4>2. files[archives[j - 1]].text < files[archives[i - 1]].text
        BY <3>1, <4>1 DEF LogInv
      <4> QED
        BY <2>7, <3>1, <4>1, <4>2
    <3> QED
      BY <3>2, <3>3
  <2>10. \A i \in 1..Len(archives') :
            files'[archives'[i]].text # 0 /\ files'[archives'[i]].text < newest'
    <3>1. ASSUME NEW i \in 1..Len(archives')
          PROVE  files'[archives'[i]].text # 0 /\ files'[archives'[i]].text < newest'
      <4>1. CASE i = 1
        BY <1>0, <2>2, <2>7, <4>1
      <4>2. CASE i # 1
        <5>1. i \in 2..Len(archives') /\ i - 1 \in 1..Len(archives) /\ archives[i - 1] \in Files
          BY <1>0, <2>4, <4>2
        <5>2. /\ files'[archives'[i]].text = files[archives[i - 1]].text
              /\ files[archives[i - 1]].text # 0 /\ files[archives[i - 1]].text < newest
          BY <2>7, <5>1
        <5>3. files[archives[i - 1]].text \in Nat
          BY <1>0, <5>1
        <5> QED
          BY <1>0, <2>2, <5>2, <5>3
      <4> QED
        BY <4>1, <4>2
    <3> QED
      BY <3>1
  <2> QED
    BY <2>5, <2>6, <2>8, <2>9, <2>10 DEF LogInv
<1> QED
  BY <1>1, <1>2, <1>3, <1>4, <1>5, <1>6, <1>7

-----------------------------------------------------------------------------
\* Nothing saved is sound.
LEMMA NoPositionSound == LogTypeOK => Sound(NoPosition)
BY DEF Sound, NoPosition, LogTypeOK, Texts, None

\* What a file holds now reaches at least as far as what it held.
LEMMA FileGrows ==
    ASSUME LogTypeOK, LogTypeOK', Grown, NEW f \in Files, NEW text \in Nat, NEW offset \in Nat,
           files[f].text >= text,
           files[f].text = text => files[f].size >= offset
    PROVE  /\ files'[f].text >= text
           /\ files'[f].text = text => files'[f].size >= offset
<1>1. /\ files[f].text \in Nat /\ files[f].size \in Nat
      /\ files'[f].text \in Nat /\ files'[f].size \in Nat
  BY LogNumbers, LogNumbersNext
<1>2. /\ files'[f].text >= files[f].text
      /\ files'[f].text = files[f].text => files'[f].size >= files[f].size
  BY DEF Grown
<1> QED
  BY <1>1, <1>2

\* A sound position stays sound while the log grows.
LEMMA SoundGrows ==
    ASSUME LogTypeOK, LogTypeOK', Grown, NEW p \in Positions, Sound(p)
    PROVE  Sound(p)'
<1>1. newest \in Nat /\ newest' \in Nat /\ newest' >= newest
  BY LogNumbers, LogNumbersNext DEF Grown
<1>2. p.text \in Nat /\ p.offset \in Nat /\ (p.file # None => p.file \in Files)
  BY PositionNumbers
<1>3. ASSUME p.file # None
      PROVE  files'[p.file].text >= p.text
  BY <1>2, <1>3, LogNumbers, LogNumbersNext DEF Sound, Grown
<1>4. ASSUME p.file # None, p.anchor = "full", files'[p.file].text = p.text
      PROVE  files'[p.file].size >= p.offset
  BY <1>2, <1>4, FileGrows DEF Sound
<1> QED
  BY <1>1, <1>2, <1>3, <1>4 DEF Sound

\* The position taken from an open file is sound.
LEMMA AtSound ==
    ASSUME LogTypeOK, LogInv, NEW f \in Files, NEW offset \in 0..MaxLines, files[f].text # 0
    PROVE  Sound(At(f, offset))
<1>1. /\ newest \in Nat /\ files[f].text \in Nat /\ files[f].size \in Nat
      /\ offset \in Nat /\ files[f].text <= newest /\ files[f].text > 0 /\ f # None
  BY SourceLogAssumption DEF LogTypeOK, LogInv, Texts, Files, None
<1>2. At(f, offset) # NoPosition /\ At(f, offset).anchor # "none"
  BY <1>1, AtType DEF NoPosition
<1>3. At(f, offset).anchor = "full" => offset > 0 /\ files[f].size >= offset
  BY <1>1 DEF At
<1> QED
  BY <1>1, <1>2, <1>3, AtType DEF Sound

\* A sound position with the newest text and its anchor is in the active file.
LEMMA NewestIsActive ==
    ASSUME LogTypeOK, LogInv, NEW p \in Positions, Sound(p),
           p.anchor = "full", active # None, files[active].text <= p.text
    PROVE  p.file = active /\ files[active].text = p.text /\ files[active].size >= p.offset
<1>1. /\ newest \in Nat /\ newest >= 1 /\ p.text \in Nat /\ active \in Files
      /\ \A f \in Files : files[f].text \in Nat
      /\ p.file # None => p.file \in Files
  BY SourceLogAssumption DEF LogTypeOK, Texts, Positions, Files, None
<1>2. p.file # None
  BY DEF Sound, NoPosition
<1> QED
  BY <1>1, <1>2 DEF Sound, LogInv

\* What a position covers, in numbers.
LEMMA FloorType ==
    ASSUME NEW p \in Positions
    PROVE  /\ Floor(p) \in Nat \X Nat
           /\ Floor(p)[1] = p.text
           /\ Floor(p)[2] = IF p.anchor = "full" THEN p.offset ELSE 0
BY SourceLogAssumption DEF Floor, Positions

\* The order of receipt is transitive.
LEMMA OrderTransitive ==
    ASSUME NEW a \in Nat \X Nat, NEW b \in Nat \X Nat, NEW c \in Nat \X Nat
    PROVE  /\ NotAfter(a, b) /\ NotAfter(b, c) => NotAfter(a, c)
           /\ NotAfter(a, b) /\ Before(b, c) => Before(a, c)
           /\ Before(a, b) /\ NotAfter(b, c) => Before(a, c)
           /\ Before(a, b) => ~NotAfter(b, a)
BY DEF NotAfter, Before

-----------------------------------------------------------------------------
\* What one consumer remembers.
SameMemory(f) ==
    /\ pc'[f] = pc[f] /\ handle'[f] = handle[f] /\ working'[f] = working[f]
    /\ position'[f] = position[f] /\ k'[f] = k[f]
    /\ batch'[f] = batch[f] /\ next'[f] = next[f]

\* A consumer's invariant outlives every change of the log.
LEMMA FollowerLogStep ==
    ASSUME TypeOK, TypeOK', LogInv, LogInv', Grown, Shifted,
           NEW f \in Followers, FollowerInv(f), SameMemory(f)
    PROVE  FollowerInv(f)'
<1>0. /\ position[f] \in Positions /\ working[f] \in Positions /\ next[f] \in Positions
      /\ batch[f] \in Batches /\ LogTypeOK /\ LogTypeOK' /\ k[f] \in Nat
  BY DEF TypeOK
<1>1. Sound(position[f])' /\ Sound(working[f])'
  BY <1>0, SoundGrows DEF FollowerInv, Opened, Sound, SameMemory
<1>2. ActiveAhead(f) => ActiveAhead(f)'
  <2>1. SUFFICES ASSUME ActiveAhead(f), active' # None
                 PROVE  NotAfter(Floor(position[f]), <<files'[active'].text, 0>>)
    BY DEF ActiveAhead, SameMemory
  <2>2. /\ newest \in Nat /\ active' \in Files /\ files'[active'].text \in Nat
        /\ files[active'].text \in Nat
    BY <1>0, <2>1, LogNumbers, LogNumbersNext
  <2>3. Floor(position[f])[1] <= newest /\ Floor(position[f]) \in Nat \X Nat
    BY <1>0, FloorType DEF FollowerInv, Sound
  <2>4. CASE active' = active
    <3>1. NotAfter(Floor(position[f]), <<files[active].text, 0>>)
      BY <2>1, <2>4 DEF ActiveAhead
    <3> QED
      BY <2>2, <2>3, <2>4, <3>1 DEF Grown, NotAfter, Before
  <2>5. CASE files'[active'].text > newest
    BY <2>2, <2>3, <2>5 DEF NotAfter, Before
  <2> QED
    BY <2>1, <2>4, <2>5 DEF Grown
<1>3. Opening(f)'
  <2>1. ASSUME pc[f] = "reopen", NEW i \in 1..Len(archives'), i <= k[f]
        PROVE  /\ files'[archives'[i]].text >= position[f].text
               /\ files'[archives'[i]].text = position[f].text
                     => files'[archives'[i]].size >= position[f].offset
    <3>1. /\ \A j \in 1..Len(archives) : j <= k[f] =>
                /\ files[archives[j]].text >= position[f].text
                /\ files[archives[j]].text = position[f].text
                      => files[archives[j]].size >= position[f].offset
          /\ position[f].anchor = "full"
      BY <2>1 DEF FollowerInv, Opening
    <3>2. /\ \A j \in 1..Len(archives) : archives[j] \in Files
          /\ \A g \in Files : /\ files[g].text \in Nat /\ files[g].size \in Nat
                             /\ files'[g].text \in Nat /\ files'[g].size \in Nat
          /\ position[f].text \in Nat /\ position[f].offset \in Nat
          /\ archives'[i] \in Files
      BY <1>0, <2>1, ArchiveType, LogNumbers, LogNumbersNext, PositionNumbers
    <3>3. CASE i \in 1..Len(archives) /\ archives'[i] = archives[i]
      <4>1. archives[i] \in Files /\ files[archives[i]].text >= position[f].text
        BY <2>1, <3>1, <3>2, <3>3
      <4> QED
        BY <1>0, <2>1, <3>1, <3>2, <3>3, <4>1, FileGrows
    <3>4. CASE i - 1 \in 1..Len(archives) /\ archives'[i] = archives[i - 1]
      <4>1. i - 1 <= k[f]
        BY <1>0, <2>1, LogNumbersNext
      <4>2. archives[i - 1] \in Files /\ files[archives[i - 1]].text >= position[f].text
        BY <3>1, <3>2, <3>4, <4>1
      <4> QED
        BY <1>0, <3>1, <3>2, <3>4, <4>1, <4>2, FileGrows
    <3>5. CASE active # None /\ files'[archives'[i]] = files[active]
      <4>1. active \in Files /\ files[active].text \in Nat
        BY <3>5, <1>0 DEF LogTypeOK
      <4>2. files[active].text >= position[f].text
        BY <3>2, <3>5, <4>1 DEF FollowerInv, Sound, LogInv
      <4>3. files[active].text <= position[f].text => files[active].size >= position[f].offset
        BY <1>0, <3>1, <3>5, NewestIsActive DEF FollowerInv
      <4> QED
        BY <3>2, <3>5, <4>1, <4>2, <4>3
    <3> QED
      BY <2>1, <3>3, <3>4, <3>5 DEF Shifted
  <2> QED
    BY <1>2, <2>1 DEF FollowerInv, Opening, SameMemory
<1>4. Opened(f)'
  <2>1. ASSUME pc[f] = "switch", active' # None
        PROVE  files'[active'].text > working[f].text
    <3>1. /\ newest \in Nat /\ active' \in Files /\ files'[active'].text \in Nat
          /\ files[active'].text \in Nat /\ working[f].text \in Nat
      BY <1>0, <2>1, LogNumbers, LogNumbersNext, PositionNumbers
    <3>2. working[f].text <= newest
      BY DEF FollowerInv, Opened, Sound
    <3>3. CASE active' = active
      BY <2>1, <3>1, <3>3 DEF FollowerInv, Opened, Grown
    <3>4. CASE files'[active'].text > newest
      BY <3>1, <3>2, <3>4
    <3> QED
      BY <2>1, <3>3, <3>4 DEF Grown
  <2> QED
    BY <1>1, <2>1 DEF FollowerInv, Opened, SameMemory
<1>5. InBatch(f)'
  <2>1. pc[f] = "commit" => Sound(next[f])'
    BY <1>0, SoundGrows DEF FollowerInv, InBatch, Sound, SameMemory
  <2>2. ASSUME pc[f] \in {"check", "at", "commit"}
        PROVE  /\ batch[f].text <= files'[handle[f]].text
               /\ batch[f].text = files'[handle[f]].text
                     => files'[handle[f]].size >= batch[f].last
    <3>1. handle[f] \in Files
      BY <2>2, FileIsOpen
    <3>2. /\ files[handle[f]].text \in Nat /\ files[handle[f]].size \in Nat
          /\ files'[handle[f]].text \in Nat /\ files'[handle[f]].size \in Nat
          /\ batch[f].text \in Nat /\ batch[f].last \in Nat
      BY <1>0, <3>1, LogNumbers, LogNumbersNext, BatchNumbers
    <3> QED
      BY <2>2, <3>1, <3>2 DEF FollowerInv, InBatch, Grown
  <2> QED
    BY <2>1, <2>2 DEF FollowerInv, InBatch, SameMemory
<1> QED
  BY <1>1, <1>3, <1>4, <1>5 DEF FollowerInv, SameMemory

-----------------------------------------------------------------------------
\* A step of one consumer leaves what another remembers alone.
LEMMA OtherFollower ==
    ASSUME UNCHANGED logVars, NEW g \in Followers, FollowerInv(g), SameMemory(g)
    PROVE  FollowerInv(g)'
<1>1. Sound(position[g])' /\ Sound(working[g])'
  BY DEF FollowerInv, Opened, Sound, SameMemory, logVars
<1>2. Opening(g)'
  BY DEF FollowerInv, Opening, ActiveAhead, SameMemory, logVars
<1>3. Opened(g)'
  BY <1>1 DEF FollowerInv, Opened, SameMemory, logVars
<1>4. InBatch(g)'
  BY DEF FollowerInv, InBatch, Sound, SameMemory, logVars
<1> QED
  BY <1>1, <1>2, <1>3, <1>4 DEF FollowerInv

\* Between polls only the positions matter.
LEMMA IdleInv ==
    ASSUME NEW f \in Followers, pc'[f] = "idle", Sound(position[f])', Sound(working[f])',
           handle'[f] = None => working'[f] = NoPosition,
           working'[f] # NoPosition =>
                /\ working'[f].file = handle'[f]
                /\ NotAfter(Floor(position'[f]), Floor(working'[f]))
    PROVE  FollowerInv(f)'
BY DEF FollowerInv, Opening, Opened, InBatch

\* A poll that ends with its file as it was, or closed, leaves the invariant.
LEMMA EndPollInv ==
    ASSUME TypeOK, UNCHANGED logVars, NEW f \in Followers, FollowerInv(f), EndPoll(f),
           UNCHANGED <<handle, working, position>>
    PROVE  FollowerInv(f)'
<1>1. pc'[f] = "idle"
  BY DEF EndPoll, Goto, TypeOK
<1>2. Sound(position[f])' /\ Sound(working[f])'
  BY DEF FollowerInv, Opened, Sound, logVars
<1> QED
  BY <1>1, <1>2, IdleInv DEF FollowerInv, Opened

LEMMA ClosedInv ==
    ASSUME TypeOK, UNCHANGED logVars, NEW f \in Followers, EndPoll(f), Close(f),
           Sound(position[f])'
    PROVE  FollowerInv(f)'
<1>1. pc'[f] = "idle" /\ handle'[f] = None /\ working'[f] = NoPosition
  BY DEF EndPoll, Goto, Close, SetHandle, TypeOK
<1>2. Sound(working[f])'
  BY <1>1, NoPositionSound DEF TypeOK, Sound, NoPosition, None, logVars
<1> QED
  BY <1>1, <1>2, IdleInv

\* _open begins with no file open, whatever it was called for.
LEMMA BeginOpenInv ==
    ASSUME TypeOK, UNCHANGED logVars, NEW f \in Followers, NEW r \in 0..3, FollowerInv(f),
           BeginOpen(f, r)
    PROVE  FollowerInv(f)'
<1>1. /\ handle'[f] = None /\ working'[f] = NoPosition /\ position' = position
      /\ k'[f] = 0 /\ pc'[f] = IF position[f] = NoPosition THEN "fresh" ELSE "scan"
  BY DEF BeginOpen, Close, SetHandle, Goto, TypeOK
<1>2. Sound(position[f])'
  BY <1>1 DEF FollowerInv, Sound, logVars
<1>3. Sound(working[f])'
  BY <1>1, NoPositionSound DEF TypeOK, Sound, NoPosition, None, logVars
<1>4. pc'[f] = "fresh" => ActiveAhead(f)'
  <2>1. ASSUME position[f] = NoPosition, active # None
        PROVE  NotAfter(Floor(NoPosition), <<files[active].text, 0>>)
    <3>1. files[active].text \in Nat
      BY <2>1, LogNumbers DEF TypeOK
    <3> QED
      BY <3>1 DEF Floor, NoPosition, NotAfter, Before
  <2> QED
    BY <1>1, <2>1 DEF ActiveAhead, logVars
<1>5. Opening(f)'
  BY <1>1, <1>4 DEF Opening
<1>6. Opened(f)' /\ InBatch(f)'
  BY <1>1, <1>3 DEF Opened, InBatch
<1> QED
  BY <1>2, <1>5, <1>6 DEF FollowerInv

\* _open returns with a sound position that is not behind the saved one.
LEMMA EndOpenInv ==
    ASSUME TypeOK, UNCHANGED logVars, NEW f \in Followers, NEW file \in Files,
           NEW p \in Positions, FollowerInv(f), EndOpen(f, file, p), UNCHANGED position,
           Sound(p), p.file = file, NotAfter(Floor(position[f]), Floor(p))
    PROVE  FollowerInv(f)'
<1>1. /\ handle'[f] = file /\ working'[f] = p /\ file # None
      /\ pc'[f] \in {"idle", "verify", "read"}
  BY DEF EndOpen, EndPoll, SetHandle, Goto, TypeOK, Files, None
<1>2. Sound(position[f])' /\ Sound(working[f])'
  BY <1>1 DEF FollowerInv, Sound, logVars
<1>3. p # NoPosition
  BY <1>1 DEF NoPosition
<1>4. Opening(f)' /\ InBatch(f)'
  BY <1>1 DEF Opening, InBatch
<1>5. Opened(f)'
  BY <1>1, <1>2, <1>3 DEF Opened
<1> QED
  BY <1>2, <1>4, <1>5 DEF FollowerInv

\* Where the active name does not hold the saved position, it holds newer text.
LEMMA ScanMissAhead ==
    ASSUME TypeOK, LogInv, NEW f \in Followers, Sound(position[f]),
           ~(active # None /\ active = position[f].file /\ Matches(active, position[f]))
    PROVE  ActiveAhead(f)
<1> DEFINE p == position[f]
<1>1. SUFFICES ASSUME active # None
               PROVE  NotAfter(Floor(p), <<files[active].text, 0>>)
  BY DEF ActiveAhead
<1>2. p \in Positions /\ LogTypeOK
  BY DEF TypeOK
<1>3. /\ active \in Files /\ files[active].text \in Nat /\ files[active].size \in Nat
      /\ p.text \in Nat /\ p.offset \in Nat
  BY <1>1, <1>2, LogNumbers, PositionNumbers
<1>4. p.text <= files[active].text
  BY <1>1 DEF Sound, LogInv
<1>5. ~(p.anchor = "full" /\ files[active].text <= p.text)
  BY <1>1, <1>2, NewestIsActive DEF Matches
<1> QED
  BY <1>2, <1>3, <1>4, <1>5 DEF Floor, NotAfter, Before

\* _open, first pass.
LEMMA ScanIdentityInv ==
    ASSUME TypeOK, LogInv, NEW f \in Followers, FollowerInv(f), ScanIdentity(f)
    PROVE  FollowerInv(f)'
<1> DEFINE c == Candidate(k[f])
<1>0. k[f] \in Nat /\ c \in Files \cup {None} /\ position[f] \in Positions
  BY CandidateType DEF TypeOK
<1>1. CASE c # None /\ c = position[f].file /\ Matches(c, position[f])
  <2>1. EndOpen(f, c, position[f]) /\ UNCHANGED position /\ UNCHANGED logVars
    BY <1>1 DEF ScanIdentity
  <2>2. NotAfter(Floor(position[f]), Floor(position[f])) /\ c \in Files
    BY <1>0, <1>1 DEF NotAfter
  <2> QED
    BY <1>0, <1>1, <2>1, <2>2, EndOpenInv DEF FollowerInv
<1>2. CASE ~(c # None /\ c = position[f].file /\ Matches(c, position[f]))
  <2>1. ActiveAhead(f)
    <3>1. CASE k[f] = 0
      BY <1>2, <3>1, ScanMissAhead DEF Candidate, FollowerInv
    <3>2. CASE k[f] # 0
      BY <1>0, <3>2 DEF ScanIdentity, FollowerInv, Opening
    <3> QED
      BY <3>1, <3>2
  <2>2. /\ UNCHANGED <<handle, working, batch, next, position>> /\ UNCHANGED logVars
        /\ \/ k'[f] = k[f] + 1 /\ pc'[f] = "scan"
           \/ /\ k'[f] = 1
              /\ pc'[f] = "fresh" \/ (pc'[f] = "anchor" /\ position[f].anchor # "empty")
    BY <1>2 DEF ScanIdentity, Goto, TypeOK
  <2>3. Sound(position[f])' /\ Sound(working[f])'
    BY <2>2 DEF FollowerInv, Opened, Sound, logVars
  <2>4. Opening(f)'
    BY <2>1, <2>2 DEF Opening, ActiveAhead, logVars
  <2>5. Opened(f)' /\ InBatch(f)'
    BY <2>2, <2>3 DEF FollowerInv, Opened, InBatch
  <2> QED
    BY <2>3, <2>4, <2>5 DEF FollowerInv
<1> QED
  BY <1>1, <1>2

\* _open, second pass: archives before a match hold newer text than the match.
LEMMA ScanAnchorInv ==
    ASSUME TypeOK, LogInv, NEW f \in Followers, FollowerInv(f), ScanAnchor(f)
    PROVE  FollowerInv(f)'
<1> DEFINE c == Candidate(k[f])
<1>0. /\ k[f] \in Nat /\ k[f] > 0 /\ c \in Files \cup {None} /\ position[f] \in Positions
      /\ position[f].anchor # "empty" /\ ActiveAhead(f)
  BY CandidateType DEF TypeOK, ScanAnchor, FollowerInv, Opening
<1>1. CASE c = None
  BY <1>1, EndPollInv DEF ScanAnchor
<1>2. CASE c # None
  <2>1. /\ UNCHANGED <<handle, working, batch, next, position>> /\ UNCHANGED logVars
        /\ \/ k'[f] = k[f] /\ pc'[f] = "reopen" /\ Matches(c, position[f])
           \/ k'[f] = k[f] + 1 /\ pc'[f] = "anchor"
           \/ k'[f] = k[f] /\ pc'[f] = "fresh"
    BY <1>2 DEF ScanAnchor, Goto, TypeOK
  <2>2. Sound(position[f])' /\ Sound(working[f])'
    BY <2>1 DEF FollowerInv, Opened, Sound, logVars
  <2>3. ASSUME Matches(c, position[f]), NEW i \in 1..Len(archives), i <= k[f]
        PROVE  /\ files[archives[i]].text >= position[f].text
               /\ files[archives[i]].text = position[f].text
                     => files[archives[i]].size >= position[f].offset
    <3>1. /\ Len(archives) \in Nat /\ k[f] \in 1..Len(archives) /\ c = archives[k[f]]
      BY <1>0, <1>2, ArchiveType DEF Candidate, TypeOK
    <3>2. files[c].text = position[f].text /\ files[c].size >= position[f].offset
      BY <1>0, <2>3 DEF Matches
    <3>3. /\ archives[i] \in Files /\ files[archives[i]].text \in Nat
          /\ position[f].text \in Nat
      BY <1>0, <2>3, ArchiveType, LogNumbers, PositionNumbers DEF TypeOK
    <3>4. CASE i = k[f]
      BY <3>1, <3>2, <3>3, <3>4
    <3>5. CASE i # k[f]
      <4>1. files[c].text < files[archives[i]].text
        BY <1>0, <2>3, <3>1, <3>5 DEF LogInv
      <4> QED
        BY <3>2, <3>3, <4>1
    <3> QED
      BY <3>4, <3>5
  <2>4. Matches(c, position[f]) => position[f].anchor = "full"
    BY <1>0 DEF Matches
  <2>5. Opening(f)'
    BY <1>0, <2>1, <2>3, <2>4 DEF Opening, ActiveAhead, logVars
  <2>6. Opened(f)' /\ InBatch(f)'
    BY <2>1, <2>2 DEF FollowerInv, Opened, InBatch
  <2> QED
    BY <2>2, <2>5, <2>6 DEF FollowerInv
<1> QED
  BY <1>1, <1>2

\* The position of an offset that the file reaches covers everything up to it.
LEMMA AtFull ==
    ASSUME LogTypeOK, NEW f \in Files, NEW offset \in 1..MaxLines, files[f].size >= offset
    PROVE  Floor(At(f, offset)) = <<files[f].text, offset>>
<1>1. files[f].size \in Nat /\ offset \in Nat /\ AnchorLines \in Nat \ {0}
  BY LogNumbers, SourceLogAssumption, FollowerAssumption
<1>2. At(f, offset).anchor = "full"
  BY <1>1 DEF At
<1> QED
  BY <1>2 DEF Floor, At

\* The archive behind the matched name is read on, or a newer one from where the
\* old one ended.
LEMMA ReopenArchiveInv ==
    ASSUME TypeOK, LogInv, NEW f \in Followers, FollowerInv(f), ReopenArchive(f)
    PROVE  FollowerInv(f)'
<1> DEFINE c == Candidate(k[f])
           p == position[f]
<1>0. /\ k[f] \in Nat /\ k[f] > 0 /\ c \in Files \cup {None} /\ p \in Positions
      /\ p.anchor = "full" /\ LogTypeOK /\ Sound(p)
  BY CandidateType DEF TypeOK, ReopenArchive, FollowerInv, Opening
<1>1. CASE c = None
  BY <1>1, EndPollInv DEF ReopenArchive
<1>2. CASE c # None
  <2>1. c \in Files /\ p.offset \in 1..MaxLines /\ p.offset \in 0..MaxLines
    BY <1>0, <1>2, PositionNumbers DEF Sound
  <2>2. /\ files[c].text >= p.text
        /\ files[c].text = p.text => files[c].size >= p.offset
        /\ files[c].text # 0
    <3>1. Len(archives) \in Nat /\ k[f] \in 1..Len(archives) /\ c = archives[k[f]]
      BY <1>0, <1>2, ArchiveType DEF Candidate
    <3> QED
      BY <1>0, <3>1 DEF ReopenArchive, FollowerInv, Opening, LogInv
  <2>3. /\ At(c, p.offset) \in Positions /\ Sound(At(c, p.offset))
        /\ At(c, p.offset).file = c /\ At(c, p.offset).text = files[c].text
    BY <1>0, <2>1, <2>2, AtType, AtSound
  <2>4. NotAfter(Floor(p), Floor(At(c, p.offset)))
    <3>1. files[c].text \in Nat /\ p.text \in Nat
      BY <1>0, <2>1, LogNumbers, PositionNumbers
    <3>2. CASE files[c].text = p.text
      BY <1>0, <2>1, <2>2, <3>2, AtFull DEF Floor, NotAfter
    <3>3. CASE files[c].text # p.text
      BY <2>2, <2>3, <3>1, <3>3 DEF Floor, NotAfter, Before
    <3> QED
      BY <3>2, <3>3
  <2>5. EndOpen(f, c, At(c, p.offset)) /\ UNCHANGED position /\ UNCHANGED logVars
    BY <1>2 DEF ReopenArchive
  <2> QED
    BY <2>1, <2>3, <2>4, <2>5, EndOpenInv
<1> QED
  BY <1>1, <1>2

\* A file read from its start covers nothing of its text yet.
LEMMA AtStart ==
    ASSUME NEW f \in Files
    PROVE  Floor(At(f, 0)) = <<files[f].text, 0>>
BY DEF Floor, At

LEMMA OpenFreshInv ==
    ASSUME TypeOK, LogInv, NEW f \in Followers, FollowerInv(f), OpenFresh(f)
    PROVE  FollowerInv(f)'
<1>1. CASE active = None
  BY <1>1, EndPollInv DEF OpenFresh
<1>2. CASE active # None
  <2>1. active \in Files /\ 0 \in 0..MaxLines /\ files[active].text # 0
    BY <1>2, LogNumbers, SourceLogAssumption DEF TypeOK, LogInv
  <2>2. /\ At(active, 0) \in Positions /\ Sound(At(active, 0)) /\ At(active, 0).file = active
    BY <2>1, AtType, AtSound DEF TypeOK
  <2>3. NotAfter(Floor(position[f]), Floor(At(active, 0)))
    BY <1>2, <2>1, AtStart DEF OpenFresh, FollowerInv, Opening, ActiveAhead
  <2>4. EndOpen(f, active, At(active, 0)) /\ UNCHANGED position /\ UNCHANGED logVars
    BY <1>2 DEF OpenFresh
  <2> QED
    BY <2>1, <2>2, <2>3, <2>4, EndOpenInv
<1> QED
  BY <1>1, <1>2

-----------------------------------------------------------------------------
\* A poll that goes on with its open file as it was.
LEMMA VerifiedInv ==
    ASSUME UNCHANGED logVars, NEW f \in Followers, FollowerInv(f), working[f] # NoPosition,
           pc'[f] \in {"verify", "read"}, UNCHANGED <<handle, working, position>>
    PROVE  FollowerInv(f)'
<1>1. Sound(position[f])' /\ Sound(working[f])'
  BY DEF FollowerInv, Opened, Sound, logVars
<1>2. Opening(f)' /\ InBatch(f)'
  BY DEF Opening, InBatch
<1>3. Opened(f)'
  BY <1>1 DEF FollowerInv, Opened
<1> QED
  BY <1>1, <1>2, <1>3 DEF FollowerInv

\* A poll starts from an open file, or opens one.
LEMMA PollStartInv ==
    ASSUME TypeOK, LogInv, NEW f \in Followers, FollowerInv(f), PollStart(f)
    PROVE  FollowerInv(f)'
<1>1. CASE handle[f] = None
  <2>1. BeginOpen(f, 3) /\ UNCHANGED logVars /\ 3 \in 0..3
    BY <1>1 DEF PollStart
  <2> QED
    BY <2>1, BeginOpenInv
<1>2. CASE handle[f] # None
  <2>1. /\ pc'[f] = "verify" /\ working[f] # NoPosition
        /\ UNCHANGED <<handle, working, position>> /\ UNCHANGED logVars
    BY <1>2 DEF PollStart, Goto, TypeOK
  <2> QED
    BY <2>1, VerifiedInv
<1> QED
  BY <1>1, <1>2

\* It reads the open file, or opens again.
LEMMA VerifyInv ==
    ASSUME TypeOK, LogInv, NEW f \in Followers, FollowerInv(f), Verify(f)
    PROVE  FollowerInv(f)'
<1>1. CASE ~Matches(handle[f], working[f])
  <2>1. BeginOpen(f, 1) /\ UNCHANGED logVars /\ 1 \in 0..3
    BY <1>1 DEF Verify
  <2> QED
    BY <2>1, BeginOpenInv
<1>2. CASE Matches(handle[f], working[f])
  <2>1. /\ pc'[f] = "read" /\ working[f] # NoPosition
        /\ UNCHANGED <<handle, working, position>> /\ UNCHANGED logVars
    BY <1>2 DEF Verify, Goto, TypeOK, FollowerInv, Opened
  <2> QED
    BY <2>1, VerifiedInv
<1> QED
  BY <1>1, <1>2

\* The lines read begin after the working offset and end within the file.
LEMMA ReadInv ==
    ASSUME TypeOK, LogInv, NEW f \in Followers, FollowerInv(f), Read(f)
    PROVE  FollowerInv(f)'
<1> DEFINE h == handle[f]
           w == working[f]
<1>0. /\ h \in Files /\ w.file = h /\ w # NoPosition /\ w \in Positions
      /\ files[h].text \in Nat /\ files[h].size \in Nat /\ w.offset \in Nat /\ w.text \in Nat
  BY FileIsOpen, LogNumbers, PositionNumbers DEF Read, FollowerInv, Opened, TypeOK
<1>1. /\ UNCHANGED <<handle, working, position>> /\ UNCHANGED logVars
      /\ pc'[f] \in {"check", "stat"}
  BY DEF Read, Goto, TypeOK
<1>2. Sound(position[f])' /\ Sound(working[f])'
  BY <1>1 DEF FollowerInv, Opened, Sound, logVars
<1>3. Opening(f)' /\ Opened(f)'
  BY <1>0, <1>1, <1>2 DEF FollowerInv, Opening, Opened
<1>4. ASSUME pc'[f] = "check"
      PROVE  InBatch(f)'
  <2>1. /\ files[h].size > w.offset
        /\ batch'[f] = [text |-> files[h].text, first |-> w.offset + 1,
                        last |-> BatchEnd(h, w.offset)]
    BY <1>4 DEF Read, Goto, TypeOK
  <2>2. /\ BatchEnd(h, w.offset) >= w.offset + 1
        /\ files[h].size >= BatchEnd(h, w.offset)
    BY <1>0, <2>1, FollowerAssumption DEF BatchEnd
  <2>3. files[h].text >= w.text
    BY <1>0 DEF FollowerInv, Opened, Sound, Files, None
  <2>4. /\ batch'[f].first = w.offset + 1 /\ batch'[f].last = BatchEnd(h, w.offset)
        /\ batch'[f].text = files[h].text
    BY <2>1
  <2> QED
    BY <1>0, <1>1, <1>4, <2>2, <2>3, <2>4 DEF InBatch, logVars
<1>5. ASSUME pc'[f] = "stat"
      PROVE  InBatch(f)'
  BY <1>5 DEF InBatch
<1> QED
  BY <1>1, <1>2, <1>3, <1>4, <1>5 DEF FollowerInv

\* A file other than the open one, under the active name, holds newer text.
LEMMA StatActiveInv ==
    ASSUME TypeOK, LogInv, NEW f \in Followers, FollowerInv(f), StatActive(f)
    PROVE  FollowerInv(f)'
<1>1. CASE active = None \/ active = handle[f]
  BY <1>1, EndPollInv DEF StatActive
<1>2. CASE ~(active = None \/ active = handle[f])
  <2>0. /\ handle[f] \in Files /\ working[f].file = handle[f] /\ working[f] # NoPosition
        /\ working[f] \in Positions /\ working[f].text \in Nat
    BY FileIsOpen, PositionNumbers DEF StatActive, FollowerInv, Opened, TypeOK
  <2>1. /\ UNCHANGED <<handle, working, position>> /\ UNCHANGED logVars
        /\ pc'[f] = "switch"
    BY <1>2 DEF StatActive, Goto, TypeOK
  <2>2. Sound(position[f])' /\ Sound(working[f])'
    BY <2>1 DEF FollowerInv, Opened, Sound, logVars
  <2>3. /\ active \in Files /\ active # handle[f] /\ active # None
        /\ newest \in Nat /\ newest >= 1
        /\ files[active].text \in Nat /\ files[handle[f]].text \in Nat
    BY <1>2, <2>0, LogNumbers DEF TypeOK
  <2>4. /\ files[active].text = newest /\ files[handle[f]].text <= newest
        /\ files[handle[f]].text # files[active].text
    BY <2>0, <2>3 DEF LogInv
  <2>5. files[handle[f]].text >= working[f].text
    BY <2>0 DEF FollowerInv, Opened, Sound, Files, None
  <2>6. files[active].text > working[f].text
    BY <2>0, <2>3, <2>4, <2>5
  <2>7. Opening(f)' /\ InBatch(f)'
    BY <2>1 DEF Opening, InBatch
  <2>8. Opened(f)'
    BY <2>0, <2>1, <2>2, <2>6 DEF FollowerInv, Opened, logVars
  <2> QED
    BY <2>2, <2>7, <2>8 DEF FollowerInv
<1> QED
  BY <1>1, <1>2

\* The replacement is read from its start, past everything of the old file.
LEMMA SwitchFileInv ==
    ASSUME TypeOK, LogInv, NEW f \in Followers, FollowerInv(f), SwitchFile(f)
    PROVE  FollowerInv(f)'
<1>1. CASE active = None
  BY <1>1, EndPollInv DEF SwitchFile
<1>2. CASE active # None
  <2> DEFINE p == At(active, 0)
  <2>0. /\ active \in Files /\ 0 \in 0..MaxLines /\ files[active].text \in Nat
        /\ position[f] \in Positions /\ working[f] \in Positions
        /\ position[f].text \in Nat /\ working[f].text \in Nat
        /\ files[active].text # 0
    BY <1>2, LogNumbers, PositionNumbers, SourceLogAssumption DEF TypeOK, LogInv
  <2>1. /\ p \in Positions /\ Sound(p) /\ p.file = active /\ p # NoPosition
    BY <1>2, <2>0, AtType, AtSound DEF TypeOK, NoPosition
  <2>2. /\ handle'[f] = active /\ working'[f] = p /\ position' = position
        /\ UNCHANGED logVars /\ pc'[f] \in {"idle", "read"}
    BY <1>2 DEF SwitchFile, SetHandle, EndPoll, Goto, TypeOK
  <2>3. Sound(position[f])' /\ Sound(working[f])'
    BY <2>1, <2>2 DEF FollowerInv, Sound, logVars
  <2>4. files[active].text > working[f].text /\ NotAfter(Floor(position[f]), Floor(working[f]))
    BY <1>2 DEF SwitchFile, FollowerInv, Opened
  <2>5. NotAfter(Floor(position[f]), Floor(p))
    <3>1. position[f].text <= working[f].text
      BY <2>0, <2>4 DEF NotAfter, Before, Floor
    <3> QED
      BY <2>0, <2>4, <3>1, AtStart DEF NotAfter, Before, Floor
  <2>6. Opening(f)' /\ InBatch(f)'
    BY <2>2 DEF Opening, InBatch
  <2>7. Opened(f)'
    BY <1>2, <2>1, <2>2, <2>3, <2>5 DEF Opened
  <2> QED
    BY <2>3, <2>6, <2>7 DEF FollowerInv
<1> QED
  BY <1>1, <1>2

\* The lines kept after the check follow everything the saved position covers.
LEMMA RecheckInv ==
    ASSUME TypeOK, LogInv, NEW f \in Followers, FollowerInv(f), Recheck(f)
    PROVE  FollowerInv(f)'
<1>1. CASE Matches(handle[f], working[f])
  <2>0. /\ working[f] \in Positions /\ position[f] \in Positions /\ batch[f] \in Batches
        /\ working[f] # NoPosition
    BY DEF TypeOK, Recheck, FollowerInv, Opened
  <2>1. /\ UNCHANGED <<handle, working, position, batch>> /\ UNCHANGED logVars
        /\ pc'[f] = "at"
    BY <1>1 DEF Recheck, pollVars, Goto, TypeOK
  <2>2. Sound(position[f])' /\ Sound(working[f])'
    BY <2>1 DEF FollowerInv, Opened, Sound, logVars
  <2>3. Opening(f)' /\ Opened(f)'
    BY <2>0, <2>1, <2>2 DEF Opening, FollowerInv, Opened
  <2>4. Before(Floor(position[f]), <<batch[f].text, batch[f].first>>)
    <3>1. /\ NotAfter(Floor(position[f]), Floor(working[f]))
          /\ batch[f].first = working[f].offset + 1 /\ batch[f].text >= working[f].text
      BY <2>0 DEF Recheck, FollowerInv, Opened, InBatch
    <3>2. /\ batch[f].text \in Nat /\ batch[f].first \in Nat
          /\ working[f].text \in Nat /\ working[f].offset \in Nat
      BY <2>0, BatchNumbers, PositionNumbers
    <3>3. Before(Floor(working[f]), <<batch[f].text, batch[f].first>>)
      BY <3>1, <3>2 DEF Floor, Before
    <3>4. /\ Floor(position[f]) \in Nat \X Nat /\ Floor(working[f]) \in Nat \X Nat
          /\ <<batch[f].text, batch[f].first>> \in Nat \X Nat
      BY <2>0, <3>2, FloorType
    <3> QED
      BY <3>1, <3>3, <3>4, OrderTransitive
  <2>5. InBatch(f)'
    BY <2>1, <2>4 DEF Recheck, FollowerInv, InBatch, logVars
  <2> QED
    BY <2>2, <2>3, <2>5 DEF FollowerInv
<1>2. CASE ~Matches(handle[f], working[f])
  <2>1. BeginOpen(f, 0) /\ UNCHANGED logVars /\ 0 \in 0..3
    BY <1>2 DEF Recheck
  <2> QED
    BY <2>1, BeginOpenInv
<1> QED
  BY <1>1, <1>2

\* The position to be committed covers the lines read, or a newer text.
LEMMA TakePositionInv ==
    ASSUME TypeOK, LogInv, NEW f \in Followers, FollowerInv(f), TakePosition(f)
    PROVE  FollowerInv(f)'
<1> DEFINE h == handle[f]
           b == batch[f]
           p == At(h, b.last)
<1>0. /\ h \in Files /\ b \in Batches /\ b.text \in Nat /\ b.first \in Nat /\ b.last \in Nat
      /\ b.last \in 0..MaxLines /\ files[h].text \in Nat /\ files[h].size \in Nat
      /\ working[f] # NoPosition /\ working[f].offset \in Nat
  BY FileIsOpen, BatchNumbers, LogNumbers, PositionNumbers
  DEF TakePosition, TypeOK, FollowerInv, Opened
<1>1. /\ b.first = working[f].offset + 1 /\ b.first <= b.last
      /\ b.text <= files[h].text
      /\ b.text = files[h].text => files[h].size >= b.last
  BY DEF TakePosition, FollowerInv, InBatch
<1>2. p \in Positions /\ Sound(p) /\ p.file = h /\ p.text = files[h].text
  <2>1. b.text >= working[f].text /\ working[f].text > 0 /\ working[f].text \in Nat
    BY <1>0, FileIsOpen, PositionNumbers
    DEF TakePosition, FollowerInv, InBatch, Opened, Sound, TypeOK, Files, None
  <2>2. files[h].text # 0
    BY <1>0, <1>1, <2>1
  <2> QED
    BY <1>0, <2>2, AtType, AtSound DEF TypeOK
<1>3. NotAfter(<<b.text, b.last>>, Floor(p))
  <2>1. CASE b.text = files[h].text
    <3>1. b.last \in 1..MaxLines
      BY <1>0, <1>1, SourceLogAssumption
    <3> QED
      BY <1>0, <1>1, <2>1, <3>1, AtFull DEF TypeOK, NotAfter
  <2>2. CASE b.text # files[h].text
    BY <1>0, <1>1, <1>2, <2>2 DEF NotAfter, Before, Floor
  <2> QED
    BY <2>1, <2>2
<1>4. /\ UNCHANGED <<handle, working, position, batch>> /\ UNCHANGED logVars
      /\ pc'[f] = "commit" /\ next'[f] = p
  BY DEF TakePosition, Goto, TypeOK
<1>5. Sound(position[f])' /\ Sound(working[f])' /\ Sound(next[f])'
  BY <1>2, <1>4 DEF FollowerInv, Opened, Sound, logVars
<1>6. Opening(f)' /\ Opened(f)'
  BY <1>0, <1>4, <1>5 DEF Opening, FollowerInv, Opened
<1>7. InBatch(f)'
  BY <1>2, <1>3, <1>4, <1>5 DEF TakePosition, FollowerInv, InBatch, logVars
<1> QED
  BY <1>5, <1>6, <1>7 DEF FollowerInv

\* After a commit the follower goes on from what it has committed.
LEMMA CommitInv ==
    ASSUME TypeOK, NEW f \in Followers, FollowerInv(f), Commit(f)
    PROVE  FollowerInv(f)'
<1>1. /\ pc[f] = "commit" /\ pc'[f] = "idle" /\ handle' = handle
      /\ position'[f] = next[f] /\ working'[f] = next[f] /\ UNCHANGED logVars
  BY DEF Commit, Transaction, EndPoll, Goto, TypeOK
<1>2. Sound(next[f]) /\ next[f].file = handle[f] /\ handle[f] \in Files
  BY <1>1, FileIsOpen DEF FollowerInv, InBatch
<1>3. Sound(position[f])' /\ Sound(working[f])'
  BY <1>1, <1>2 DEF Sound, logVars
<1>4. handle'[f] # None /\ NotAfter(Floor(next[f]), Floor(next[f]))
  BY <1>1, <1>2 DEF Files, None, NotAfter
<1> QED
  BY <1>1, <1>2, <1>3, <1>4, IdleInv

\* A poll that fails leaves its file open as it was, or closes it and goes back
\* to the saved cursor.
LEMMA FailureInv ==
    ASSUME TypeOK, Sound(cursor), NEW f \in Followers, FollowerInv(f),
           CommitRejected(f) \/ Failure(f)
    PROVE  FollowerInv(f)'
<1>0. f \in Followers /\ position \in [Followers -> Positions]
  BY DEF TypeOK
<1>1. CASE AfterCommitRaises(f)
  BY <1>1, EndPollInv DEF AfterCommitRaises, Transaction
<1>2. CASE PollRaises(f)
  BY <1>2, EndPollInv DEF PollRaises
<1>3. CASE Crash(f) \/ CommitFails(f) \/ CommitRejected(f)
  <2>1. /\ EndPoll(f) /\ Close(f) /\ UNCHANGED logVars
        /\ position' = [position EXCEPT ![f] = cursor]
    BY <1>3 DEF Crash, CommitFails, CommitRejected, RolledBack
  <2>2. Sound(position[f])'
    BY <1>0, <2>1 DEF Sound, logVars
  <2> QED
    BY <2>1, <2>2, ClosedInv
<1>4. CASE AnchorReadFails(f)
  <2>1. /\ pc'[f] = "idle" /\ working'[f] = NoPosition /\ position' = position
        /\ UNCHANGED logVars
    BY <1>4 DEF AnchorReadFails, SetHandle, EndPoll, Goto, TypeOK
  <2>2. Sound(position[f])' /\ Sound(working[f])'
    BY <2>1, NoPositionSound DEF FollowerInv, TypeOK, Sound, NoPosition, None, logVars
  <2> QED
    BY <2>1, <2>2, IdleInv
<1> QED
  BY <1>1, <1>2, <1>3, <1>4 DEF Failure

-----------------------------------------------------------------------------
\* What the transaction of a batch leaves: its lines follow everything that was
\* stored, and the new cursor covers them.
LEMMA TransactionStores ==
    ASSUME TypeOK, StoredBehindCursor, AtMostOnce, Sound(cursor),
           NEW f \in Followers, FollowerInv(f), Transaction(f), UNCHANGED logVars
    PROVE  Sound(cursor)' /\ StoredBehindCursor' /\ AtMostOnce'
<1> DEFINE b == batch[f]
           n == next[f]
           InB(l) == l[1] = b.text /\ l[2] \in b.first..b.last
<1>0. /\ cursor \in Positions /\ n \in Positions /\ b \in Batches
      /\ b.text \in Nat /\ b.first \in Nat /\ b.last \in Nat /\ b.first <= b.last
      /\ cursor = position[f] /\ cursor' = n
      /\ stored \in [Lines -> Nat]
      /\ \A l \in Lines : stored'[l] = IF InB(l) THEN stored[l] + 1 ELSE stored[l]
  BY BatchNumbers DEF Transaction, CursorAccepts, TypeOK, FollowerInv, InBatch
<1>1. /\ Floor(cursor) \in Nat \X Nat /\ Floor(n) \in Nat \X Nat
      /\ <<b.text, b.first>> \in Nat \X Nat /\ <<b.text, b.last>> \in Nat \X Nat
      /\ Lines \subseteq Nat \X Nat
  BY <1>0, FloorType, SourceLogAssumption DEF Lines, Texts
<1>2. /\ Before(Floor(cursor), <<b.text, b.first>>)
      /\ NotAfter(<<b.text, b.last>>, Floor(n))
      /\ NotAfter(<<b.text, b.first>>, <<b.text, b.last>>)
  BY <1>0 DEF Transaction, FollowerInv, InBatch, NotAfter, Before
<1>3. ASSUME NEW l \in Lines, InB(l)
      PROVE  stored[l] = 0 /\ NotAfter(l, Floor(n))
  <2>1. l \in Nat \X Nat
    BY <1>1
  <2>2. NotAfter(<<b.text, b.first>>, l) /\ NotAfter(l, <<b.text, b.last>>)
    BY <1>0, <1>3, <2>1 DEF NotAfter, Before
  <2>3. Before(Floor(cursor), l)
    BY <1>1, <1>2, <2>1, <2>2, OrderTransitive
  <2>4. ~NotAfter(l, Floor(cursor)) /\ NotAfter(l, Floor(n))
    BY <1>1, <1>2, <2>1, <2>2, <2>3, OrderTransitive
  <2> QED
    BY <1>0, <1>3, <2>4 DEF StoredBehindCursor
<1>4. ASSUME NEW l \in Lines, NotAfter(l, Floor(cursor))
      PROVE  NotAfter(l, Floor(n))
  <2>1. l \in Nat \X Nat
    BY <1>1
  <2>2. Before(Floor(cursor), Floor(n))
    BY <1>1, <1>2, OrderTransitive
  <2> QED
    BY <1>1, <1>4, <2>1, <2>2, OrderTransitive DEF NotAfter
<1>5. AtMostOnce'
  <2>1. ASSUME NEW l \in Lines
        PROVE  stored'[l] <= 1
    BY <1>0, <1>3, <2>1 DEF AtMostOnce
  <2> QED
    BY <2>1 DEF AtMostOnce
<1>6. StoredBehindCursor'
  <2>1. ASSUME NEW l \in Lines, stored'[l] > 0
        PROVE  NotAfter(l, Floor(n))
    BY <1>0, <1>3, <1>4, <2>1 DEF StoredBehindCursor
  <2> QED
    BY <1>0, <2>1 DEF StoredBehindCursor
<1>7. Sound(cursor)'
  BY <1>0 DEF Transaction, FollowerInv, InBatch, Sound, logVars
<1> QED
  BY <1>5, <1>6, <1>7

\* A step of one consumer keeps the invariant.
LEMMA ConsumerStep ==
    ASSUME IInv, NEW f \in Followers, Poll(f) \/ Failure(f)
    PROVE  (LogInv /\ Sound(cursor) /\ StoredBehindCursor /\ AtMostOnce
            /\ \A g \in Followers : FollowerInv(g))'
<1>0. TypeOK /\ LogInv /\ FollowerInv(f) /\ Sound(cursor)
  BY DEF IInv
<1>1. UNCHANGED logVars
  BY DEF Poll, Failure, PollStart, Verify, ScanIdentity, ScanAnchor, ReopenArchive, OpenFresh, Read,
         StatActive, SwitchFile, Recheck, TakePosition, Commit, CommitRejected, RolledBack,
         CommitFails, AfterCommitRaises, PollRaises, AnchorReadFails, Crash
<1>2. FollowerInv(f)'
  BY <1>0, PollStartInv, VerifyInv, ScanIdentityInv, ScanAnchorInv, ReopenArchiveInv, OpenFreshInv,
     ReadInv, StatActiveInv, SwitchFileInv, RecheckInv, TakePositionInv, CommitInv, FailureInv
  DEF Poll
<1>3. ASSUME NEW g \in Followers, g # f
      PROVE  FollowerInv(g)'
  <2>1. SameMemory(g)
    <3>1. CASE \/ PollStart(f) \/ Verify(f) \/ ScanIdentity(f) \/ ScanAnchor(f)
               \/ ReopenArchive(f) \/ OpenFresh(f)
      BY <1>0, <1>3, <3>1
      DEF SameMemory, TypeOK, PollStart, Verify, ScanIdentity, ScanAnchor, ReopenArchive,
          OpenFresh, BeginOpen, EndOpen, EndPoll, Close, SetHandle, Goto, pollVars
    <3>3. CASE \/ Read(f) \/ StatActive(f) \/ SwitchFile(f) \/ Recheck(f) \/ TakePosition(f)
               \/ Commit(f) \/ CommitRejected(f)
      BY <1>0, <1>3, <3>3
      DEF SameMemory, TypeOK, Read, StatActive, SwitchFile, Recheck, TakePosition, Commit,
          Transaction, CommitRejected, RolledBack, BeginOpen, EndPoll, Close, SetHandle, Goto,
          pollVars
    <3>2. CASE Failure(f)
      BY <1>0, <1>3, <3>2
      DEF SameMemory, TypeOK, Failure, CommitFails, RolledBack, AfterCommitRaises, Transaction,
          PollRaises, AnchorReadFails, Crash, EndPoll, Close, SetHandle, Goto
    <3> QED
      BY <3>1, <3>2, <3>3 DEF Poll
  <2> QED
    BY <1>1, <2>1, OtherFollower DEF IInv
<1>4. LogInv'
  BY <1>0, <1>1 DEF LogInv, logVars
<1>5. Sound(cursor)' /\ StoredBehindCursor' /\ AtMostOnce'
  <2>1. CASE Transaction(f)
    BY <1>0, <1>1, <2>1, TransactionStores DEF IInv
  <2>2. CASE UNCHANGED dbVars
    BY <1>0, <1>1, <2>2 DEF IInv, Sound, StoredBehindCursor, AtMostOnce, dbVars, logVars
  <2>3. Transaction(f) \/ UNCHANGED dbVars
    BY DEF Poll, Failure, PollStart, Verify, ScanIdentity, ScanAnchor, ReopenArchive, OpenFresh,
           Read, StatActive, SwitchFile, Recheck, TakePosition, Commit, CommitRejected, RolledBack,
           CommitFails, AfterCommitRaises, PollRaises, AnchorReadFails, Crash
  <2> QED
    BY <2>1, <2>2, <2>3
<1> QED
  BY <1>2, <1>3, <1>4, <1>5

\* A step of the decoder or of logrotate keeps the invariant.
LEMMA EnvironmentStep ==
    ASSUME IInv, TypeOK', Environment
    PROVE  IInv'
<1>1. TypeOK /\ LogTypeOK /\ LogTypeOK' /\ LogInv /\ cursor \in Positions
  BY DEF IInv, TypeOK
<1>2. LogInv' /\ Grown /\ Shifted
  BY <1>1, LogStep DEF Environment, Rotate, Empty
<1>3. Sound(cursor)'
  BY <1>1, <1>2, SoundGrows DEF IInv, Environment, dbVars, Sound
<1>4. StoredBehindCursor' /\ AtMostOnce'
  BY DEF IInv, StoredBehindCursor, AtMostOnce, Environment, dbVars
<1>5. ASSUME NEW f \in Followers
      PROVE  FollowerInv(f)'
  <2>1. SameMemory(f)
    BY DEF SameMemory, Environment, memoryVars
  <2> QED
    BY <1>1, <1>2, <2>1, FollowerLogStep DEF IInv
<1> QED
  BY <1>2, <1>3, <1>4, <1>5 DEF IInv

LEMMA InitInv == Init => IInv
<1> SUFFICES ASSUME Init PROVE IInv
  OBVIOUS
<1>1. TypeOK
  BY InitType
<1>2. LogInv
  BY <1>1 DEF Init, LogInit, LogInv, TypeOK, LogTypeOK, Files, Texts, None
<1>3. Sound(NoPosition)
  BY <1>1, NoPositionSound DEF TypeOK
<1>4. StoredBehindCursor /\ AtMostOnce
  BY DEF Init, StoredBehindCursor, AtMostOnce
<1>5. ASSUME NEW f \in Followers
      PROVE  FollowerInv(f)
  BY <1>3 DEF Init, FollowerInv, Opening, Opened, InBatch
<1>6. Sound(cursor)
  BY <1>3 DEF Init
<1> QED
  BY <1>1, <1>2, <1>4, <1>5, <1>6 DEF IInv

\* The invariant is inductive.
LEMMA StepInv == IInv /\ [Next]_vars => IInv'
<1> SUFFICES ASSUME IInv, [Next]_vars PROVE IInv'
  OBVIOUS
<1>1. TypeOK'
  BY StepType DEF IInv
<1>2. CASE Next
  BY <1>1, <1>2, ConsumerStep, EnvironmentStep DEF Next, IInv
<1>3. CASE UNCHANGED vars
  <2>1. UNCHANGED logVars /\ UNCHANGED dbVars /\ \A f \in Followers : SameMemory(f)
    BY <1>3 DEF vars, memoryVars, SameMemory
  <2>2. \A f \in Followers : FollowerInv(f)'
    BY <2>1, OtherFollower DEF IInv
  <2> QED
    BY <1>1, <2>1, <2>2
    DEF IInv, LogInv, Sound, StoredBehindCursor, AtMostOnce, logVars, dbVars
<1> QED
  BY <1>2, <1>3

\* What relates the saved cursor, the memory of each follower, the rows and the files of
\* the log, at any step of any poll (wsjtx/file_input.py, ingest_file_batch).
THEOREM Invariant == Spec => []IInv
BY InitInv, StepInv, PTL DEF Spec

\* Every variable keeps its type: no offset leaves a file, no position is taken
\* from a file that is not there, whatever fails or rotates.
THEOREM TypeCorrect == Spec => []TypeOK
<1>1. IInv => TypeOK
  BY DEF IInv
<1> QED
  BY <1>1, Invariant, PTL

\* ingest_file_batch never stores a received line twice, with any number of
\* consumers, through crashes, failed calls, rotation and truncation.
THEOREM NoLineTwice == Spec => []AtMostOnce
<1>1. IInv => AtMostOnce
  BY DEF IInv
<1> QED
  BY <1>1, Invariant, PTL

\* The saved cursor covers every stored row, so a restart from it repeats none.
THEOREM CursorCoversRows == Spec => []StoredBehindCursor
<1>1. IInv => StoredBehindCursor
  BY DEF IInv
<1> QED
  BY <1>1, Invariant, PTL

-----------------------------------------------------------------------------
\* The transaction of a batch is a step of the abstract import.
LEMMA TransactionImports ==
    ASSUME IInv, TypeOK', Sound(cursor)', NEW f \in Followers, Transaction(f)
    PROVE  Import!Next
<1> DEFINE b == batch[f]
           n == next[f]
           first == <<b.text, b.first>>
           last == <<b.text, b.last>>
<1>1. /\ FollowerInv(f) /\ pc[f] = "commit" /\ cursor = position[f] /\ cursor' = n
      /\ cursor \in Positions /\ n \in Positions /\ b \in Batches
      /\ b.text \in Nat /\ b.first \in Nat /\ b.last \in Nat /\ b.last \in 0..MaxLines
  BY BatchNumbers DEF Transaction, CursorAccepts, IInv, TypeOK
<1>2. /\ working[f] # NoPosition /\ handle[f] \in Files /\ working[f].file = handle[f]
      /\ working[f].text > 0 /\ working[f].text \in Nat /\ working[f].offset \in Nat
  BY <1>1, FileIsOpen, PositionNumbers
  DEF FollowerInv, Opened, Sound, IInv, TypeOK, Files, None
<1>3. /\ b.first = working[f].offset + 1 /\ b.first <= b.last /\ b.text >= working[f].text
      /\ b.text <= files[handle[f]].text
      /\ Before(Floor(cursor), first) /\ NotAfter(last, Floor(n))
  BY <1>1 DEF FollowerInv, InBatch
<1>4. files[handle[f]].text \in 0..MaxTexts /\ n.text \in 0..MaxTexts /\ n.offset \in 0..MaxLines
  BY <1>1, <1>2 DEF IInv, TypeOK, LogTypeOK, Positions
<1>5. first \in Lines /\ last \in Lines
  <2>1. b.text \in 1..MaxTexts /\ b.first \in 1..MaxLines /\ b.last \in 1..MaxLines
    BY <1>1, <1>2, <1>3, <1>4, SourceLogAssumption
  <2> QED
    BY <2>1 DEF Lines, Texts
<1>6. Floor(n) \in Import!Marks
  <2>1. n.text \in Texts
    <3>1. n.text >= b.text
      BY <1>1, <1>3, <1>4 DEF Floor, NotAfter, Before
    <3> QED
      BY <1>1, <1>2, <1>3, <1>4, <3>1, SourceLogAssumption DEF Texts
  <2>2. CASE n.anchor = "full"
    <3>1. n.offset \in 1..MaxLines
      BY <1>1, <1>4, <2>2, SourceLogAssumption DEF FollowerInv, InBatch, Sound
    <3> QED
      BY <2>1, <2>2, <3>1 DEF Floor, Import!Marks, Lines
  <2>3. CASE n.anchor # "full"
    <3>1. <<n.text, 1>> \in Lines /\ <<n.text, 1>>[1] = n.text
      BY <2>1, SourceLogAssumption DEF Lines
    <3> QED
      BY <2>3, <3>1 DEF Floor, Import!Marks
  <2> QED
    BY <2>2, <2>3
<1>7. Floor(n) # Floor(cursor)
  <2>1. Floor(cursor) \in Nat \X Nat /\ Floor(n) \in Nat \X Nat /\ first \in Nat \X Nat
        /\ last \in Nat \X Nat
    BY <1>1, FloorType
  <2> QED
    BY <1>1, <1>3, <2>1 DEF NotAfter, Before
<1>8. Import!StoreLines(b.text, b.first, b.last)
  <2>1. Floor(cursor)' = Floor(n)
    BY <1>1 DEF Floor
  <2>2. Import!Earlier(Floor(cursor), first)
    BY <1>3 DEF Before, Import!Earlier
  <2>3. Floor(n) = last \/ Import!Earlier(last, Floor(n))
    BY <1>3 DEF NotAfter, Before, Import!Earlier
  <2> QED
    BY <2>1, <2>2, <2>3 DEF Import!StoreLines, Transaction
<1>9. Floor(cursor)' = Floor(n)
  BY <1>1 DEF Floor
<1>10. /\ first[1] = b.text /\ first[2] = b.first /\ last[1] = b.text /\ last[2] = b.last
  OBVIOUS
<1> QED
  BY <1>3, <1>5, <1>6, <1>7, <1>8, <1>9, <1>10 DEF Import!Next

\* Every step is a step of the abstract import, or none of its business.
LEMMA StepImports == IInv /\ IInv' /\ [Next]_vars => [Import!Next]_(Import!importVars)
<1> SUFFICES ASSUME IInv, IInv', [Next]_vars PROVE [Import!Next]_(Import!importVars)
  OBVIOUS
<1>1. ASSUME UNCHANGED dbVars
      PROVE  UNCHANGED Import!importVars
  BY <1>1 DEF dbVars, Floor, Import!importVars
<1>2. ASSUME NEW f \in Followers, Poll(f) \/ Failure(f)
      PROVE  Transaction(f) \/ UNCHANGED dbVars
  BY <1>2 DEF Poll, Failure, PollStart, Verify, ScanIdentity, ScanAnchor, ReopenArchive, OpenFresh,
         Read, StatActive, SwitchFile, Recheck, TakePosition, Commit, CommitRejected, RolledBack,
         CommitFails, AfterCommitRaises, PollRaises, AnchorReadFails, Crash
<1>3. ASSUME NEW f \in Followers, Transaction(f)
      PROVE  Import!Next
  BY <1>3, TransactionImports DEF IInv
<1>4. CASE Environment
  BY <1>1, <1>4 DEF Environment
<1>5. CASE UNCHANGED vars
  BY <1>1, <1>5 DEF vars
<1> QED
  BY <1>1, <1>2, <1>3, <1>4, <1>5 DEF Next

\* The follower implements SourceImport: whatever rotates, fails or restarts,
\* lines are stored in the order of receipt, each at most once.
THEOREM ImplementsImport == Spec => ImportsInOrder
<1>1. Init => Import!Init
  BY DEF Init, Import!Init, Floor, NoPosition
<1> QED
  BY <1>1, InitInv, StepInv, StepImports, PTL DEF Spec, ImportsInOrder, Import!Spec
=============================================================================
