--------------------- MODULE FollowerCompletenessProofs ---------------------
(***************************************************************************)
(* Proofs that the follower leaves nothing out: no line behind the cursor  *)
(* is without a row, for a log that is renamed at any call of a poll, or   *)
(* truncated between polls; and the log before the one the cursor is in is *)
(* stored to its end, for a log that is renamed between polls.             *)
(***************************************************************************)
EXTENDS AllTxtFollowerProofs

\* A log that is never truncated is not truncated between polls.
LEMMA OnePolicy == ~(RenamedOnly /\ EmptiedBetween)
BY DEF RenamedOnly, EmptiedBetween

\* Rows stay.
RowsStay == \A l \in Lines : stored[l] = 1 => stored'[l] = 1

\* A file that holds a text keeps it.
TextsStay == \A g \in Files : files[g].text # 0 => files'[g].text = files[g].text

\* A step of the model keeps every row.
LEMMA StepKeepsRows ==
    ASSUME IInv, IInv', [Next]_vars
    PROVE  RowsStay
<1>1. \A l \in Lines : stored[l] \in Nat /\ stored'[l] \in Nat /\ stored'[l] <= 1
  BY DEF IInv, TypeOK, AtMostOnce
<1>2. ASSUME NEW f \in Followers, Poll(f) \/ Failure(f)
      PROVE  Transaction(f) \/ UNCHANGED dbVars
  BY <1>2 DEF Poll, Failure, PollStart, Verify, ScanIdentity, ScanAnchor, ReopenArchive, OpenFresh,
         Read, StatActive, SwitchFile, Recheck, TakePosition, Commit, CommitRejected, RolledBack,
         CommitFails, AfterCommitRaises, PollRaises, AnchorReadFails, Crash
<1>3. ASSUME NEW f \in Followers, Transaction(f)
      PROVE  RowsStay
  <2>1. \A l \in Lines : stored'[l] = stored[l] + 1 \/ stored'[l] = stored[l]
    BY <1>3 DEF Transaction
  <2> QED
    BY <1>1, <2>1 DEF RowsStay
<1>4. ASSUME UNCHANGED dbVars
      PROVE  RowsStay
  BY <1>4 DEF dbVars, RowsStay
<1> QED
  BY <1>2, <1>3, <1>4 DEF Next, Environment, vars

\* The lines that a sound position covers are lines of the log.
LEMMA CoveredLines ==
    ASSUME NEW p \in Positions, Sound(p), p # NoPosition
    PROVE  \A i \in 1..p.offset : <<p.text, i>> \in Lines
<1>1. p.text \in 0..MaxTexts /\ p.offset \in 0..MaxLines /\ p.text > 0
  BY DEF Positions, Sound
<1> QED
  BY <1>1, SourceLogAssumption DEF Lines, Texts

\* What covers only stored lines goes on to do so.
LEMMA BackedStays ==
    ASSUME NEW p \in Positions, Sound(p), Backed(p), RowsStay
    PROVE  p = NoPosition \/ (p.anchor = "full" /\ \A i \in 1..p.offset : stored'[<<p.text, i>>] = 1)
BY CoveredLines DEF Backed, AllStored, RowsStay

\* What a consumer remembers.
SameState(f) == SameMemory(f) /\ seen'[f] = seen[f]

\* Rows stay, texts stay while they matter, and names do not come to stand for a file
\* that was passed: what a consumer knows of a log at rest or in motion.
LogKeeps(f) ==
    /\ RowsStay
    /\ (RenamedOnly \/ pc[f] # "idle") => TextsStay
    /\ \A i \in Nat :
          \/ Candidate(i)' = None
          \/ Candidate(i)' = Candidate(i)
          \/ i > 0 /\ Candidate(i)' = Candidate(i - 1) /\ (EmptiedBetween => pc[f] = "idle")
          \/ i = 0 /\ Candidate(i)' \in Files /\ files[Candidate(i)'].text = 0
          \/ EmptiedBetween /\ pc[f] = "idle"

LEMMA GapFreeStays ==
    ASSUME TypeOK, TypeOK', LogInv, NEW f \in Followers, FollowerInv(f), GapFree(f),
           RenamedOnly \/ EmptiedBetween, SameState(f), LogKeeps(f)
    PROVE  GapFree(f)'
<1> DEFINE p == position[f]
           w == working[f]
<1>0. /\ p \in Positions /\ w \in Positions /\ Sound(p) /\ Sound(w)
      /\ k[f] \in Nat /\ seen[f] \in Nat
      /\ handle[f] \in Files \cup {None}
      /\ p # NoPosition => p.file \in Files /\ p.text # 0 /\ files[p.file].text # 0
  <2>1. p \in Positions /\ w \in Positions /\ Sound(p) /\ Sound(w)
    BY DEF TypeOK, FollowerInv, Opened
  <2>2. p # NoPosition => p.file \in Files /\ p.text # 0 /\ files[p.file].text # 0
    <3>1. p # NoPosition => p.file # None /\ p.text > 0 /\ files[p.file].text >= p.text
      BY <2>1 DEF Sound
    <3> QED
      BY <2>1, <3>1, PositionNumbers, LogNumbers DEF TypeOK
  <2> QED
    BY <2>1, <2>2 DEF TypeOK
<1>1. Backed(position[f])'
  BY <1>0, BackedStays DEF GapFree, LogKeeps, SameState, SameMemory, Backed, AllStored
<1>2. ReadsOn(f)'
  <2>1. working'[f].offset # 0 => Backed(working[f])'
    BY <1>0, BackedStays DEF GapFree, ReadsOn, LogKeeps, SameState, SameMemory, Backed, AllStored
  <2>2. ASSUME handle[f] \in Files, files[handle[f]].text # 0, TextsStay
        PROVE  files'[handle[f]].text = files[handle[f]].text
    BY <2>2 DEF TextsStay
  <2>3. w.offset # 0 => w # NoPosition
    BY DEF NoPosition
  <2>4. w # NoPosition => handle[f] \in Files /\ files[handle[f]].text # 0
    <3>1. w # NoPosition => w.file = handle[f] /\ w.file # None /\ w.text > 0 /\ files[w.file].text >= w.text
      BY <1>0 DEF FollowerInv, Opened, Sound
    <3> QED
      BY <1>0, <3>1, PositionNumbers, LogNumbers DEF TypeOK
  <2>5. pc[f] \in {"read", "check", "at", "commit"} => w # NoPosition /\ pc[f] # "idle"
    BY DEF FollowerInv, Opened
  <2> QED
    BY <2>1, <2>2, <2>3, <2>4, <2>5 DEF GapFree, ReadsOn, LogKeeps, SameState, SameMemory
<1>3. ASSUME RenamedOnly, p # NoPosition, NEW n \in Nat, Passed(f, n)
      PROVE  Passed(f, n)'
  <2>1. SUFFICES ASSUME NEW i \in 0..n
                 PROVE  Candidate(i)' # p.file
    BY DEF Passed, SameState, SameMemory
  <2>2. Candidate(i) # p.file /\ (i > 0 => Candidate(i - 1) # p.file) /\ i \in Nat
    BY <1>3 DEF Passed
  <2>3. p.file # None /\ files[p.file].text # 0
    BY <1>0, <1>3 DEF Files, None
  <2> QED
    BY <1>3, <2>2, <2>3, OnePolicy DEF LogKeeps
<1>4. OpensInText(f)'
  <2>1. CASE RenamedOnly
    <3>1. InItsText(position[f])'
      BY <1>0, <2>1 DEF GapFree, OpensInText, InItsText, LogKeeps, TextsStay, SameState, SameMemory
    <3>2. pc[f] \in {"scan", "anchor"} => p # NoPosition
      BY DEF GapFree, OpensInText
    <3>3. ASSUME pc[f] = "scan", k[f] > 0
          PROVE  Passed(f, k[f] - 1)'
      <4>1. k[f] - 1 \in Nat /\ Passed(f, k[f] - 1)
        BY <1>0, <2>1, <3>3 DEF GapFree, OpensInText
      <4>2. \A i \in 0..(k[f] - 1) : Candidate(i)' # position'[f].file
        BY <1>3, <2>1, <3>2, <3>3, <4>1 DEF Passed
      <4> QED
        BY <4>2 DEF Passed, SameState, SameMemory
    <3>4. ASSUME pc[f] = "anchor"
          PROVE  Passed(f, seen[f])'
      <4>1. Passed(f, seen[f])
        BY <2>1, <3>4 DEF GapFree, OpensInText
      <4>2. \A i \in 0..seen[f] : Candidate(i)' # position'[f].file
        BY <1>0, <1>3, <2>1, <3>2, <3>4, <4>1 DEF Passed
      <4> QED
        BY <4>2 DEF Passed, SameState
    <3> QED
      BY <1>0, <2>1, <3>1, <3>2, <3>3, <3>4
      DEF GapFree, OpensInText, LogKeeps, SameState, SameMemory
  <2>2. CASE EmptiedBetween
    <3>1. ASSUME pc[f] = "reopen", Candidate(k[f])' # None
          PROVE  files'[Candidate(k[f])'].text = p.text
      <4>1. k[f] > 0
        BY <3>1 DEF FollowerInv, Opening
      <4>2. Candidate(k[f])' = Candidate(k[f])
        BY <1>0, <2>2, <3>1, <4>1 DEF LogKeeps, SameState, SameMemory
      <4>3. Candidate(k[f]) \in Files
        BY <1>0, <3>1, <4>2, CandidateType DEF TypeOK
      <4>4. files[Candidate(k[f])].text = p.text /\ p.text # 0
        BY <1>0, <2>2, <3>1, <4>2 DEF GapFree, OpensInText, FollowerInv, Opening, NoPosition
      <4> QED
        BY <2>2, <3>1, <4>2, <4>3, <4>4 DEF LogKeeps, TextsStay
    <3> QED
      BY <2>2, <3>1, OnePolicy DEF GapFree, OpensInText, LogKeeps, SameState, SameMemory
  <2> QED
    BY <2>1, <2>2
<1> QED
  BY <1>1, <1>2, <1>4 DEF GapFree

-----------------------------------------------------------------------------
\* Every text outlives what is not a truncation.
LEMMA TextsOutlive ==
    ASSUME LogTypeOK, WriterOpen \/ WriterLine \/ WriterDies \/ Rename \/ Create \/ Compress
    PROVE  TextsStay
<1>1. CASE WriterLine
  BY <1>1 DEF WriterLine, TextsStay, LogTypeOK
<1>2. CASE Create
  BY <1>2 DEF Create, Unborn, TextsStay, LogTypeOK
<1> QED
  BY <1>1, <1>2 DEF WriterOpen, WriterDies, Rename, Compress, TextsStay

\* Each name keeps its file or loses it, or renaming gives it the file of the name before.
LEMMA NamesMove ==
    ASSUME LogTypeOK, NEW i \in Nat,
           WriterOpen \/ WriterLine \/ WriterDies \/ Rename \/ Create \/ Compress
    PROVE  \/ Candidate(i)' = None
           \/ Candidate(i)' = Candidate(i)
           \/ i > 0 /\ Candidate(i)' = Candidate(i - 1) /\ Rename
           \/ i = 0 /\ Candidate(i)' \in Files /\ files[Candidate(i)'].text = 0
<1>1. CASE WriterOpen \/ WriterLine \/ WriterDies
  BY <1>1 DEF WriterOpen, WriterLine, WriterDies, Candidate
<1>2. CASE Rename
  <2>1. /\ active # None /\ active' = None /\ archives' = <<active>> \o archives
        /\ active \in Files
    BY <1>2, LogNumbers DEF Rename
  <2>2. /\ Len(archives') = Len(archives) + 1 /\ Len(archives) \in Nat /\ archives'[1] = active
        /\ \A j \in 2..Len(archives') : j - 1 \in 1..Len(archives) /\ archives'[j] = archives[j - 1]
    BY <2>1, PushArchive
  <2>3. CASE i = 0
    BY <2>1, <2>3 DEF Candidate
  <2>4. CASE i = 1
    BY <2>1, <2>2, <2>4, <1>2 DEF Candidate
  <2>5. CASE i > 1 /\ i <= Len(archives')
    BY <2>1, <2>2, <2>5, <1>2 DEF Candidate
  <2>6. CASE i > 1 /\ ~(i <= Len(archives'))
    BY <2>6 DEF Candidate
  <2> QED
    BY <2>3, <2>4, <2>5, <2>6
<1>3. CASE Create
  <2>1. PICK f \in Files : Unborn(f) /\ active' = f /\ archives' = archives
    BY <1>3 DEF Create
  <2>2. CASE i = 0
    BY <2>1, <2>2 DEF Candidate, Unborn
  <2>3. CASE i # 0
    BY <2>1, <2>3 DEF Candidate
  <2> QED
    BY <2>2, <2>3
<1>4. CASE Compress
  <2>1. active' = active
    BY <1>4 DEF Compress
  <2> QED
    BY <1>4, <2>1, PopArchive DEF Candidate
<1> QED
  BY <1>1, <1>2, <1>3, <1>4

\* What the decoder or logrotate does leaves a consumer what it knows of the log.
LEMMA EnvironmentKeeps ==
    ASSUME IInv, IInv', Environment, RenamedOnly \/ EmptiedBetween, NEW f \in Followers
    PROVE  SameState(f) /\ LogKeeps(f)
<1>1. SameState(f)
  BY DEF Environment, memoryVars, SameState, SameMemory
<1>2. RowsStay
  BY StepKeepsRows DEF Next
<1>3. /\ LogTypeOK
      /\ \/ WriterOpen \/ WriterLine \/ WriterDies \/ Rotate \/ Create \/ Compress
         \/ Empty
  BY DEF IInv, TypeOK, Environment
<1>4. CASE Empty
  <2>1. ~RenamedOnly /\ EmptiedBetween /\ pc[f] = "idle"
    BY <1>4 DEF Empty, RenamedOnly, EmptiedBetween, Quiet
  <2> QED
    BY <1>1, <1>2, <2>1 DEF LogKeeps
<1>5. CASE ~Empty
  <2>1. WriterOpen \/ WriterLine \/ WriterDies \/ Rename \/ Create \/ Compress
    BY <1>3, <1>5 DEF Rotate
  <2>2. Rotate /\ EmptiedBetween => pc[f] = "idle"
    BY DEF Rotate, EmptiedBetween, Quiet
  <2>3. Rename => Rotate
    <3>1. Rename => active # None /\ active' = None
      BY DEF Rename
    <3>2. active # None /\ active' = None => ~WriterOpen /\ ~WriterLine /\ ~WriterDies /\ ~Create /\ ~Compress
      BY DEF WriterOpen, WriterLine, WriterDies, Create, Compress
    <3> QED
      BY <1>3, <1>5, <3>1, <3>2
  <2>4. \A i \in Nat :
          \/ Candidate(i)' = None
          \/ Candidate(i)' = Candidate(i)
          \/ i > 0 /\ Candidate(i)' = Candidate(i - 1) /\ Rename
          \/ i = 0 /\ Candidate(i)' \in Files /\ files[Candidate(i)'].text = 0
    BY <1>3, <2>1, NamesMove
  <2> QED
    BY <1>2, <1>3, <1>1, <2>1, <2>2, <2>3, <2>4, TextsOutlive DEF LogKeeps
<1> QED
  BY <1>4, <1>5

\* A consumer leaves what another knows of the log as it is.
LEMMA ConsumerKeeps ==
    ASSUME RowsStay, UNCHANGED logVars, NEW f \in Followers
    PROVE  LogKeeps(f)
BY DEF LogKeeps, TextsStay, Candidate, logVars

-----------------------------------------------------------------------------
\* A step that leaves the log and the rows alone.
Aside == UNCHANGED <<logVars, dbVars>>

LEMMA AsideKeeps ==
    ASSUME Aside
    PROVE  /\ files' = files /\ active' = active /\ archives' = archives
           /\ cursor' = cursor /\ stored' = stored
           /\ \A n : Candidate(n)' = Candidate(n)
BY DEF Aside, logVars, dbVars, Candidate

\* A position that starts no text has its anchor.
LEMMA BackedIsFull ==
    ASSUME NEW p \in Positions, Backed(p), p # NoPosition
    PROVE  p.anchor = "full" /\ AllStored(p.text, p.offset)
BY DEF Backed

\* Between polls what matters is that the positions are backed, and in their texts.
LEMMA IdleGapFree ==
    ASSUME NEW f \in Followers, pc'[f] = "idle", Backed(position[f])',
           working'[f].offset # 0 => Backed(working[f])',
           RenamedOnly /\ working'[f].offset # 0
                => files'[handle'[f]].text = working'[f].text,
           RenamedOnly => InItsText(position[f])'
    PROVE  GapFree(f)'
BY DEF GapFree, ReadsOn, OpensInText

LEMMA EndPollGapFree ==
    ASSUME TypeOK, Aside, NEW f \in Followers, GapFree(f), EndPoll(f),
           UNCHANGED <<handle, working, position>>
    PROVE  GapFree(f)'
<1>1. pc'[f] = "idle"
  BY DEF EndPoll, Goto, TypeOK
<1> QED
  BY <1>1, AsideKeeps DEF GapFree, ReadsOn, OpensInText, Backed, AllStored, InItsText

LEMMA ClosedGapFree ==
    ASSUME TypeOK, NEW f \in Followers, EndPoll(f), Close(f), Backed(position[f])',
           RenamedOnly => InItsText(position[f])'
    PROVE  GapFree(f)'
<1>1. pc'[f] = "idle" /\ handle'[f] = None /\ working'[f] = NoPosition
  BY DEF EndPoll, Goto, Close, SetHandle, TypeOK
<1> QED
  BY <1>1, IdleGapFree DEF NoPosition

LEMMA BeginOpenGapFree ==
    ASSUME TypeOK, Aside, NEW f \in Followers, NEW r \in 0..3, GapFree(f), BeginOpen(f, r)
    PROVE  GapFree(f)'
<1>1. /\ handle'[f] = None /\ working'[f] = NoPosition /\ position' = position
      /\ k'[f] = 0 /\ pc'[f] = IF position[f] = NoPosition THEN "fresh" ELSE "scan"
      /\ seen'[f] = Len(archives) /\ Len(archives) \in Nat
  BY ArchiveType DEF BeginOpen, Close, SetHandle, Goto, TypeOK
<1>2. Backed(position[f])' /\ (RenamedOnly => InItsText(position[f])')
  BY <1>1, AsideKeeps DEF GapFree, OpensInText, Backed, AllStored, InItsText
<1>3. ReadsOn(f)'
  BY <1>1 DEF ReadsOn, NoPosition
<1>4. OpensInText(f)'
  BY <1>1, <1>2 DEF OpensInText
<1> QED
  BY <1>2, <1>3, <1>4 DEF GapFree

\* _open returns at the start of a text or in the text of what is stored.
LEMMA EndOpenGapFree ==
    ASSUME TypeOK, Aside, NEW f \in Followers, NEW file \in Files, NEW p \in Positions,
           GapFree(f), EndOpen(f, file, p), UNCHANGED position,
           p.offset # 0 => Backed(p) /\ files[file].text = p.text
    PROVE  GapFree(f)'
<1>1. /\ handle'[f] = file /\ working'[f] = p
      /\ pc'[f] \in {"idle", "verify", "read"}
  BY DEF EndOpen, EndPoll, SetHandle, Goto, TypeOK
<1>2. Backed(position[f])' /\ (RenamedOnly => InItsText(position[f])')
  BY AsideKeeps DEF GapFree, OpensInText, Backed, AllStored, InItsText
<1>3. ReadsOn(f)'
  BY <1>1, AsideKeeps DEF ReadsOn, Backed, AllStored
<1>4. OpensInText(f)'
  BY <1>1, <1>2 DEF OpensInText
<1> QED
  BY <1>2, <1>3, <1>4 DEF GapFree

\* A poll starts with what it has open, or opens.
LEMMA PollStartGapFree ==
    ASSUME TypeOK, Aside, NEW f \in Followers, GapFree(f), PollStart(f)
    PROVE  GapFree(f)'
<1>1. CASE handle[f] = None
  BY <1>1, BeginOpenGapFree DEF PollStart
<1>2. CASE handle[f] # None
  <2>1. pc'[f] = "verify" /\ UNCHANGED <<handle, working, position>>
    BY <1>2 DEF PollStart, Goto, TypeOK
  <2> QED
    BY <2>1, AsideKeeps DEF GapFree, PollStart, ReadsOn, OpensInText, Backed, AllStored, InItsText
<1> QED
  BY <1>1, <1>2

\* A file that is read on still has the text of the working position.
LEMMA VerifyGapFree ==
    ASSUME TypeOK, Aside, NEW f \in Followers, GapFree(f), Verify(f)
    PROVE  GapFree(f)'
<1>1. CASE ~Matches(handle[f], working[f])
  BY <1>1, BeginOpenGapFree DEF Verify
<1>2. CASE Matches(handle[f], working[f])
  <2>1. pc'[f] = "read" /\ UNCHANGED <<handle, working, position>>
    BY <1>2 DEF Verify, Goto, TypeOK
  <2>2. working[f].offset # 0 => files[handle[f]].text = working[f].text
    <3>1. working[f].offset # 0 => working[f].anchor = "full"
      BY DEF GapFree, ReadsOn, Backed, NoPosition
    <3> QED
      BY <1>2, <3>1 DEF Matches
  <2> QED
    BY <2>1, <2>2, AsideKeeps DEF GapFree, ReadsOn, OpensInText, Backed, AllStored, InItsText
<1> QED
  BY <1>1, <1>2

\* The first pass of _open takes the saved position where its anchor is, and
\* passes no name of its file while that holds the text.
LEMMA ScanIdentityGapFree ==
    ASSUME TypeOK, Aside, NEW f \in Followers, FollowerInv(f), GapFree(f), ScanIdentity(f)
    PROVE  GapFree(f)'
<1> DEFINE c == Candidate(k[f])
           p == position[f]
<1>0. /\ k[f] \in Nat /\ seen[f] \in Nat /\ c \in Files \cup {None} /\ p \in Positions
      /\ p # NoPosition /\ p.anchor = "full" /\ p.file # None /\ Backed(p)
      /\ (files[p.file].text = p.text => files[p.file].size >= p.offset)
  BY CandidateType DEF TypeOK, ScanIdentity, GapFree, OpensInText, Backed, FollowerInv, Sound
<1>1. CASE c # None /\ c = p.file /\ Matches(c, p)
  <2>1. EndOpen(f, c, p) /\ UNCHANGED position /\ c \in Files
    BY <1>0, <1>1 DEF ScanIdentity
  <2>2. files[c].text = p.text
    BY <1>0, <1>1 DEF Matches
  <2> QED
    BY <1>0, <2>1, <2>2, EndOpenGapFree
<1>2. CASE ~(c # None /\ c = p.file /\ Matches(c, p))
  <2>1. /\ UNCHANGED <<handle, working, seen, batch, next, position>>
        /\ \/ k'[f] = k[f] + 1 /\ pc'[f] = "scan" /\ k[f] < seen[f]
           \/ /\ k'[f] = 1 /\ ~(k[f] < seen[f])
              /\ pc'[f] = "fresh" \/ (pc'[f] = "anchor" /\ seen[f] > 0)
    BY <1>0, <1>2 DEF ScanIdentity, Goto, TypeOK
  <2>2. ASSUME RenamedOnly
        PROVE  k[f] <= seen[f] /\ Passed(f, k[f]) /\ InItsText(p)
    <3>1. /\ InItsText(p) /\ k[f] <= seen[f]
          /\ k[f] > 0 => Passed(f, k[f] - 1)
      BY <2>2 DEF ScanIdentity, GapFree, OpensInText
    <3>2. c # p.file
      BY <1>0, <1>2, <3>1 DEF InItsText, Matches
    <3>3. \A i \in 0..k[f] : i = k[f] \/ (k[f] > 0 /\ i \in 0..(k[f] - 1))
      BY <1>0
    <3> QED
      BY <3>1, <3>2, <3>3 DEF Passed
  <2>3. Backed(position[f])'
    BY <1>0, <2>1, AsideKeeps DEF Backed, AllStored
  <2>4. ReadsOn(f)'
    BY <2>1, AsideKeeps DEF ScanIdentity, GapFree, ReadsOn, Backed, AllStored
  <2>5. OpensInText(f)'
    <3>2. RenamedOnly => \A i \in 0..k[f] : Candidate(i)' # position'[f].file
      BY <2>1, <2>2, AsideKeeps DEF Passed
    <3>3. ASSUME RenamedOnly, pc'[f] = "scan"
          PROVE  Passed(f, k[f] - 1)'
      <4>1. k'[f] - 1 = k[f]
        BY <1>0, <2>1, <3>3
      <4> QED
        BY <3>2, <3>3, <4>1 DEF Passed
    <3>4. ASSUME RenamedOnly, pc'[f] = "anchor"
          PROVE  Passed(f, seen[f])' /\ k'[f] <= seen'[f]
      <4>1. k[f] = seen[f] /\ k'[f] = 1 /\ seen'[f] = seen[f] /\ seen[f] >= 1
        BY <1>0, <2>1, <2>2, <3>4
      <4> QED
        BY <3>2, <3>4, <4>1 DEF Passed
    <3>5. RenamedOnly /\ pc'[f] = "scan" => k'[f] <= seen'[f]
      BY <1>0, <2>1
    <3>6. RenamedOnly => InItsText(position[f])'
      BY <2>1, <2>2, AsideKeeps DEF InItsText
    <3> QED
      BY <1>0, <2>1, <3>3, <3>4, <3>5, <3>6, AsideKeeps DEF OpensInText
  <2> QED
    BY <2>3, <2>4, <2>5 DEF GapFree
<1> QED
  BY <1>1, <1>2

\* The second pass finds nothing in a log that is only renamed, and elsewhere the
\* archive that has the text of the saved position.
LEMMA ScanAnchorGapFree ==
    ASSUME TypeOK, LogInv, Aside, RenamedOnly \/ EmptiedBetween,
           NEW f \in Followers, FollowerInv(f), GapFree(f), ScanAnchor(f)
    PROVE  GapFree(f)'
<1> DEFINE c == Candidate(k[f])
           p == position[f]
<1>0. /\ k[f] \in Nat /\ seen[f] \in Nat /\ c \in Files \cup {None} /\ p \in Positions
      /\ p # NoPosition /\ p.anchor = "full" /\ p.file \in Files /\ files[p.file].text # 0
  <2>1. /\ k[f] \in Nat /\ seen[f] \in Nat /\ c \in Files \cup {None} /\ p \in Positions
        /\ p # NoPosition /\ p.anchor = "full"
    BY CandidateType DEF TypeOK, ScanAnchor, GapFree, OpensInText, Backed
  <2>2. p.file # None /\ p.text > 0 /\ files[p.file].text >= p.text
    BY <2>1 DEF FollowerInv, Sound
  <2> QED
    BY <2>1, <2>2, PositionNumbers, LogNumbers DEF TypeOK
<1>1. CASE c = None
  BY <1>1, EndPollGapFree DEF ScanAnchor
<1>2. CASE c # None
  <2>1. /\ UNCHANGED <<handle, working, seen, batch, next, position>>
        /\ \/ k'[f] = k[f] /\ pc'[f] = "reopen" /\ Matches(c, p)
           \/ k'[f] = k[f] + 1 /\ pc'[f] = "anchor" /\ k[f] < seen[f]
           \/ k'[f] = k[f] /\ pc'[f] = "fresh"
    BY <1>2 DEF ScanAnchor, Goto, TypeOK
  <2>2. RenamedOnly => InItsText(p) /\ k[f] <= seen[f] /\ Passed(f, seen[f])
    BY DEF ScanAnchor, GapFree, OpensInText
  <2>3. Matches(c, p) => files[c].text = p.text
    BY <1>0 DEF Matches
  <2>4. RenamedOnly => ~Matches(c, p)
    <3>1. RenamedOnly => k[f] \in 0..seen[f]
      BY <1>0, <2>2
    <3>2. RenamedOnly => c # p.file
      BY <2>2, <3>1 DEF Passed
    <3>3. RenamedOnly => files[p.file].text = p.text
      BY <1>0, <2>2 DEF InItsText
    <3> QED
      BY <1>0, <1>2, <2>3, <3>2, <3>3 DEF LogInv
  <2>5. Backed(position[f])'
    BY <2>1, AsideKeeps DEF GapFree, Backed, AllStored
  <2>6. ReadsOn(f)'
    BY <2>1, AsideKeeps DEF ScanAnchor, GapFree, ReadsOn, Backed, AllStored
  <2>7. OpensInText(f)'
    <3>1. RenamedOnly => Passed(f, seen[f])' /\ InItsText(position[f])'
      BY <2>1, <2>2, AsideKeeps DEF Passed, InItsText
    <3>2. RenamedOnly /\ pc'[f] = "anchor" => k'[f] <= seen'[f]
      BY <1>0, <2>1, <2>4
    <3>3. pc'[f] = "reopen" => files'[Candidate(k[f])'].text = position'[f].text
      BY <2>1, <2>3, AsideKeeps DEF Candidate
    <3>4. pc'[f] \in {"anchor", "reopen", "fresh"}
      BY <2>1
    <3>5. position'[f] # NoPosition
          /\ (pc'[f] = "reopen" => EmptiedBetween)
      BY <1>0, <2>1, <2>4, AsideKeeps
    <3> QED
      BY <3>1, <3>2, <3>3, <3>4, <3>5, OnePolicy DEF OpensInText
  <2> QED
    BY <2>5, <2>6, <2>7 DEF GapFree
<1> QED
  BY <1>1, <1>2

\* The position of an offset that the file reaches has its anchor.
LEMMA AtAnchor ==
    ASSUME LogTypeOK, NEW f \in Files, NEW offset \in 1..MaxLines, files[f].size >= offset
    PROVE  At(f, offset).anchor = "full"
<1>1. files[f].size \in Nat /\ offset \in Nat /\ AnchorLines \in Nat \ {0}
  BY LogNumbers, SourceLogAssumption, FollowerAssumption
<1> QED
  BY <1>1 DEF At

\* The archive that was found has the lines that the saved position covers.
LEMMA ReopenArchiveGapFree ==
    ASSUME TypeOK, LogInv, Aside, RenamedOnly \/ EmptiedBetween,
           NEW f \in Followers, FollowerInv(f), GapFree(f), ReopenArchive(f)
    PROVE  GapFree(f)'
<1> DEFINE c == Candidate(k[f])
           p == position[f]
<1>0. /\ k[f] \in Nat /\ k[f] > 0 /\ c \in Files \cup {None} /\ p \in Positions
      /\ p.anchor = "full" /\ LogTypeOK /\ EmptiedBetween /\ Backed(p) /\ Sound(p)
      /\ c # None => files[c].text = p.text
  BY CandidateType
  DEF TypeOK, ReopenArchive, FollowerInv, Opening, GapFree, OpensInText
<1>1. CASE c = None
  BY <1>1, EndPollGapFree DEF ReopenArchive
<1>2. CASE c # None
  <2>1. c \in Files /\ p.offset \in 1..MaxLines /\ p.offset \in 0..MaxLines
    BY <1>0, <1>2, PositionNumbers DEF Sound
  <2>2. files[c].size >= p.offset
    <3>1. Len(archives) \in Nat /\ k[f] \in 1..Len(archives) /\ c = archives[k[f]]
      BY <1>0, <1>2, ArchiveType DEF Candidate
    <3> QED
      BY <1>0, <1>2, <3>1 DEF ReopenArchive, FollowerInv, Opening
  <2>3. /\ At(c, p.offset) \in Positions /\ At(c, p.offset).anchor = "full"
        /\ At(c, p.offset).text = p.text /\ At(c, p.offset).offset = p.offset
    BY <1>0, <1>2, <2>1, <2>2, AtType, AtAnchor
  <2>4. Backed(At(c, p.offset)) /\ files[c].text = At(c, p.offset).text
    BY <1>0, <1>2, <2>3 DEF Backed, NoPosition
  <2>5. EndOpen(f, c, At(c, p.offset)) /\ UNCHANGED position
    BY <1>2 DEF ReopenArchive
  <2> QED
    BY <2>1, <2>3, <2>4, <2>5, EndOpenGapFree
<1> QED
  BY <1>1, <1>2

LEMMA OpenFreshGapFree ==
    ASSUME TypeOK, LogInv, Aside, NEW f \in Followers, GapFree(f), OpenFresh(f)
    PROVE  GapFree(f)'
<1>1. CASE active = None
  BY <1>1, EndPollGapFree DEF OpenFresh
<1>2. CASE active # None
  <2>1. active \in Files /\ 0 \in 0..MaxLines
    BY <1>2, LogNumbers, SourceLogAssumption DEF TypeOK
  <2>2. At(active, 0) \in Positions /\ At(active, 0).offset = 0
    BY <2>1, AtType DEF TypeOK
  <2> QED
    BY <1>2, <2>1, <2>2, EndOpenGapFree DEF OpenFresh
<1> QED
  BY <1>1, <1>2

-----------------------------------------------------------------------------
\* A poll that goes on with its open file, in its text.
LEMMA GoesOnGapFree ==
    ASSUME TypeOK, Aside, NEW f \in Followers, GapFree(f),
           UNCHANGED <<handle, working, position>>,
           pc[f] \in {"read", "check", "at"},
           pc'[f] \in {"idle", "stat", "switch", "check", "at", "commit"},
           pc'[f] \in {"check", "at", "commit"} => batch'[f].text = files[handle[f]].text,
           pc'[f] = "commit" =>
              next'[f].anchor = "full" /\ next'[f].text = batch'[f].text
              /\ next'[f].offset = batch'[f].last
    PROVE  GapFree(f)'
<1>1. Backed(position[f])' /\ (RenamedOnly => InItsText(position[f])')
  BY AsideKeeps DEF GapFree, OpensInText, Backed, AllStored, InItsText
<1>2. ReadsOn(f)'
  BY AsideKeeps DEF GapFree, ReadsOn, Backed, AllStored
<1>3. OpensInText(f)'
  BY <1>1 DEF OpensInText
<1> QED
  BY <1>1, <1>2, <1>3 DEF GapFree

LEMMA ReadGapFree ==
    ASSUME TypeOK, Aside, NEW f \in Followers, GapFree(f), Read(f)
    PROVE  GapFree(f)'
<1>1. UNCHANGED <<handle, working, position>> /\ pc[f] = "read"
  BY DEF Read
<1>2. \/ pc'[f] = "stat"
      \/ pc'[f] = "check" /\ batch'[f].text = files[handle[f]].text
  BY DEF Read, Goto, TypeOK
<1> QED
  BY <1>1, <1>2, GoesOnGapFree

LEMMA StatActiveGapFree ==
    ASSUME TypeOK, Aside, NEW f \in Followers, GapFree(f), StatActive(f)
    PROVE  GapFree(f)'
<1>1. UNCHANGED <<handle, working, position>> /\ pc'[f] \in {"idle", "switch"}
  BY DEF StatActive, EndPoll, Goto, TypeOK
<1>2. Backed(position[f])' /\ (RenamedOnly => InItsText(position[f])')
  BY <1>1, AsideKeeps DEF GapFree, OpensInText, Backed, AllStored, InItsText
<1> QED
  BY <1>1, <1>2, AsideKeeps DEF GapFree, ReadsOn, OpensInText, Backed, AllStored

LEMMA SwitchFileGapFree ==
    ASSUME TypeOK, LogInv, Aside, NEW f \in Followers, GapFree(f), SwitchFile(f)
    PROVE  GapFree(f)'
<1>1. CASE active = None
  BY <1>1, EndPollGapFree DEF SwitchFile
<1>2. CASE active # None
  <2>1. active \in Files /\ 0 \in 0..MaxLines
    BY <1>2, LogNumbers, SourceLogAssumption DEF TypeOK
  <2>2. At(active, 0).offset = 0
    BY <2>1, AtType DEF TypeOK
  <2>3. /\ working'[f] = At(active, 0) /\ UNCHANGED position /\ pc'[f] \in {"idle", "read"}
    BY <1>2 DEF SwitchFile, SetHandle, EndPoll, Goto, TypeOK
  <2>4. Backed(position[f])' /\ (RenamedOnly => InItsText(position[f])')
    BY <2>3, AsideKeeps DEF GapFree, OpensInText, Backed, AllStored, InItsText
  <2>5. ReadsOn(f)' /\ OpensInText(f)'
    BY <2>2, <2>3, <2>4 DEF ReadsOn, OpensInText
  <2> QED
    BY <2>4, <2>5 DEF GapFree
<1> QED
  BY <1>1, <1>2

LEMMA RecheckGapFree ==
    ASSUME TypeOK, Aside, NEW f \in Followers, GapFree(f), Recheck(f)
    PROVE  GapFree(f)'
<1>1. CASE Matches(handle[f], working[f])
  <2>1. UNCHANGED <<handle, working, position, batch>> /\ pc[f] = "check" /\ pc'[f] = "at"
    BY <1>1 DEF Recheck, pollVars, Goto, TypeOK
  <2> QED
    BY <2>1, GoesOnGapFree DEF GapFree, ReadsOn
<1>2. CASE ~Matches(handle[f], working[f])
  BY <1>2, BeginOpenGapFree DEF Recheck
<1> QED
  BY <1>1, <1>2

\* The position to be committed ends the lines read, in their text.
LEMMA TakePositionGapFree ==
    ASSUME TypeOK, Aside, NEW f \in Followers, FollowerInv(f), GapFree(f), TakePosition(f)
    PROVE  GapFree(f)'
<1> DEFINE h == handle[f]
           b == batch[f]
<1>1. /\ UNCHANGED <<handle, working, position, batch>> /\ pc[f] = "at" /\ pc'[f] = "commit"
      /\ next'[f] = At(h, b.last)
  BY DEF TakePosition, Goto, TypeOK
<1>2. /\ h \in Files /\ b.text = files[h].text /\ b.last \in 1..MaxLines /\ files[h].size >= b.last
  <2>1. /\ h \in Files /\ b.first \in Nat /\ b.last \in Nat /\ b.last \in 0..MaxLines
        /\ working[f].offset \in Nat
    BY FileIsOpen, BatchNumbers, PositionNumbers DEF TakePosition, TypeOK
  <2>2. b.first = working[f].offset + 1 /\ b.first <= b.last /\ b.text = files[h].text
    BY <1>1 DEF FollowerInv, InBatch, GapFree, ReadsOn
  <2> QED
    BY <1>1, <2>1, <2>2, SourceLogAssumption DEF FollowerInv, InBatch
<1>3. /\ At(h, b.last).anchor = "full" /\ At(h, b.last).text = b.text
      /\ At(h, b.last).offset = b.last
  <2>1. b.last \in 0..MaxLines
    BY <1>2, SourceLogAssumption
  <2> QED
    BY <1>2, <2>1, AtAnchor, AtType DEF TypeOK
<1> QED
  BY <1>1, <1>2, <1>3, GoesOnGapFree

-----------------------------------------------------------------------------
\* What the transaction of a batch commits covers only stored lines.
LEMMA TransactionBacks ==
    ASSUME IInv, IInv', RowsStay, NEW f \in Followers, GapFree(f), Transaction(f),
           UNCHANGED logVars
    PROVE  Backed(cursor)' /\ (RenamedOnly => InItsText(cursor)')
<1> DEFINE b == batch[f]
           w == working[f]
           n == next[f]
<1>1. /\ FollowerInv(f) /\ pc[f] = "commit" /\ cursor' = n
      /\ w \in Positions /\ w # NoPosition /\ Sound(w) /\ n.file = handle[f] /\ handle[f] \in Files
      /\ n.anchor = "full" /\ n.text = b.text /\ n.offset = b.last
      /\ b.text = files[handle[f]].text /\ b.first = w.offset + 1
      /\ w.offset # 0 => Backed(w) /\ b.text = w.text
  BY FileIsOpen
  DEF IInv, TypeOK, Transaction, FollowerInv, Opened, InBatch, GapFree, ReadsOn
<1>2. /\ b.text \in Nat /\ b.text > 0 /\ b.text \in Texts /\ w.offset \in Nat
      /\ b.last \in Nat /\ b.last \in 0..MaxLines
      /\ \A i \in 1..b.last : <<b.text, i>> \in Lines
  <2>1. b \in Batches /\ w \in Positions
    BY DEF IInv, TypeOK
  <2>2. b.text >= w.text /\ w.text > 0 /\ w.text \in Nat /\ w.offset \in Nat
    BY <1>1, <2>1, PositionNumbers DEF FollowerInv, InBatch, Sound
  <2>3. b.text \in 0..MaxTexts
    BY <2>1 DEF Batches
  <2> QED
    BY <2>1, <2>2, <2>3, BatchNumbers, SourceLogAssumption DEF Lines, Texts
<1>3. ASSUME NEW i \in 1..b.last
      PROVE  stored'[<<b.text, i>>] = 1
  <2>0. <<b.text, i>> \in Lines /\ i \in Nat
    BY <1>2
  <2>1. CASE i <= w.offset
    <3>1. stored[<<b.text, i>>] = 1
      BY <1>1, <1>2, <2>0, <2>1 DEF Backed, AllStored, NoPosition
    <3> QED
      BY <2>0, <3>1 DEF RowsStay
  <2>2. CASE i > w.offset
    <3>1. i \in b.first..b.last
      BY <1>1, <1>2, <2>0, <2>2
    <3>2. stored'[<<b.text, i>>] = stored[<<b.text, i>>] + 1
      BY <2>0, <3>1 DEF Transaction
    <3> QED
      BY <2>0, <3>2 DEF IInv, TypeOK, AtMostOnce
  <2> QED
    BY <1>2, <2>0, <2>1, <2>2
<1>4. files' = files
  BY DEF logVars
<1> QED
  BY <1>1, <1>3, <1>4 DEF Backed, AllStored, InItsText

\* The steps of a consumer that end without a transaction.
AsideSteps(f) ==
    \/ PollStart(f) \/ Verify(f) \/ ScanIdentity(f) \/ ScanAnchor(f) \/ ReopenArchive(f)
    \/ OpenFresh(f) \/ Read(f) \/ StatActive(f) \/ SwitchFile(f) \/ Recheck(f) \/ TakePosition(f)
    \/ PollRaises(f) \/ AnchorReadFails(f)

LEMMA AsideStepGapFree ==
    ASSUME TypeOK, LogInv, RenamedOnly \/ EmptiedBetween,
           NEW f \in Followers, FollowerInv(f), GapFree(f), AsideSteps(f)
    PROVE  Aside /\ GapFree(f)'
<1>1. Aside
  BY DEF Aside, AsideSteps, PollStart, Verify, ScanIdentity, ScanAnchor, ReopenArchive, OpenFresh,
         Read, StatActive, SwitchFile, Recheck, TakePosition, PollRaises, AnchorReadFails
<1>2. CASE PollRaises(f)
  BY <1>1, <1>2, EndPollGapFree DEF PollRaises
<1>3. CASE AnchorReadFails(f)
  <2>1. pc'[f] = "idle" /\ working'[f] = NoPosition /\ UNCHANGED position
    BY <1>3 DEF AnchorReadFails, EndPoll, Goto, SetHandle, TypeOK
  <2>2. Backed(position[f])' /\ (RenamedOnly => InItsText(position[f])')
    BY <1>1, <2>1, AsideKeeps DEF GapFree, OpensInText, Backed, AllStored, InItsText
  <2> QED
    BY <1>1, <2>1, <2>2, IdleGapFree DEF NoPosition
<1> QED
  BY <1>1, <1>2, <1>3, PollStartGapFree, VerifyGapFree, ScanIdentityGapFree, ScanAnchorGapFree,
     ReopenArchiveGapFree, OpenFreshGapFree, ReadGapFree, StatActiveGapFree, SwitchFileGapFree,
     RecheckGapFree, TakePositionGapFree
  DEF AsideSteps

\* A consumer's own step keeps what it promises, and what the cursor promises.
LEMMA OwnStepGapFree ==
    ASSUME GapInv, IInv', RowsStay, RenamedOnly \/ EmptiedBetween, NEW f \in Followers,
           Poll(f) \/ Failure(f)
    PROVE  GapFree(f)' /\ Backed(cursor)' /\ (RenamedOnly => InItsText(cursor)')
<1>0. /\ IInv /\ TypeOK /\ LogInv /\ FollowerInv(f) /\ GapFree(f)
      /\ (RenamedOnly \/ EmptiedBetween) /\ cursor \in Positions /\ Sound(cursor)
      /\ Backed(cursor) /\ (RenamedOnly => InItsText(cursor))
  BY DEF GapInv, IInv, TypeOK
<1>1. CASE AsideSteps(f)
  BY <1>0, <1>1, AsideStepGapFree, AsideKeeps DEF Backed, AllStored, InItsText
<1>2. CASE Commit(f)
  <2>1. /\ Transaction(f) /\ UNCHANGED logVars /\ pc'[f] = "idle"
        /\ position'[f] = next[f] /\ working'[f] = next[f] /\ cursor' = next[f]
        /\ handle' = handle /\ files' = files /\ pc[f] = "commit"
    BY <1>0, <1>2 DEF Commit, Transaction, EndPoll, Goto, TypeOK, logVars
  <2>2. Backed(cursor)' /\ (RenamedOnly => InItsText(cursor)')
    BY <1>0, <2>1, TransactionBacks
  <2>3. Backed(position[f])' /\ Backed(working[f])' /\ (RenamedOnly => InItsText(position[f])')
    BY <2>1, <2>2 DEF Backed, AllStored, InItsText
  <2>4. files'[handle'[f]].text = working'[f].text
    BY <1>0, <2>1 DEF GapFree, ReadsOn
  <2> QED
    BY <2>1, <2>2, <2>3, <2>4, IdleGapFree
<1>3. CASE AfterCommitRaises(f)
  <2>1. /\ Transaction(f) /\ UNCHANGED logVars /\ pc'[f] = "idle"
        /\ UNCHANGED <<handle, working, position>> /\ files' = files
        /\ position[f] \in Positions /\ working[f] \in Positions
        /\ Sound(position[f]) /\ Sound(working[f])
    BY <1>0, <1>3 DEF AfterCommitRaises, Transaction, EndPoll, Goto, TypeOK, logVars,
                      FollowerInv, Opened
  <2>2. Backed(cursor)' /\ (RenamedOnly => InItsText(cursor)')
    BY <1>0, <2>1, TransactionBacks
  <2>3. /\ Backed(position[f])'
        /\ working'[f].offset # 0 => Backed(working[f])'
        /\ RenamedOnly => InItsText(position[f])'
    BY <1>0, <2>1, BackedStays DEF GapFree, ReadsOn, OpensInText, Backed, AllStored, InItsText
  <2>4. RenamedOnly /\ working'[f].offset # 0
            => files'[handle'[f]].text = working'[f].text
    BY <1>0, <2>1 DEF GapFree, ReadsOn
  <2> QED
    BY <2>1, <2>2, <2>3, <2>4, IdleGapFree
<1>4. CASE CommitRejected(f) \/ CommitFails(f) \/ Crash(f)
  <2>1. /\ EndPoll(f) /\ Close(f) /\ position'[f] = cursor /\ UNCHANGED <<logVars, dbVars>>
    BY <1>0, <1>4 DEF CommitRejected, CommitFails, RolledBack, Crash, TypeOK
  <2>2. files' = files /\ stored' = stored /\ cursor' = cursor
    BY <2>1 DEF logVars, dbVars
  <2>3. /\ Backed(cursor)' /\ (RenamedOnly => InItsText(cursor)')
        /\ Backed(position[f])' /\ (RenamedOnly => InItsText(position[f])')
    BY <1>0, <2>1, <2>2 DEF Backed, AllStored, InItsText
  <2> QED
    BY <1>0, <2>1, <2>3, ClosedGapFree
<1> QED
  BY <1>1, <1>2, <1>3, <1>4 DEF Poll, Failure, AsideSteps

\* A consumer's step does not touch what another remembers.
LEMMA OthersStay ==
    ASSUME TypeOK, NEW f \in Followers, Poll(f) \/ Failure(f), NEW g \in Followers, g # f
    PROVE  SameState(g) /\ UNCHANGED logVars
<1>1. CASE \/ PollStart(f) \/ Verify(f) \/ ScanIdentity(f) \/ ScanAnchor(f)
           \/ ReopenArchive(f) \/ OpenFresh(f)
  BY <1>1
  DEF SameState, SameMemory, TypeOK, PollStart, Verify, ScanIdentity, ScanAnchor, ReopenArchive,
      OpenFresh, BeginOpen, EndOpen, EndPoll, Close, SetHandle, Goto, pollVars
<1>2. CASE \/ Read(f) \/ StatActive(f) \/ SwitchFile(f) \/ Recheck(f) \/ TakePosition(f)
           \/ Commit(f) \/ CommitRejected(f)
  BY <1>2
  DEF SameState, SameMemory, TypeOK, Read, StatActive, SwitchFile, Recheck, TakePosition, Commit,
      Transaction, CommitRejected, RolledBack, BeginOpen, EndPoll, Close, SetHandle, Goto,
      pollVars
<1>3. CASE Failure(f)
  BY <1>3
  DEF SameState, SameMemory, TypeOK, Failure, CommitFails, RolledBack, AfterCommitRaises,
      Transaction, PollRaises, AnchorReadFails, Crash, EndPoll, Close, SetHandle, Goto
<1> QED
  BY <1>1, <1>2, <1>3 DEF Poll

-----------------------------------------------------------------------------
LEMMA InitGapInv == Init => GapInv
<1> SUFFICES ASSUME Init PROVE GapInv
  OBVIOUS
<1>1. IInv
  BY InitInv
<1>2. Backed(cursor) /\ InItsText(cursor)
  BY DEF Init, Backed, InItsText
<1>3. ASSUME NEW f \in Followers
      PROVE  GapFree(f)
  BY DEF Init, GapFree, ReadsOn, OpensInText, Backed, InItsText, NoPosition
<1> QED
  BY <1>1, <1>2, <1>3 DEF GapInv

LEMMA StepGapInv ==
    ASSUME RenamedOnly \/ EmptiedBetween
    PROVE  GapInv /\ [Next]_vars => GapInv'
<1> SUFFICES ASSUME GapInv, [Next]_vars PROVE GapInv'
  OBVIOUS
<1>0. IInv /\ TypeOK /\ LogInv
  BY DEF GapInv, IInv
<1>1. IInv' /\ TypeOK' /\ RowsStay
  <2>1. IInv'
    BY <1>0, StepInv
  <2> QED
    BY <1>0, <2>1, StepKeepsRows DEF IInv
<1>2. ASSUME NEW g \in Followers, SameState(g), LogKeeps(g)
      PROVE  GapFree(g)'
  BY <1>0, <1>1, <1>2, GapFreeStays DEF GapInv, IInv
<1>3. ASSUME NEW f \in Followers, Poll(f) \/ Failure(f)
      PROVE  GapInv'
  <2>1. GapFree(f)' /\ Backed(cursor)' /\ (RenamedOnly => InItsText(cursor)')
    BY <1>0, <1>1, <1>3, OwnStepGapFree
  <2>2. ASSUME NEW g \in Followers, g # f
        PROVE  GapFree(g)'
    BY <1>0, <1>1, <1>2, <1>3, <2>2, OthersStay, ConsumerKeeps
  <2> QED
    BY <1>0, <1>1, <2>1, <2>2 DEF GapInv
<1>4. ASSUME Environment
      PROVE  GapInv'
  <2>1. \A g \in Followers : GapFree(g)'
    BY <1>0, <1>1, <1>2, <1>4, EnvironmentKeeps
  <2>2. /\ Backed(cursor) /\ cursor \in Positions /\ Sound(cursor)
        /\ RenamedOnly => InItsText(cursor)
        /\ cursor' = cursor /\ stored' = stored
    BY <1>0, <1>4 DEF GapInv, IInv, TypeOK, Environment, dbVars
  <2>3. Backed(cursor)'
    BY <2>2 DEF Backed, AllStored
  <2>4. RenamedOnly => InItsText(cursor)'
    <3>1. ASSUME RenamedOnly, cursor # NoPosition
          PROVE  files'[cursor.file].text = cursor.text
      <4>1. cursor.file \in Files /\ files[cursor.file].text = cursor.text /\ cursor.text # 0
        BY <2>2, <3>1, PositionNumbers DEF Sound, InItsText
      <4>2. TextsStay
        BY <1>0, <1>4, <3>1, TextsOutlive
        DEF Environment, Rotate, Empty, RenamedOnly, TypeOK
      <4> QED
        BY <4>1, <4>2 DEF TextsStay
    <3> QED
      BY <1>0, <2>2, <3>1 DEF InItsText
  <2> QED
    BY <1>0, <1>1, <2>1, <2>3, <2>4 DEF GapInv
<1>5. CASE UNCHANGED vars
  <2>1. /\ UNCHANGED <<logVars, dbVars>> /\ \A g \in Followers : SameState(g)
    BY <1>5 DEF vars, memoryVars, SameState, SameMemory
  <2>2. \A g \in Followers : GapFree(g)'
    BY <1>1, <1>2, <2>1, ConsumerKeeps
  <2> QED
    BY <1>0, <1>1, <2>1, <2>2 DEF GapInv, Backed, AllStored, InItsText, logVars, dbVars
<1> QED
  BY <1>0, <1>3, <1>4, <1>5 DEF Next

\* What a follower holds (cursor, working position, handle, batch) leaves no line of its
\* text behind it without a row, where logs are renamed at any call of a poll, or emptied
\* between polls (wsjtx/file_input.py, _open, _matches, _switch_if_rotated, _at).
THEOREM NothingLeftOut ==
    ASSUME RenamedOnly \/ EmptiedBetween
    PROVE  Spec => []GapInv
BY InitGapInv, StepGapInv, PTL DEF Spec

\* No line behind the saved cursor is without its row: reading on, following a
\* rename, finding an archive again and starting over after a crash leave nothing
\* out, whether the log is renamed inside a poll or truncated between polls.
THEOREM CursorLeavesNoGap ==
    ASSUME RenamedOnly \/ EmptiedBetween
    PROVE  Spec => []NoGapBehindCursor
<1>1. GapInv => NoGapBehindCursor
  <2>1. SUFFICES ASSUME GapInv, NEW i \in 1..Floor(cursor)[2]
                 PROVE  stored[<<Floor(cursor)[1], i>>] = 1
    BY DEF NoGapBehindCursor
  <2>2. cursor \in Positions /\ Backed(cursor)
    BY <2>1 DEF GapInv, IInv, TypeOK
  <2>3. /\ Floor(cursor)[1] = cursor.text
        /\ Floor(cursor)[2] = IF cursor.anchor = "full" THEN cursor.offset ELSE 0
    BY <2>2, FloorType
  <2>4. cursor.anchor = "full"
    BY <2>1, <2>3
  <2> QED
    BY <2>1, <2>2, <2>3, <2>4 DEF Backed, AllStored, NoPosition
<1> QED
  BY <1>1, NothingLeftOut, PTL

-----------------------------------------------------------------------------
\* What was stored of the older logs stays stored while those logs stay.
LEMMA StoredBeforeStays ==
    ASSUME TypeOK, RowsStay, NEW t \in Nat, StoredBefore(t),
           \A g \in Files : files'[g].text # 0 /\ files'[g].text < t => files'[g] = files[g]
    PROVE  \A g \in Files : files'[g].text # 0 /\ files'[g].text < t
              => \A i \in 1..files'[g].size : stored'[<<files'[g].text, i>>] = 1
<1>1. SUFFICES ASSUME NEW g \in Files, files'[g].text # 0, files'[g].text < t,
                      NEW i \in 1..files'[g].size
               PROVE  stored'[<<files'[g].text, i>>] = 1
  OBVIOUS
<1>2. files'[g] = files[g]
  BY <1>1
<1>3. files[g].text \in 0..MaxTexts /\ files[g].size \in 0..MaxLines
  BY DEF TypeOK, LogTypeOK
<1>4. <<files[g].text, i>> \in Lines
  BY <1>1, <1>2, <1>3, SourceLogAssumption DEF Lines, Texts
<1>5. stored[<<files[g].text, i>>] = 1
  BY <1>1, <1>2 DEF StoredBefore, AllStored
<1> QED
  BY <1>2, <1>4, <1>5 DEF RowsStay

\* What happens to the log during a poll, and what only between polls.
LEMMA LogBetweenPolls ==
    ASSUME RotatedBetween, Environment
    PROVE  /\ \/ WriterOpen \/ WriterLine \/ WriterDies \/ Create
              \/ Compress /\ Len(archives) > 1
              \/ /\ Rename /\ Quiet /\ active # None
                 /\ cursor.text = files[active].text
           /\ UNCHANGED <<memoryVars, dbVars>>
BY DEF RotatedBetween, RenamedOnly, Environment, Rotate, Empty

\* No log but the newest grows, and none comes to be that is older.
LEMMA OlderFrozen ==
    ASSUME TypeOK, LogInv, CursorNear, RotatedBetween, Environment,
           NEW t \in Nat, t <= newest
    PROVE  \A g \in Files : files'[g].text # 0 /\ files'[g].text < t => files'[g] = files[g]
<1>1. CASE WriterLine
  <2>1. /\ writer = active /\ active \in Files /\ files[active].text = newest
        /\ \A g \in Files : g # active => files'[g] = files[g]
        /\ files'[active].text = newest
    BY <1>1, LogNumbers DEF WriterLine, CursorNear, TypeOK, LogTypeOK, LogInv
  <2> QED
    BY <2>1, LogNumbers DEF TypeOK
<1>2. CASE Create
  <2>1. PICK f \in Files : files' = [files EXCEPT ![f] = [text |-> newest + 1, size |-> 0]]
    BY <1>2 DEF Create
  <2>2. \A g \in Files : g # f => files'[g] = files[g]
    BY <2>1
  <2>3. files'[f].text = newest + 1
    BY <2>1 DEF TypeOK, LogTypeOK
  <2> QED
    BY <2>2, <2>3, LogNumbers DEF TypeOK
<1>3. CASE files' = files
  BY <1>3
<1> QED
  BY <1>1, <1>2, <1>3, LogBetweenPolls
  DEF WriterOpen, WriterDies, Rename, Compress

\* The cursor stays in one of the two newest logs.
LEMMA EnvironmentNear ==
    ASSUME TypeOK, TypeOK', LogInv, Sound(cursor), InItsText(cursor), CursorNear, RotatedBetween,
           Environment
    PROVE  CursorNear'
<1>0. /\ cursor' = cursor /\ cursor \in Positions /\ cursor.text \in Nat /\ newest \in Nat
      /\ newest >= 1 /\ newest' \in Nat /\ Len(archives) \in Nat
  BY LogNumbers, LogNumbersNext, PositionNumbers, ArchiveType, LogBetweenPolls DEF TypeOK, dbVars
<1>1. CASE WriterOpen \/ WriterLine \/ WriterDies
  BY <1>0, <1>1 DEF WriterOpen, WriterLine, WriterDies, CursorNear
<1>2. CASE Create
  <2>1. /\ writer' = writer /\ archives' = archives /\ active = None /\ newest' = newest + 1
        /\ active' # None
    BY <1>2 DEF Create, Files, None
  <2>2. cursor # NoPosition => cursor.file # None
    BY DEF Sound
  <2>3. writer = None
    BY <2>1 DEF CursorNear
  <2> QED
    BY <1>0, <2>1, <2>2, <2>3 DEF CursorNear
<1>3. CASE Compress /\ Len(archives) > 1
  <2>1. /\ writer' = writer /\ active' = active /\ newest' = newest
    BY <1>3 DEF Compress
  <2>2. Len(archives') = Len(archives) - 1 /\ archives'[1] = archives[1] /\ archives' # <<>>
    BY <1>3, <1>0, PopArchive DEF TypeOK
  <2> QED
    BY <1>0, <2>1, <2>2 DEF CursorNear
<1>4. CASE Rename /\ Quiet /\ cursor.text = files[active].text
  <2>1. /\ active \in Files /\ active' = None /\ archives' = <<active>> \o archives
        /\ writer' = None /\ newest' = newest /\ files[active].text = newest
    BY <1>4, LogNumbers DEF Rename, Quiet, TypeOK, LogInv
  <2>2. Len(archives') = Len(archives) + 1 /\ archives'[1] = active
    BY <2>1, PushArchive DEF TypeOK
  <2>3. cursor # NoPosition /\ cursor.file = active
    <3>1. cursor # NoPosition
      BY <1>0, <1>4, <2>1 DEF NoPosition
    <3>2. cursor.file \in Files /\ files[cursor.file].text = files[active].text
      BY <1>0, <1>4, <3>1, PositionNumbers DEF Sound, InItsText
    <3> QED
      BY <1>0, <2>1, <3>1, <3>2 DEF LogInv
  <2> QED
    BY <1>0, <1>4, <2>1, <2>2, <2>3 DEF CursorNear
<1> QED
  BY <1>1, <1>2, <1>3, <1>4, LogBetweenPolls

\* The log leaves a follower what it knows: its saved file stays at a name that it
\* has still to look at, and a file it has read to the end stays so.
LEMMA EnvironmentDrains ==
    ASSUME DrainInv, IInv', RowsStay, RotatedBetween, Environment, NEW f \in Followers
    PROVE  Drains(f)'
<1> DEFINE w == working[f]
<1>0. /\ TypeOK /\ LogInv /\ CursorNear /\ Drains(f) /\ FollowerInv(f) /\ GapFree(f) /\ TypeOK'
      /\ RenamedOnly /\ Sound(w) /\ w \in Positions /\ w.text \in Nat /\ w.text <= newest
      /\ w # NoPosition => w.file \in Files /\ w.file = handle[f] /\ w.text # 0
  <2>1. /\ TypeOK /\ LogInv /\ CursorNear /\ Drains(f) /\ FollowerInv(f) /\ GapFree(f) /\ TypeOK'
        /\ RenamedOnly /\ Sound(w) /\ w \in Positions
    BY DEF DrainInv, GapInv, IInv, FollowerInv, Opened, TypeOK, RotatedBetween
  <2> QED
    BY <2>1, PositionNumbers DEF Sound, FollowerInv, Opened
<1>1. SameState(f) /\ LogKeeps(f) /\ cursor' = cursor /\ TextsStay
  BY <1>0, EnvironmentKeeps, LogBetweenPolls
  DEF DrainInv, GapInv, LogKeeps, dbVars
<1>2. InItsText(working[f])'
  <2>1. w # NoPosition => files[w.file].text # 0
    BY <1>0 DEF Drains, InItsText
  <2> QED
    BY <1>0, <1>1, <2>1 DEF Drains, InItsText, SameState, SameMemory, TextsStay
<1>3. ASSUME w # NoPosition, StoredBefore(w.text)
      PROVE  StoredBefore(working[f].text)'
  <2>1. \A g \in Files : files'[g].text # 0 /\ files'[g].text < w.text => files'[g] = files[g]
    BY <1>0, OlderFrozen
  <2> QED
    BY <1>0, <1>1, <1>3, <2>1, StoredBeforeStays
    DEF StoredBefore, AllStored, SameState, SameMemory
<1>4. ASSUME pc[f] \in {"stat", "switch"}, active' # handle[f]
      PROVE  files'[handle[f]].size <= w.offset
  <2>1. handle[f] \in Files /\ w # NoPosition
    BY <1>0, <1>4, FileIsOpen DEF FollowerInv, Opened
  <2>2. files[handle[f]].text # 0
    BY <1>0, <2>1 DEF Drains, InItsText
  <2>3. CASE WriterLine
    <3>1. writer = active /\ active' = active /\ \A g \in Files : g # active => files'[g] = files[g]
      BY <1>0, <2>3 DEF WriterLine, CursorNear
    <3> QED
      BY <1>0, <1>4, <2>1, <3>1 DEF Drains
  <2>4. CASE Create
    <3>1. active = None /\ None # handle[f]
      BY <2>1, <2>4 DEF Create, Files, None
    <3>2. \A g \in Files : files[g].text # 0 => files'[g] = files[g]
      BY <2>4 DEF Create, Unborn
    <3> QED
      BY <1>0, <1>4, <2>1, <2>2, <3>1, <3>2 DEF Drains
  <2>5. CASE WriterOpen \/ WriterDies \/ Compress
    BY <1>0, <1>4, <2>5 DEF Drains, WriterOpen, WriterDies, Compress
  <2> QED
    BY <1>4, <2>3, <2>4, <2>5, LogBetweenPolls DEF Quiet
<1>5. ASSUME pc[f] = "scan", position[f] = cursor
      PROVE  \/ k[f] = 0 /\ cursor.file = active'
             \/ /\ k[f] <= 1 /\ seen[f] > 0
                /\ archives' # <<>> /\ cursor.file = archives'[1]
  <2>0. cursor # NoPosition /\ cursor.file # None
    BY <1>0, <1>5 DEF GapFree, OpensInText, DrainInv, GapInv, IInv, Sound
  <2>1. ~Quiet
    BY <1>5 DEF Quiet
  <2>2. CASE Create
    <3>1. active = None /\ archives' = archives
      BY <2>2 DEF Create
    <3> QED
      BY <1>0, <1>5, <2>0, <3>1 DEF Drains
  <2>3. CASE Compress /\ Len(archives) > 1
    <3>1. active' = active /\ Len(archives') = Len(archives) - 1 /\ Len(archives) \in Nat
      BY <1>0, <2>3, PopArchive DEF Compress, TypeOK
    <3>2. archives'[1] = archives[1] /\ archives' # <<>>
      BY <1>0, <2>3, <3>1, PopArchive DEF TypeOK
    <3> QED
      BY <1>0, <1>5, <3>1, <3>2 DEF Drains
  <2>4. CASE WriterOpen \/ WriterDies \/ WriterLine
    BY <1>0, <1>5, <2>4 DEF Drains, WriterOpen, WriterDies, WriterLine
  <2> QED
    BY <2>1, <2>2, <2>3, <2>4, LogBetweenPolls
<1>6. /\ NotAfter(Floor(position[f]), Floor(cursor))'
      /\ position'[f] = cursor' =>
            pc'[f] \notin {"anchor", "reopen"} /\ (pc'[f] = "fresh" => position'[f] = NoPosition)
  BY <1>0, <1>1 DEF Drains, SameState, SameMemory, Floor, NotAfter, Before
<1> QED
  BY <1>0, <1>1, <1>2, <1>3, <1>4, <1>5, <1>6 DEF Drains, SameState, SameMemory

-----------------------------------------------------------------------------
\* What a follower's own step finds: its positions are sound, in their texts, and
\* backed by rows.
LEMMA DrainFacts ==
    ASSUME DrainInv, RotatedBetween, NEW f \in Followers
    PROVE  /\ TypeOK /\ LogTypeOK /\ LogInv /\ CursorNear /\ Drains(f) /\ FollowerInv(f)
           /\ GapFree(f) /\ RenamedOnly /\ pc[f] # "reopen"
           /\ position[f] \in Positions /\ Sound(position[f]) /\ InItsText(position[f])
           /\ Backed(position[f])
           /\ working[f] \in Positions /\ Sound(working[f]) /\ InItsText(working[f])
           /\ cursor \in Positions /\ Sound(cursor) /\ StoredBefore(cursor.text)
           /\ k[f] \in Nat /\ seen[f] \in Nat
BY DEF DrainInv, GapInv, IInv, TypeOK, FollowerInv, Opened, RotatedBetween, GapFree, OpensInText,
       Drains

\* Between polls it matters what the working position promises.
LEMMA IdleDrains ==
    ASSUME NEW f \in Followers, pc'[f] = "idle", InItsText(working[f])',
           NotAfter(Floor(position[f]), Floor(cursor))',
           position'[f] = cursor' /\ working'[f] # NoPosition => StoredBefore(working[f].text)'
    PROVE  Drains(f)'
BY DEF Drains

\* A poll goes on, or ends, with the file it has open.
LEMMA SameFileDrains ==
    ASSUME TypeOK, Aside, NEW f \in Followers, Drains(f), UNCHANGED <<handle, working, position>>,
           pc'[f] \in {"idle", "verify", "read", "stat", "switch", "check", "at", "commit"},
           pc'[f] \in {"stat", "switch"} /\ active # handle[f]
                => files[handle[f]].size <= working[f].offset
    PROVE  Drains(f)'
BY AsideKeeps DEF Drains, InItsText, Floor, NotAfter, Before, StoredBefore, AllStored

LEMMA EndPollDrains ==
    ASSUME TypeOK, Aside, NEW f \in Followers, Drains(f), UNCHANGED <<handle, working, position>>,
           EndPoll(f)
    PROVE  Drains(f)'
<1>1. pc'[f] = "idle"
  BY DEF EndPoll, Goto, TypeOK
<1> QED
  BY <1>1, SameFileDrains

\* _open looks for the saved file at the names where it can be.
LEMMA BeginOpenDrains ==
    ASSUME DrainInv, RotatedBetween, Aside, NEW f \in Followers, NEW r \in 0..3, BeginOpen(f, r)
    PROVE  Drains(f)'
<1>1. /\ TypeOK /\ CursorNear /\ Drains(f) /\ Len(archives) \in Nat
  BY DrainFacts, ArchiveType
<1>2. /\ handle'[f] = None /\ working'[f] = NoPosition /\ position' = position
      /\ k'[f] = 0 /\ pc'[f] = IF position[f] = NoPosition THEN "fresh" ELSE "scan"
      /\ seen'[f] = Len(archives)
  BY <1>1 DEF BeginOpen, Close, SetHandle, Goto, TypeOK
<1>3. archives # <<>> => Len(archives) > 0
  BY <1>1 DEF TypeOK, LogTypeOK
<1>4. NotAfter(Floor(position[f]), Floor(cursor))'
  BY <1>1, <1>2, AsideKeeps DEF Drains, Floor, NotAfter, Before
<1> QED
  BY <1>1, <1>2, <1>3, <1>4, AsideKeeps DEF Drains, InItsText, CursorNear

\* _open returns with a file whose older logs are stored.
LEMMA EndOpenDrains ==
    ASSUME DrainInv, RotatedBetween, Aside, NEW f \in Followers, NEW file \in Files,
           NEW p \in Positions, EndOpen(f, file, p), UNCHANGED position,
           files[p.file].text = p.text, position[f] = cursor => StoredBefore(p.text)
    PROVE  Drains(f)'
<1>1. TypeOK /\ Drains(f)
  BY DrainFacts
<1>2. handle'[f] = file /\ working'[f] = p /\ pc'[f] \in {"idle", "verify", "read"}
  BY <1>1 DEF EndOpen, EndPoll, SetHandle, Goto, TypeOK
<1>3. InItsText(working[f])'
  BY <1>2, AsideKeeps DEF InItsText
<1>4. NotAfter(Floor(position[f]), Floor(cursor))'
  BY <1>1, <1>2, AsideKeeps DEF Drains, Floor, NotAfter, Before
<1>5. position'[f] = cursor' => StoredBefore(working[f].text)'
  BY <1>2, AsideKeeps DEF StoredBefore, AllStored
<1> QED
  BY <1>2, <1>3, <1>4, <1>5 DEF Drains

\* The first pass finds the saved file at one of the first two names.
LEMMA ScanIdentityDrains ==
    ASSUME DrainInv, RotatedBetween, Aside, NEW f \in Followers, ScanIdentity(f)
    PROVE  Drains(f)'
<1> DEFINE c == Candidate(k[f])
           p == position[f]
<1>0. /\ TypeOK /\ Drains(f) /\ c \in Files \cup {None} /\ p \in Positions /\ p # NoPosition
      /\ p.file # None /\ files[p.file].text = p.text /\ Matches(p.file, p)
      /\ k[f] \in Nat /\ seen[f] \in Nat /\ Len(archives) \in Nat
  <2>1. /\ TypeOK /\ Drains(f) /\ c \in Files \cup {None} /\ p \in Positions /\ p # NoPosition
        /\ Sound(p) /\ InItsText(p) /\ Backed(p) /\ k[f] \in Nat /\ seen[f] \in Nat
        /\ Len(archives) \in Nat
    BY DrainFacts, CandidateType, ArchiveType DEF ScanIdentity, GapFree, OpensInText
  <2> QED
    BY <2>1 DEF Sound, InItsText, Backed, Matches
<1>1. CASE c # None /\ c = p.file /\ Matches(c, p)
  <2>1. EndOpen(f, c, p) /\ UNCHANGED position /\ c \in Files
    BY <1>0, <1>1 DEF ScanIdentity
  <2> QED
    BY <1>0, <2>1, EndOpenDrains, DrainFacts
<1>2. CASE ~(c # None /\ c = p.file /\ Matches(c, p))
  <2>1. /\ UNCHANGED <<handle, working, seen, position>>
        /\ \/ k'[f] = k[f] + 1 /\ pc'[f] = "scan"
           \/ pc'[f] \in {"fresh", "anchor"} /\ ~(k[f] < seen[f])
    BY <1>0, <1>2 DEF ScanIdentity, Goto, TypeOK
  <2>2. c # p.file
    BY <1>0, <1>2
  <2>3. p = cursor => /\ k[f] = 0 /\ seen[f] > 0
                      /\ archives # <<>> /\ cursor.file = archives[1]
    <3>1. ASSUME p = cursor, k[f] = 0 PROVE cursor.file # active
      BY <2>2, <3>1 DEF Candidate
    <3>2. ASSUME p = cursor, k[f] = 1, archives # <<>> PROVE cursor.file # archives[1]
      <4>1. 1 <= Len(archives)
        BY <1>0, <3>2 DEF TypeOK, LogTypeOK
      <4> QED
        BY <2>2, <3>2, <4>1 DEF Candidate
    <3> QED
      BY <1>0, <3>1, <3>2 DEF Drains, ScanIdentity
  <2>4. position'[f] = cursor' => pc'[f] = "scan" /\ k'[f] = 1
    BY <1>0, <2>1, <2>3, AsideKeeps
  <2>5. NotAfter(Floor(position[f]), Floor(cursor))' /\ InItsText(working[f])'
    BY <1>0, <2>1, AsideKeeps DEF Drains, InItsText, Floor, NotAfter, Before
  <2>6. position'[f] = cursor' /\ working'[f] # NoPosition => StoredBefore(working[f].text)'
    BY <1>0, <2>1, AsideKeeps DEF Drains, StoredBefore, AllStored
  <2>7. pc'[f] \notin {"stat", "switch"}
    BY <2>1
  <2> QED
    BY <1>0, <2>1, <2>3, <2>4, <2>5, <2>6, <2>7, AsideKeeps DEF Drains
<1> QED
  BY <1>1, <1>2

\* Only a follower that the cursor no longer accepts gets to the second pass.
LEMMA ScanAnchorDrains ==
    ASSUME DrainInv, RotatedBetween, Aside, NEW f \in Followers, ScanAnchor(f)
    PROVE  Drains(f)'
<1>0. TypeOK /\ Drains(f) /\ position[f] # cursor
  BY DrainFacts DEF ScanAnchor, Drains
<1>1. /\ UNCHANGED <<handle, working, position>>
      /\ pc'[f] \in {"idle", "reopen", "anchor", "fresh"}
  BY <1>0 DEF ScanAnchor, EndPoll, Goto, TypeOK
<1> QED
  BY <1>0, <1>1, AsideKeeps DEF Drains, InItsText, Floor, NotAfter, Before

\* A follower that starts afresh starts with the first log there is.
LEMMA OpenFreshDrains ==
    ASSUME DrainInv, RotatedBetween, Aside, NEW f \in Followers, OpenFresh(f)
    PROVE  Drains(f)'
<1>0. TypeOK /\ LogTypeOK /\ LogInv /\ CursorNear /\ Drains(f)
  BY DrainFacts
<1>1. CASE active = None
  BY <1>0, <1>1, EndPollDrains DEF OpenFresh
<1>2. CASE active # None
  <2>1. active \in Files /\ 0 \in 0..MaxLines /\ files[active].text = newest
    BY <1>0, <1>2, LogNumbers, SourceLogAssumption DEF LogInv
  <2>2. At(active, 0) \in Positions /\ At(active, 0).file = active /\ At(active, 0).text = newest
    BY <1>0, <2>1, AtType
  <2>3. position[f] = cursor => StoredBefore(newest)
    <3>1. position[f] = cursor => newest <= 1
      BY <1>0 DEF OpenFresh, Drains, CursorNear, NoPosition
    <3> QED
      BY <1>0, <3>1, LogNumbers DEF StoredBefore
  <2> QED
    BY <1>2, <2>1, <2>2, <2>3, EndOpenDrains DEF OpenFresh
<1> QED
  BY <1>1, <1>2

\* The replacement is read once the previous file is read to its end.
LEMMA SwitchFileDrains ==
    ASSUME DrainInv, RotatedBetween, Aside, NEW f \in Followers, SwitchFile(f)
    PROVE  Drains(f)'
<1> DEFINE w == working[f]
           h == handle[f]
<1>0. /\ TypeOK /\ LogTypeOK /\ LogInv /\ CursorNear /\ Drains(f) /\ FollowerInv(f) /\ GapFree(f)
      /\ w \in Positions /\ w # NoPosition /\ h \in Files /\ w.file = h
      /\ files[h].text = w.text /\ position[f] \in Positions /\ cursor \in Positions
      /\ w.text \in Nat /\ w.offset \in Nat /\ newest \in Nat /\ position[f].text \in Nat
      /\ files[h].size \in Nat
  <2>1. /\ TypeOK /\ LogTypeOK /\ LogInv /\ CursorNear /\ Drains(f) /\ FollowerInv(f) /\ GapFree(f)
        /\ w \in Positions /\ w # NoPosition /\ h \in Files /\ w.file = h
        /\ position[f] \in Positions /\ cursor \in Positions
    BY DrainFacts, FileIsOpen DEF SwitchFile, FollowerInv, Opened
  <2> QED
    BY <2>1, LogNumbers, PositionNumbers DEF Drains, InItsText
<1>1. CASE active = None
  BY <1>0, <1>1, EndPollDrains DEF SwitchFile
<1>2. CASE active # None
  <2>1. /\ active \in Files /\ 0 \in 0..MaxLines /\ files[active].text = newest
        /\ files[active].text > w.text
    BY <1>0, <1>2, LogNumbers, SourceLogAssumption DEF LogInv, SwitchFile, FollowerInv, Opened
  <2>2. At(active, 0) \in Positions /\ At(active, 0).file = active /\ At(active, 0).text = newest
    BY <1>0, <2>1, AtType
  <2>3. /\ working'[f] = At(active, 0) /\ UNCHANGED position /\ pc'[f] \in {"idle", "read"}
    BY <1>0, <1>2 DEF SwitchFile, SetHandle, EndPoll, Goto, TypeOK
  <2>4. AllStored(files[h].text, files[h].size)
    <3>1. files[h].size <= w.offset
      BY <1>0, <2>1 DEF SwitchFile, Drains
    <3>2. w.offset # 0 => AllStored(w.text, w.offset)
      BY <1>0 DEF GapFree, ReadsOn, Backed
    <3> QED
      BY <1>0, <3>1, <3>2 DEF AllStored
  <2>5. ASSUME position[f] = cursor
        PROVE  StoredBefore(newest)
    <3>1. newest <= w.text + 1
      <4>1. position[f].text <= w.text
        BY <1>0, FloorType DEF FollowerInv, Opened, NotAfter, Before
      <4> QED
        BY <1>0, <2>5, <4>1 DEF CursorNear
    <3>2. StoredBefore(w.text)
      BY <1>0, <2>5 DEF Drains
    <3>3. ASSUME NEW g \in Files, files[g].text # 0, files[g].text < newest
          PROVE  AllStored(files[g].text, files[g].size)
      <4>1. files[g].text < w.text \/ files[g].text = files[h].text
        BY <1>0, <3>1, <3>3, LogNumbers
      <4>2. files[g].text = files[h].text => g = h
        BY <1>0, <3>3 DEF LogInv
      <4> QED
        BY <2>4, <3>2, <3>3, <4>1, <4>2 DEF StoredBefore
    <3> QED
      BY <3>3 DEF StoredBefore
  <2>6. InItsText(working[f])' /\ NotAfter(Floor(position[f]), Floor(cursor))'
    BY <1>0, <2>1, <2>2, <2>3, AsideKeeps DEF Drains, InItsText, Floor, NotAfter, Before
  <2>7. position'[f] = cursor' => StoredBefore(working[f].text)'
    BY <2>2, <2>3, <2>5, AsideKeeps DEF StoredBefore, AllStored
  <2> QED
    BY <2>3, <2>6, <2>7 DEF Drains
<1> QED
  BY <1>1, <1>2

\* A follower's steps without a transaction.
LEMMA AsideStepDrains ==
    ASSUME DrainInv, RotatedBetween, NEW f \in Followers, AsideSteps(f)
    PROVE  Aside /\ Drains(f)'
<1>0. /\ TypeOK /\ Drains(f) /\ FollowerInv(f) /\ pc[f] # "reopen"
  BY DrainFacts
<1>1. Aside
  BY DEF Aside, AsideSteps, PollStart, Verify, ScanIdentity, ScanAnchor, ReopenArchive, OpenFresh,
         Read, StatActive, SwitchFile, Recheck, TakePosition, PollRaises, AnchorReadFails
<1>2. CASE PollStart(f)
  <2>1. CASE handle[f] = None
    BY <1>1, <1>2, <2>1, BeginOpenDrains DEF PollStart
  <2>2. CASE handle[f] # None
    <3>1. pc'[f] = "verify" /\ UNCHANGED <<handle, working, position>>
      BY <1>0, <1>2, <2>2 DEF PollStart, Goto, TypeOK
    <3> QED
      BY <1>0, <1>1, <3>1, SameFileDrains
  <2> QED
    BY <2>1, <2>2
<1>3. CASE Verify(f)
  <2>1. CASE ~Matches(handle[f], working[f])
    BY <1>1, <1>3, <2>1, BeginOpenDrains DEF Verify
  <2>2. CASE Matches(handle[f], working[f])
    <3>1. pc'[f] = "read" /\ UNCHANGED <<handle, working, position>>
      BY <1>0, <1>3, <2>2 DEF Verify, Goto, TypeOK
    <3> QED
      BY <1>0, <1>1, <3>1, SameFileDrains
  <2> QED
    BY <2>1, <2>2
<1>4. CASE Read(f)
  <2>1. /\ UNCHANGED <<handle, working, position>>
        /\ \/ pc'[f] = "check"
           \/ pc'[f] = "stat" /\ ~(files[handle[f]].size > working[f].offset)
    BY <1>0, <1>4 DEF Read, Goto, TypeOK
  <2>2. files[handle[f]].size \in Nat /\ working[f].offset \in Nat
    BY <1>0, <1>4, FileIsOpen, LogNumbers, PositionNumbers DEF Read, TypeOK
  <2> QED
    BY <1>0, <1>1, <2>1, <2>2, SameFileDrains
<1>5. CASE StatActive(f)
  <2>1. UNCHANGED <<handle, working, position>> /\ pc'[f] \in {"idle", "switch"}
    BY <1>0, <1>5 DEF StatActive, EndPoll, Goto, TypeOK
  <2>2. active # handle[f] => files[handle[f]].size <= working[f].offset
    BY <1>0, <1>5 DEF StatActive, Drains
  <2> QED
    BY <1>0, <1>1, <2>1, <2>2, SameFileDrains
<1>6. CASE Recheck(f)
  <2>1. CASE ~Matches(handle[f], working[f])
    BY <1>1, <1>6, <2>1, BeginOpenDrains DEF Recheck
  <2>2. CASE Matches(handle[f], working[f])
    <3>1. pc'[f] = "at" /\ UNCHANGED <<handle, working, position>>
      BY <1>0, <1>6, <2>2 DEF Recheck, Goto, TypeOK
    <3> QED
      BY <1>0, <1>1, <3>1, SameFileDrains
  <2> QED
    BY <2>1, <2>2
<1>7. CASE TakePosition(f)
  <2>1. pc'[f] = "commit" /\ UNCHANGED <<handle, working, position>>
    BY <1>0, <1>7 DEF TakePosition, Goto, TypeOK
  <2> QED
    BY <1>0, <1>1, <2>1, SameFileDrains
<1>8. CASE PollRaises(f)
  BY <1>0, <1>1, <1>8, EndPollDrains DEF PollRaises
<1>9. ~ReopenArchive(f) /\ ~AnchorReadFails(f)
  BY <1>0 DEF ReopenArchive, AnchorReadFails
<1> QED
  BY <1>1, <1>2, <1>3, <1>4, <1>5, <1>6, <1>7, <1>8, <1>9,
     ScanIdentityDrains, ScanAnchorDrains, OpenFreshDrains, SwitchFileDrains
  DEF AsideSteps

-----------------------------------------------------------------------------
\* A transaction moves the cursor forward, in the log that the follower reads.
LEMMA TransactionMoves ==
    ASSUME DrainInv, RotatedBetween, NEW f \in Followers, Transaction(f), UNCHANGED logVars
    PROVE  /\ cursor = position[f] /\ cursor' = next[f] /\ next[f] \in Positions
           /\ Before(Floor(cursor), Floor(next[f]))
           /\ handle[f] \in Files /\ next[f].file = handle[f] /\ next[f].text = working[f].text
           /\ files[handle[f]].text = next[f].text /\ working[f] # NoPosition
           /\ Sound(next[f]) /\ cursor.text <= next[f].text
<1> DEFINE b == batch[f]
           n == next[f]
<1>1. /\ TypeOK /\ FollowerInv(f) /\ GapFree(f) /\ Drains(f) /\ cursor = position[f] /\ cursor' = n
      /\ pc[f] = "commit" /\ cursor \in Positions /\ n \in Positions /\ b \in Batches
      /\ handle[f] \in Files /\ working[f].file = handle[f] /\ working[f] # NoPosition
  BY DrainFacts, FileIsOpen DEF Transaction, CursorAccepts, TypeOK, FollowerInv, Opened
<1>2. /\ Before(Floor(cursor), <<b.text, b.first>>) /\ b.first <= b.last
      /\ NotAfter(<<b.text, b.last>>, Floor(n)) /\ n.file = handle[f] /\ Sound(n)
      /\ b.text = files[handle[f]].text /\ n.text = b.text
  BY <1>1 DEF FollowerInv, InBatch, GapFree, ReadsOn
<1>3. files[handle[f]].text = working[f].text
  BY <1>1 DEF Drains, InItsText
<1>4. /\ b.text \in Nat /\ b.first \in Nat /\ b.last \in Nat /\ cursor.text \in Nat
      /\ Floor(cursor) \in Nat \X Nat /\ Floor(n) \in Nat \X Nat /\ Floor(cursor)[1] = cursor.text
  BY <1>1, BatchNumbers, PositionNumbers, FloorType
<1>5. /\ NotAfter(<<b.text, b.first>>, <<b.text, b.last>>)
      /\ <<b.text, b.first>> \in Nat \X Nat /\ <<b.text, b.last>> \in Nat \X Nat
  BY <1>2, <1>4 DEF NotAfter, Before
<1>6. Before(Floor(cursor), Floor(n))
  <2>1. Before(Floor(cursor), <<b.text, b.last>>)
    BY <1>2, <1>4, <1>5, OrderTransitive
  <2> QED
    BY <1>2, <1>4, <1>5, <2>1, OrderTransitive
<1>7. cursor.text <= b.text
  BY <1>2, <1>4 DEF Before
<1> QED
  BY <1>1, <1>2, <1>3, <1>6, <1>7

\* After it the cursor is still near the newest log, with the older ones stored.
LEMMA TransactionNear ==
    ASSUME DrainInv, RotatedBetween, RowsStay, NEW f \in Followers, Transaction(f),
           UNCHANGED logVars
    PROVE  CursorNear' /\ StoredBefore(cursor.text)'
<1> DEFINE n == next[f]
<1>1. /\ cursor = position[f] /\ cursor' = n /\ n \in Positions
      /\ handle[f] \in Files /\ n.file = handle[f] /\ n.text = working[f].text
      /\ files[handle[f]].text = n.text /\ working[f] # NoPosition /\ cursor.text <= n.text
      /\ n.text <= newest
  BY TransactionMoves DEF Sound
<1>2. /\ TypeOK /\ LogTypeOK /\ LogInv /\ CursorNear /\ Drains(f) /\ cursor \in Positions
      /\ InItsText(cursor) /\ Sound(cursor)
  BY DrainFacts DEF DrainInv, GapInv
<1>3. /\ n.text \in Nat /\ cursor.text \in Nat /\ newest \in Nat
      /\ cursor.file # None => cursor.file \in Files
  BY <1>1, <1>2, LogNumbers, PositionNumbers
<1>4. files' = files /\ active' = active /\ archives' = archives /\ writer' = writer /\ newest' = newest
  BY DEF logVars
<1>5. n.file = active \/ (archives # <<>> /\ n.file = archives[1])
  <2>1. CASE n.text = cursor.text
    <3>1. cursor # NoPosition
      <4>1. n.text # 0
        BY <1>1, TransactionMoves, DrainFacts DEF Sound, Files, None
      <4> QED
        BY <2>1, <4>1 DEF NoPosition
    <3>2. cursor.file \in Files /\ files[cursor.file].text = cursor.text
      BY <1>2, <1>3, <3>1 DEF Sound, InItsText
    <3>3. cursor.text # 0
      BY <1>2, <3>1 DEF Sound
    <3>4. cursor.file = handle[f]
      BY <1>1, <1>2, <2>1, <3>2, <3>3 DEF LogInv
    <3> QED
      BY <1>1, <1>2, <3>1, <3>4 DEF CursorNear
  <2>2. CASE n.text # cursor.text
    <3>1. n.text = newest /\ active # None
      BY <1>1, <1>2, <1>3, <2>2 DEF CursorNear
    <3>2. active \in Files /\ files[active].text = newest /\ newest # 0
      BY <1>2, <3>1, LogNumbers DEF LogInv
    <3> QED
      BY <1>1, <1>2, <3>1, <3>2 DEF LogInv
  <2> QED
    BY <2>1, <2>2
<1>6. CursorNear'
  BY <1>1, <1>2, <1>3, <1>4, <1>5 DEF CursorNear
<1>7. StoredBefore(n.text)
  BY <1>1, <1>2 DEF Drains
<1>8. \A g \in Files : files'[g].text # 0 /\ files'[g].text < n.text
          => \A i \in 1..files'[g].size : stored'[<<files'[g].text, i>>] = 1
  BY <1>2, <1>3, <1>4, <1>7, StoredBeforeStays
<1>9. StoredBefore(cursor.text)'
  BY <1>1, <1>8 DEF StoredBefore, AllStored
<1> QED
  BY <1>6, <1>9

\* What comes after a place does not come before it.
LEMMA BeforeIsStrict ==
    ASSUME NEW p \in Positions, NEW q \in Positions, NEW r \in Positions,
           NotAfter(Floor(r), Floor(p)), Before(Floor(p), Floor(q))
    PROVE  NotAfter(Floor(r), Floor(q)) /\ r # q
<1>1. Floor(p) \in Nat \X Nat /\ Floor(q) \in Nat \X Nat /\ Floor(r) \in Nat \X Nat
  BY FloorType
<1>2. Before(Floor(r), Floor(q))
  BY <1>1, OrderTransitive
<1>3. ~Before(Floor(q), Floor(q))
  BY <1>1 DEF Before
<1> QED
  BY <1>2, <1>3 DEF NotAfter

\* What a follower keeps when another one steps.
LEMMA OtherDrains ==
    ASSUME DrainInv, RotatedBetween, RowsStay, NEW f \in Followers, Poll(f) \/ Failure(f),
           NEW g \in Followers, g # f
    PROVE  Drains(g)'
<1>1. /\ TypeOK /\ Drains(g) /\ position[g] \in Positions /\ cursor \in Positions
      /\ SameState(g) /\ UNCHANGED logVars
      /\ working[g] \in Positions /\ working[g].text \in Nat
  <2>1. /\ TypeOK /\ Drains(g) /\ position[g] \in Positions /\ cursor \in Positions
        /\ working[g] \in Positions
    BY DrainFacts
  <2> QED
    BY <2>1, OthersStay, PositionNumbers
<1>2. files' = files /\ active' = active /\ archives' = archives
  BY <1>1 DEF logVars
<1>3. InItsText(working[g])'
  BY <1>1, <1>2 DEF Drains, InItsText, SameState, SameMemory
<1>4. CASE Transaction(f)
  <2>1. /\ cursor' = next[f] /\ next[f] \in Positions /\ Before(Floor(cursor), Floor(next[f]))
    BY <1>1, <1>4, TransactionMoves
  <2>2. NotAfter(Floor(position[g]), Floor(next[f])) /\ position[g] # next[f]
    BY <1>1, <2>1, BeforeIsStrict DEF Drains
  <2>3. NotAfter(Floor(position[g]), Floor(cursor))' /\ position'[g] # cursor'
    BY <1>1, <2>1, <2>2 DEF SameState, SameMemory, Floor, NotAfter, Before
  <2> QED
    BY <1>1, <1>2, <1>3, <2>3 DEF Drains, SameState, SameMemory
<1>5. CASE UNCHANGED dbVars
  <2>1. cursor' = cursor /\ stored' = stored
    BY <1>5 DEF dbVars
  <2>2. NotAfter(Floor(position[g]), Floor(cursor))'
    BY <1>1, <2>1 DEF Drains, SameState, SameMemory, Floor, NotAfter, Before
  <2>3. position'[g] = cursor' /\ working'[g] # NoPosition => StoredBefore(working[g].text)'
    BY <1>1, <1>2, <2>1 DEF Drains, SameState, SameMemory, StoredBefore, AllStored
  <2> QED
    BY <1>1, <1>2, <1>3, <2>1, <2>2, <2>3 DEF Drains, SameState, SameMemory
<1>6. Transaction(f) \/ UNCHANGED dbVars
  BY DEF Poll, Failure, PollStart, Verify, ScanIdentity, ScanAnchor, ReopenArchive, OpenFresh,
         Read, StatActive, SwitchFile, Recheck, TakePosition, Commit, CommitRejected, RolledBack,
         CommitFails, AfterCommitRaises, PollRaises, AnchorReadFails, Crash
<1> QED
  BY <1>4, <1>5, <1>6

\* A follower's own step keeps what it promises, and the cursor near the newest log.
LEMMA OwnStepDrains ==
    ASSUME DrainInv, RotatedBetween, RowsStay, NEW f \in Followers, Poll(f) \/ Failure(f)
    PROVE  Drains(f)' /\ CursorNear' /\ StoredBefore(cursor.text)'
<1>0. /\ TypeOK /\ CursorNear /\ StoredBefore(cursor.text) /\ Drains(f)
      /\ cursor \in Positions /\ working[f] \in Positions /\ position[f] \in Positions
  BY DrainFacts
<1>1. CASE AsideSteps(f)
  <2>1. Aside /\ Drains(f)'
    BY <1>1, AsideStepDrains
  <2> QED
    BY <1>0, <2>1, AsideKeeps DEF CursorNear, StoredBefore, AllStored, Aside, logVars
<1>2. CASE Commit(f)
  <2>1. /\ Transaction(f) /\ UNCHANGED logVars /\ pc'[f] = "idle" /\ handle' = handle
        /\ position'[f] = next[f] /\ working'[f] = next[f] /\ cursor' = next[f] /\ files' = files
    BY <1>0, <1>2 DEF Commit, Transaction, EndPoll, Goto, TypeOK, logVars
  <2>2. CursorNear' /\ StoredBefore(cursor.text)'
    BY <2>1, TransactionNear
  <2>3. InItsText(working[f])' /\ NotAfter(Floor(position[f]), Floor(cursor))'
    BY <2>1, TransactionMoves DEF InItsText, NotAfter, Floor
  <2>4. StoredBefore(working[f].text)'
    BY <2>1, <2>2 DEF StoredBefore, AllStored
  <2> QED
    BY <2>1, <2>2, <2>3, <2>4, IdleDrains
<1>3. CASE AfterCommitRaises(f)
  <2>1. /\ Transaction(f) /\ UNCHANGED logVars /\ pc'[f] = "idle" /\ files' = files
        /\ UNCHANGED <<handle, working, position>>
    BY <1>0, <1>3 DEF AfterCommitRaises, Transaction, EndPoll, Goto, TypeOK, logVars
  <2>2. CursorNear' /\ StoredBefore(cursor.text)'
    BY <2>1, TransactionNear
  <2>3. NotAfter(Floor(position[f]), Floor(next[f])) /\ position[f] # next[f] /\ cursor' = next[f]
    BY <1>0, <2>1, TransactionMoves, BeforeIsStrict DEF NotAfter
  <2>4. /\ InItsText(working[f])' /\ NotAfter(Floor(position[f]), Floor(cursor))'
        /\ position'[f] # cursor'
    BY <1>0, <2>1, <2>3 DEF Drains, InItsText, NotAfter, Before, Floor
  <2> QED
    BY <2>1, <2>2, <2>4, IdleDrains
<1>4. CASE CommitRejected(f) \/ CommitFails(f) \/ Crash(f)
  <2>1. /\ EndPoll(f) /\ Close(f) /\ position'[f] = cursor /\ Aside
    BY <1>0, <1>4 DEF CommitRejected, CommitFails, RolledBack, Crash, TypeOK, Aside
  <2>2. pc'[f] = "idle" /\ working'[f] = NoPosition
    BY <1>0, <2>1 DEF EndPoll, Goto, Close, SetHandle, TypeOK
  <2>3. InItsText(working[f])' /\ NotAfter(Floor(position[f]), Floor(cursor))'
    BY <2>1, <2>2, AsideKeeps DEF InItsText, NotAfter, Floor
  <2> QED
    BY <1>0, <2>1, <2>2, <2>3, AsideKeeps, IdleDrains
    DEF CursorNear, StoredBefore, AllStored, Aside, logVars
<1> QED
  BY <1>1, <1>2, <1>3, <1>4 DEF Poll, Failure, AsideSteps

-----------------------------------------------------------------------------
LEMMA InitDrainInv == Init => DrainInv
<1> SUFFICES ASSUME Init PROVE DrainInv
  OBVIOUS
<1>1. GapInv
  BY InitGapInv
<1>2. CursorNear
  BY DEF Init, LogInit, CursorNear, NoPosition, None
<1>3. StoredBefore(cursor.text)
  <2>1. TypeOK /\ cursor.text = 0
    BY InitType DEF Init, NoPosition
  <2> QED
    BY <2>1, LogNumbers DEF StoredBefore, TypeOK
<1>4. ASSUME NEW f \in Followers
      PROVE  Drains(f)
  BY DEF Init, Drains, InItsText, NotAfter
<1> QED
  BY <1>1, <1>2, <1>3, <1>4 DEF DrainInv

LEMMA StepDrainInv ==
    ASSUME RotatedBetween
    PROVE  DrainInv /\ [Next]_vars => DrainInv'
<1> SUFFICES ASSUME DrainInv, [Next]_vars PROVE DrainInv'
  OBVIOUS
<1>0. /\ GapInv /\ IInv /\ TypeOK /\ LogInv /\ CursorNear /\ RenamedOnly
      /\ StoredBefore(cursor.text) /\ cursor \in Positions /\ Sound(cursor) /\ InItsText(cursor)
  BY DEF DrainInv, GapInv, IInv, TypeOK, RotatedBetween
<1>1. GapInv' /\ IInv' /\ TypeOK' /\ RowsStay
  <2>1. GapInv'
    BY <1>0, StepGapInv
  <2>2. IInv' /\ TypeOK'
    BY <2>1 DEF GapInv, IInv
  <2> QED
    BY <1>0, <2>1, <2>2, StepKeepsRows
<1>2. ASSUME NEW f \in Followers, Poll(f) \/ Failure(f)
      PROVE  DrainInv'
  <2>1. Drains(f)' /\ CursorNear' /\ StoredBefore(cursor.text)'
    BY <1>1, <1>2, OwnStepDrains
  <2>2. ASSUME NEW g \in Followers, g # f
        PROVE  Drains(g)'
    BY <1>1, <1>2, <2>2, OtherDrains
  <2> QED
    BY <1>1, <2>1, <2>2 DEF DrainInv
<1>3. CASE Environment
  <2>1. CursorNear'
    BY <1>0, <1>1, <1>3, EnvironmentNear
  <2>2. \A f \in Followers : Drains(f)'
    BY <1>1, <1>3, EnvironmentDrains
  <2>3. StoredBefore(cursor.text)'
    <3>1. cursor' = cursor /\ cursor.text \in Nat /\ cursor.text <= newest
      BY <1>0, <1>3, LogBetweenPolls, PositionNumbers DEF dbVars, Sound
    <3>2. \A g \in Files : files'[g].text # 0 /\ files'[g].text < cursor.text => files'[g] = files[g]
      BY <1>0, <1>3, <3>1, OlderFrozen
    <3>3. \A g \in Files : files'[g].text # 0 /\ files'[g].text < cursor.text
              => \A i \in 1..files'[g].size : stored'[<<files'[g].text, i>>] = 1
      BY <1>0, <1>1, <3>1, <3>2, StoredBeforeStays
    <3> QED
      BY <3>1, <3>3 DEF StoredBefore, AllStored
  <2> QED
    BY <1>1, <2>1, <2>2, <2>3 DEF DrainInv
<1>4. CASE UNCHANGED vars
  <2>1. CursorNear' /\ StoredBefore(cursor.text)'
    BY <1>0, <1>4 DEF vars, logVars, dbVars, CursorNear, StoredBefore, AllStored
  <2>2. ASSUME NEW f \in Followers
        PROVE  Drains(f)'
    BY <1>4, <2>2
    DEF DrainInv, vars, logVars, dbVars, memoryVars, Drains, InItsText, Floor, NotAfter, Before,
        StoredBefore, AllStored
  <2> QED
    BY <1>1, <2>1, <2>2 DEF DrainInv
<1> QED
  BY <1>2, <1>3, <1>4 DEF Next

\* The follower drains the previous file before it follows the replacement: once
\* the cursor is in a log, every line of the older ones has its row, through
\* crashes and failed commits, and whatever else reads the log beside it, where
\* rotation keeps clear of polls and waits until some of the log is stored.
THEOREM PreviousFileDrained ==
    ASSUME RotatedBetween
    PROVE  Spec => []DrainsPreviousFile
<1>1. DrainInv => DrainsPreviousFile
  <2>1. SUFFICES ASSUME DrainInv, NEW f \in Files, NEW i \in 1..files[f].size,
                        files[f].text # 0, files[f].text < Floor(cursor)[1]
                 PROVE  stored[<<files[f].text, i>>] = 1
    BY DEF DrainsPreviousFile
  <2>2. StoredBefore(cursor.text) /\ Floor(cursor)[1] = cursor.text
    BY <2>1 DEF DrainInv, Floor
  <2> QED
    BY <2>1, <2>2 DEF StoredBefore, AllStored
<1> QED
  BY <1>1, InitDrainInv, StepDrainInv, PTL DEF Spec
=============================================================================
