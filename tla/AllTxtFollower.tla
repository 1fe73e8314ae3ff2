--------------------------- MODULE AllTxtFollower ---------------------------
(***************************************************************************)
(* The live ALL.TXT input (wsjtx/file_input.py) over the receive log of    *)
(* SourceLog: every poll reads a batch of complete lines after the saved   *)
(* position and stores them, with the new position, in one transaction     *)
(* (ingest.py, ingest_file_batch).  The log is renamed, created, truncated *)
(* and compressed by others between any two system calls of a poll; the    *)
(* process crashes and restarts between any two of them.                   *)
(*                                                                         *)
(* A position is what FilePosition holds: file (device and inode), offset  *)
(* and anchor, the bytes before the offset.  Anchors are abstracted to     *)
(* what a comparison with them can tell: "full" bytes are found again at   *)
(* the offset in the same text only, "short" ones (read past the end of a  *)
(* truncated file) nowhere, "empty" ones everywhere.  text is the text     *)
(* they were read from.  The generation is left out: it is stored with the *)
(* rows and never read, and a position that differs in it differs in the   *)
(* text too.                                                               *)
(***************************************************************************)
EXTENDS SourceLog

CONSTANTS Followers,    \* consumers of this source; the writer lock allows one
          BatchLines,   \* MAX_BATCH_LINES
          AnchorLines,  \* ANCHOR_BYTES, in lines
          MaxFaults,    \* bound: crashes and failed calls
          Overlap,      \* TRUE: rotation may fall inside a poll
          Outage,       \* TRUE: a log may be rotated before any of it is stored
          Truncation,   \* when the active log may be truncated in place: "never",
                        \* "between" polls, or "anytime"
          OpenFaults    \* TRUE: reading the anchor of a reopened archive may fail

ASSUME FollowerAssumption ==
    /\ BatchLines \in Nat \ {0}
    /\ AnchorLines \in Nat \ {0}
    /\ MaxFaults \in Nat
    /\ Overlap \in BOOLEAN /\ Outage \in BOOLEAN
    /\ Truncation \in {"never", "between", "anytime"} /\ OpenFaults \in BOOLEAN

VARIABLES pc,        \* the next call of the poll; "idle" between polls
          handle,    \* _handle, or None
          working,   \* _working: where to read in the handle
          position,  \* position: what this follower takes the cursor to be
          seen,      \* archives the glob of _open returned
          k,         \* candidate the scan of _open is at; 0 is the active name
          round,     \* 1, 2: round of _poll's loop; while _open runs, what is to
               \* follow: 0 to return, 3 to verify the anchor again, 1 to read
          batch,     \* the lines read and not yet stored
          next,      \* the position to be committed with them
          cursor,    \* the input_cursors row of this source
          stored,    \* observation rows of each line
          faults     \* crashes and failed calls so far

pollVars   == <<seen, k, round, batch, next>>
memoryVars == <<pc, handle, working, position, seen, k, round, batch, next>>
dbVars     == <<cursor, stored>>
vars       == <<logVars, memoryVars, dbVars, faults>>

Labels    == {"idle", "scan", "anchor", "reopen", "fresh",
              "verify", "read", "stat", "switch", "check", "at", "commit"}
Positions == [file : 0..MaxFiles, offset : 0..MaxLines, text : 0..MaxTexts,
              anchor : {"none", "empty", "short", "full"}]
Batches   == [text : 0..MaxTexts, first : 0..(MaxLines + 1), last : 0..MaxLines]

NoPosition == [file |-> None, offset |-> 0, text |-> 0, anchor |-> "none"]
NoBatch    == [text |-> 0, first |-> 0, last |-> 0]

TypeOK ==
    /\ LogTypeOK
    /\ pc \in [Followers -> Labels]
    /\ handle \in [Followers -> Files \cup {None}]
    /\ working \in [Followers -> Positions]
    /\ position \in [Followers -> Positions]
    /\ seen \in [Followers -> Nat]
    /\ k \in [Followers -> Nat]
    /\ round \in [Followers -> 0..3]
    /\ batch \in [Followers -> Batches]
    /\ next \in [Followers -> Positions]
    /\ cursor \in Positions
    /\ stored \in [Lines -> Nat]
    /\ faults \in 0..MaxFaults

-----------------------------------------------------------------------------
\* Lines in the order in which they were received.
Before(a, b)  == a[1] < b[1] \/ (a[1] = b[1] /\ a[2] < b[2])
NotAfter(a, b) == a = b \/ Before(a, b)

\* The last line that a position promises to be stored already.
Floor(p) == <<p.text, IF p.anchor = "full" THEN p.offset ELSE 0>>

\* (mutant) _matches compares the size only.
MatchesSizeOnly(f, p) == files[f].size >= p.offset

\* _matches: the file reaches the offset and still has the anchor before it.
Matches(f, p) ==
    /\ files[f].size >= p.offset
    /\ p.anchor = "empty" \/ (p.anchor = "full" /\ files[f].text = p.text)

\* _at: the position of an offset in an open file, with the anchor before it.
At(f, offset) ==
    [file |-> f, offset |-> offset, text |-> files[f].text,
     anchor |-> IF offset = 0 \/ files[f].size = 0
                     \/ files[f].size + AnchorLines <= offset THEN "empty"
                ELSE IF files[f].size < offset THEN "short" ELSE "full"]

\* (mutant) _open looks at the archives only.
CandidateArchived(n) == IF n \in 1..Len(archives) THEN archives[n] ELSE None

\* The file that the k-th candidate path of _open names now, None for no file.
Candidate(n) ==
    IF n = 0 THEN active ELSE IF n <= Len(archives) THEN archives[n] ELSE None

\* (mutant) The partial line after the last newline is taken too.
BatchEndPartial(f, offset) ==
    IF files[f].size < offset + BatchLines THEN files[f].size + 1 ELSE offset + BatchLines + 1

\* The last line of a batch that starts after this offset of a file.
BatchEnd(f, offset) ==
    IF files[f].size <= offset + BatchLines THEN files[f].size
    ELSE offset + BatchLines

\* (mutant) The cursor row is updated whatever it holds.
CursorAcceptsAny(expected) == TRUE

\* The compare-and-swap of the cursor row: every field is the expected one.
CursorAccepts(expected) == cursor = expected

-----------------------------------------------------------------------------
\* The poll goes on with the next call.
Goto(f, label) == pc' = [pc EXCEPT ![f] = label]

\* The poll is over: it returns or raises.
EndPoll(f) ==
    /\ Goto(f, "idle")
    /\ seen' = [seen EXCEPT ![f] = 0]
    /\ k' = [k EXCEPT ![f] = 0]
    /\ round' = [round EXCEPT ![f] = 0]
    /\ batch' = [batch EXCEPT ![f] = NoBatch]
    /\ next' = [next EXCEPT ![f] = NoPosition]

SetHandle(f, file, p) ==
    /\ handle' = [handle EXCEPT ![f] = file]
    /\ working' = [working EXCEPT ![f] = p]

Close(f) == SetHandle(f, None, NoPosition)

\* (mutant) The saved file is not looked for: the active one is read.
BeginOpenAfresh(f, thenRound) ==
    /\ Close(f)
    /\ seen' = [seen EXCEPT ![f] = Len(archives)]
    /\ k' = [k EXCEPT ![f] = 0]
    /\ round' = [round EXCEPT ![f] = thenRound]
    /\ Goto(f, "fresh")
    /\ UNCHANGED <<position, next>>

\* _open, its first part: close and list the candidate paths.
BeginOpen(f, thenRound) ==
    /\ Close(f)
    /\ seen' = [seen EXCEPT ![f] = Len(archives)]
    /\ k' = [k EXCEPT ![f] = 0]
    /\ round' = [round EXCEPT ![f] = thenRound]
    /\ Goto(f, IF position[f] = NoPosition THEN "fresh" ELSE "scan")
    /\ UNCHANGED <<position, next>>

\* _open returns to where it was called: the poll verifies the anchor or reads,
\* or ends where it reopened after a read.
EndOpen(f, file, p) ==
    /\ SetHandle(f, file, p)
    /\ IF round[f] = 0 THEN EndPoll(f)
       ELSE /\ Goto(f, IF round[f] = 3 THEN "verify" ELSE "read")
            /\ seen' = [seen EXCEPT ![f] = 0]
            /\ k' = [k EXCEPT ![f] = 0]
            /\ round' = [round EXCEPT ![f] = 1]
            /\ UNCHANGED <<batch, next>>

\* A poll starts: open what is not open, and verify the anchor.  An open file
\* without a working position fails the assertion, poll after poll.
PollStart(f) ==
    /\ pc[f] = "idle"
    /\ handle[f] # None => working[f] # NoPosition
    /\ IF handle[f] = None
       THEN BeginOpen(f, 3) /\ UNCHANGED batch
       ELSE /\ Goto(f, "verify")
            /\ round' = [round EXCEPT ![f] = 1]
            /\ UNCHANGED <<handle, working, position, seen, k, batch, next>>
    /\ UNCHANGED <<logVars, dbVars, faults>>

\* A file that was truncated or replaced is opened again.
Verify(f) ==
    /\ pc[f] = "verify"
    /\ IF Matches(handle[f], working[f])
       THEN Goto(f, "read") /\ UNCHANGED <<handle, working, position, pollVars>>
       ELSE BeginOpen(f, 1) /\ UNCHANGED batch
    /\ UNCHANGED <<logVars, dbVars, faults>>

\* First pass of _open: the saved inode with the saved anchor, under any name.
ScanIdentity(f) ==
    /\ pc[f] = "scan"
    /\ LET c == Candidate(k[f]) IN
       IF c # None /\ c = position[f].file /\ Matches(c, position[f])
       THEN EndOpen(f, c, position[f])
       ELSE /\ IF k[f] < seen[f]
               THEN k' = [k EXCEPT ![f] = @ + 1] /\ UNCHANGED pc
               ELSE /\ k' = [k EXCEPT ![f] = 1]
                    /\ Goto(f, IF position[f].anchor # "empty" /\ seen[f] > 0
                               THEN "anchor" ELSE "fresh")
            /\ UNCHANGED <<handle, working, seen, round, batch, next>>
    /\ UNCHANGED <<logVars, position, dbVars, faults>>

\* Second pass of _open: an archive with the saved anchor, whatever its inode.
\* An archive that is gone since the glob raises FileNotFoundError.
ScanAnchor(f) ==
    /\ pc[f] = "anchor"
    /\ LET c == Candidate(k[f]) IN
       IF c = None THEN EndPoll(f)
       ELSE /\ IF Matches(c, position[f]) THEN Goto(f, "reopen") /\ UNCHANGED k
               ELSE IF k[f] < seen[f] THEN k' = [k EXCEPT ![f] = @ + 1] /\ UNCHANGED pc
               ELSE Goto(f, "fresh") /\ UNCHANGED k
            /\ UNCHANGED <<seen, round, batch, next>>
    /\ UNCHANGED <<logVars, handle, working, position, dbVars, faults>>

\* The matching archive is opened a second time, by its name.
ReopenArchive(f) ==
    /\ pc[f] = "reopen"
    /\ LET c == Candidate(k[f]) IN
       IF c = None THEN EndPoll(f) /\ UNCHANGED <<handle, working>>
       ELSE EndOpen(f, c, At(c, position[f].offset))
    /\ UNCHANGED <<logVars, position, dbVars, faults>>

\* Nothing saved is found: the active file is read from its start.
OpenFresh(f) ==
    /\ pc[f] = "fresh"
    /\ IF active = None THEN EndPoll(f) /\ UNCHANGED <<handle, working>>
       ELSE EndOpen(f, active, At(active, 0))
    /\ UNCHANGED <<logVars, position, dbVars, faults>>

-----------------------------------------------------------------------------
\* Read on from the working offset: a batch of complete lines, or none.
Read(f) ==
    /\ pc[f] = "read"
    /\ LET h == handle[f]
           offset == working[f].offset IN
       IF files[h].size > offset
       THEN /\ batch' = [batch EXCEPT ![f] = [text |-> files[h].text, first |-> offset + 1,
                                              last |-> BatchEnd(h, offset)]]
            /\ Goto(f, "check")
       ELSE Goto(f, "stat") /\ UNCHANGED batch
    /\ UNCHANGED <<logVars, handle, working, position, seen, k, round, next, dbVars, faults>>

\* (mutant) The replacement of the active file is not noticed.
StatActiveNever(f) ==
    /\ pc[f] = "stat"
    /\ EndPoll(f)
    /\ UNCHANGED <<logVars, handle, working, position, dbVars, faults>>

\* _switch_if_rotated compares the active name with the open file.  A missing
\* name raises; the same file ends the poll, an oversized line with an error.
StatActive(f) ==
    /\ pc[f] = "stat"
    /\ IF active = None \/ active = handle[f] THEN EndPoll(f)
       ELSE Goto(f, "switch") /\ UNCHANGED pollVars
    /\ UNCHANGED <<logVars, handle, working, position, dbVars, faults>>

\* (mutant) The replacement is read from the offset of the old file.
SwitchFileKeepsOffset(f) ==
    /\ pc[f] = "switch"
    /\ active # None
    /\ SetHandle(f, active, At(active, working[f].offset))
    /\ EndPoll(f)
    /\ UNCHANGED <<logVars, position, dbVars, faults>>

\* ... and opens the replacement, which the second round of the loop reads.
SwitchFile(f) ==
    /\ pc[f] = "switch"
    /\ IF active = None THEN EndPoll(f) /\ UNCHANGED <<handle, working>>
       ELSE /\ SetHandle(f, active, At(active, 0))
            /\ IF round[f] = 2 THEN EndPoll(f)
               ELSE /\ Goto(f, "read")
                    /\ round' = [round EXCEPT ![f] = 2]
                    /\ UNCHANGED <<seen, k, batch, next>>
    /\ UNCHANGED <<logVars, position, dbVars, faults>>

\* After the read: a file truncated meanwhile is reopened, the lines dropped.
Recheck(f) ==
    /\ pc[f] = "check"
    /\ IF Matches(handle[f], working[f])
       THEN Goto(f, "at") /\ UNCHANGED <<handle, working, position, pollVars>>
       ELSE /\ BeginOpen(f, 0)
            /\ batch' = [batch EXCEPT ![f] = NoBatch]
    /\ UNCHANGED <<logVars, dbVars, faults>>

TakePosition(f) ==
    /\ pc[f] = "at"
    /\ next' = [next EXCEPT ![f] = At(handle[f], batch[f].last)]
    /\ Goto(f, "commit")
    /\ UNCHANGED <<logVars, handle, working, position, seen, k, round, batch, dbVars, faults>>

-----------------------------------------------------------------------------
\* ingest_file_batch commits: the cursor moves and every line gets a row.
Transaction(f) ==
    /\ pc[f] = "commit"
    /\ CursorAccepts(position[f])
    /\ cursor' = next[f]
    /\ stored' = [l \in Lines |->
                    IF l[1] = batch[f].text /\ l[2] \in batch[f].first..batch[f].last
                    THEN stored[l] + 1 ELSE stored[l]]
    /\ EndPoll(f)

Commit(f) ==
    /\ Transaction(f)
    /\ position' = [position EXCEPT ![f] = next[f]]
    /\ working' = [working EXCEPT ![f] = next[f]]
    /\ UNCHANGED <<logVars, handle, faults>>

\* The transaction is rolled back: take the cursor from the database, close.
RolledBack(f) ==
    /\ pc[f] = "commit"
    /\ position' = [position EXCEPT ![f] = cursor]
    /\ Close(f)
    /\ EndPoll(f)
    /\ UNCHANGED <<logVars, dbVars>>

\* ... because another consumer has moved the cursor
CommitRejected(f) == ~CursorAccepts(position[f]) /\ RolledBack(f) /\ UNCHANGED faults

Fault == faults < MaxFaults /\ faults' = faults + 1

\* ... because the database refused it.
CommitFails(f) == Fault /\ RolledBack(f)

\* The commit is done and what follows it raises: memory keeps the old position.
AfterCommitRaises(f) ==
    /\ Fault
    /\ Transaction(f)
    /\ UNCHANGED <<logVars, handle, working, position>>

\* A call of the poll raises (a read error, or no cursor from the database).
PollRaises(f) ==
    /\ Fault
    /\ pc[f] # "idle"
    /\ EndPoll(f)
    /\ UNCHANGED <<logVars, handle, working, position, dbVars>>

\* _at raises in _open: the archive is open already, working is not set.
AnchorReadFails(f) ==
    /\ OpenFaults
    /\ Fault
    /\ pc[f] = "reopen"
    /\ Candidate(k[f]) # None
    /\ SetHandle(f, Candidate(k[f]), NoPosition)
    /\ EndPoll(f)
    /\ UNCHANGED <<logVars, position, dbVars>>

\* The process ends anywhere; the next one starts from the saved cursor.
Crash(f) ==
    /\ Fault
    /\ Close(f)
    /\ position' = [position EXCEPT ![f] = cursor]
    /\ EndPoll(f)
    /\ UNCHANGED <<logVars, dbVars>>

Poll(f) ==
    \/ PollStart(f) \/ Verify(f)
    \/ ScanIdentity(f) \/ ScanAnchor(f) \/ ReopenArchive(f) \/ OpenFresh(f)
    \/ Read(f) \/ StatActive(f) \/ SwitchFile(f) \/ Recheck(f) \/ TakePosition(f)
    \/ Commit(f) \/ CommitRejected(f)

Failure(f) ==
    \/ CommitFails(f) \/ AfterCommitRaises(f) \/ PollRaises(f)
    \/ AnchorReadFails(f) \/ Crash(f)

-----------------------------------------------------------------------------
(***************************************************************************)
(* What rotation may meet.  Without Overlap no poll is under way and no    *)
(* line half written when the log is renamed, nor, unless it may be at any *)
(* time, when it is truncated; without Outage some of the log is stored by *)
(* then, so that one archive at most is unread, and delaycompress leaves   *)
(* that one uncompressed.                                                  *)
(***************************************************************************)
Quiet == writer = None /\ \A f \in Followers : pc[f] = "idle"

Rotate ==
    /\ Overlap \/ Quiet
    /\ Outage \/ (active # None /\ cursor.text = files[active].text)
    /\ Rename

Empty ==
    /\ Truncation = "anytime" \/ (Truncation = "between" /\ Quiet)
    /\ Truncate \/ CopyTruncate

Environment ==
    /\ \/ WriterOpen \/ WriterLine \/ WriterDies
       \/ Rotate \/ Create \/ Empty
       \/ (Outage \/ Len(archives) > 1) /\ Compress
    /\ UNCHANGED <<memoryVars, dbVars, faults>>

Init ==
    /\ LogInit
    /\ pc = [f \in Followers |-> "idle"]
    /\ handle = [f \in Followers |-> None]
    /\ working = [f \in Followers |-> NoPosition]
    /\ position = [f \in Followers |-> NoPosition]
    /\ seen = [f \in Followers |-> 0]
    /\ k = [f \in Followers |-> 0]
    /\ round = [f \in Followers |-> 0]
    /\ batch = [f \in Followers |-> NoBatch]
    /\ next = [f \in Followers |-> NoPosition]
    /\ cursor = NoPosition
    /\ stored = [l \in Lines |-> 0]
    /\ faults = 0

Next ==
    \/ \E f \in Followers : Poll(f) \/ Failure(f)
    \/ Environment

Spec == Init /\ [][Next]_vars

\* The poll loop goes on for ever and logrotate creates what it renamed.
FairSpec ==
    /\ Spec
    /\ \A f \in Followers : WF_vars(Poll(f))
    /\ WF_vars(Create /\ UNCHANGED <<memoryVars, dbVars, faults>>)

-----------------------------------------------------------------------------
\* No received line has two observation rows: not after a crash, a failed or
\* half-reported commit, a rotation or truncation inside a poll, or a second
\* consumer (the cursor compare-and-swap of ingest_file_batch).
AtMostOnce == \A l \in Lines : stored[l] <= 1

\* Every stored line lies behind the cursor, in the order of receipt.
StoredBehindCursor ==
    \A l \in Lines : stored[l] > 0 => NotAfter(l, Floor(cursor))

\* Every line of the log the cursor is in, up to the cursor, has its row: the
\* cursor never runs ahead of the rows committed with it.
NoGapBehindCursor ==
    \A i \in 1..Floor(cursor)[2] : stored[<<Floor(cursor)[1], i>>] = 1

\* A log the cursor has left is fully stored: the follower drains the previous
\* file before it follows the replacement (docs/HEADLESS.md).
DrainsPreviousFile ==
    \A f \in Files : \A i \in 1..files[f].size :
        (files[f].text # 0 /\ files[f].text < Floor(cursor)[1])
            => stored[<<files[f].text, i>>] = 1

\* The follower implements the import of SourceImport: whatever happens to the
\* files and the process, each step stores new lines in order, or none.
Import == INSTANCE SourceImport WITH mark <- Floor(cursor), rows <- stored
ImportsInOrder == Import!Spec

\* Whenever a poll starts, an open file has a working position: the assertion
\* of _poll ("assert self._handle is not None and self._working is not None").
OpenFileHasPosition ==
    \A f \in Followers : handle[f] # None => working[f] # NoPosition

\* Every complete line is stored in the end, across rotations and faults.
LinesGetStored ==
    \A l \in Lines : Written(l[1], l[2]) ~> (stored[l] = 1)

-----------------------------------------------------------------------------
(***************************************************************************)
(* Why no line is stored twice: the inductive invariant of the proof.      *)
(***************************************************************************)
\* A text is in one file; the active file has the newest one, the archives
\* older ones, the newest first.
LogInv ==
    /\ \A f \in Files : files[f].text <= newest
    /\ \A f, g \in Files : files[f].text = files[g].text /\ files[f].text # 0 => f = g
    /\ active # None => files[active].text = newest
    /\ \A i \in 1..Len(archives) :
          /\ files[archives[i]].text # 0
          /\ active # None => files[archives[i]].text < newest
          /\ \A j \in 1..Len(archives) :
                i < j => files[archives[j]].text < files[archives[i]].text

\* The file of a position has not gone back to an older or shorter text.
Sound(p) ==
    /\ p.text <= newest
    /\ p.anchor = "none" <=> p = NoPosition
    /\ p.file = None <=> p = NoPosition
    /\ p.anchor = "full" => p.offset > 0
    /\ p.file # None =>
          /\ p.text > 0
          /\ files[p.file].text >= p.text
          /\ p.anchor = "full" /\ files[p.file].text = p.text
                => files[p.file].size >= p.offset

\* Reading a file from its start stores nothing that the position covers.
ActiveAhead(f) ==
    active # None => NotAfter(Floor(position[f]), <<files[active].text, 0>>)

Opening(f) ==
    /\ (pc[f] = "scan" /\ k[f] > 0) \/ pc[f] \in {"anchor", "reopen", "fresh"} => ActiveAhead(f)
    /\ pc[f] \in {"anchor", "reopen"} => position[f].anchor # "empty" /\ k[f] > 0
    /\ pc[f] = "reopen" => position[f].anchor = "full"
    /\ pc[f] = "reopen" => \A i \in 1..Len(archives) : i <= k[f] =>
          /\ files[archives[i]].text >= position[f].text
          /\ files[archives[i]].text = position[f].text
                => files[archives[i]].size >= position[f].offset

Opened(f) ==
    /\ Sound(working[f])
    /\ handle[f] = None => working[f] = NoPosition
    /\ working[f] # NoPosition =>
          /\ working[f].file = handle[f]
          /\ NotAfter(Floor(position[f]), Floor(working[f]))
    /\ pc[f] \in {"verify", "read", "stat", "switch", "check", "at", "commit"}
          => working[f] # NoPosition
    /\ pc[f] = "switch" /\ active # None => files[active].text > working[f].text

\* The lines read follow everything the position covers, and the position to
\* be committed covers them.
InBatch(f) ==
    /\ pc[f] \in {"check", "at", "commit"} =>
          /\ batch[f].first = working[f].offset + 1
          /\ batch[f].first <= batch[f].last
          /\ batch[f].text >= working[f].text
          /\ batch[f].text <= files[handle[f]].text
          /\ batch[f].text = files[handle[f]].text => files[handle[f]].size >= batch[f].last
    /\ pc[f] \in {"at", "commit"} =>
          Before(Floor(position[f]), <<batch[f].text, batch[f].first>>)
    /\ pc[f] = "commit" =>
          /\ Sound(next[f])
          /\ next[f].file = handle[f]
          /\ NotAfter(<<batch[f].text, batch[f].last>>, Floor(next[f]))

FollowerInv(f) == Sound(position[f]) /\ Opening(f) /\ Opened(f) /\ InBatch(f)

\* The inductive invariant of AtMostOnce: whatever a follower remembers, what it
\* is about to store comes after what its expected cursor covers.
IInv ==
    /\ TypeOK
    /\ LogInv
    /\ Sound(cursor)
    /\ StoredBehindCursor
    /\ AtMostOnce
    /\ \A f \in Followers : FollowerInv(f)

-----------------------------------------------------------------------------
(***************************************************************************)
(* Why nothing is left out: the inductive invariant of NoGapBehindCursor,  *)
(* for a log that is renamed at any call of a poll and never truncated, or *)
(* that is renamed and truncated between polls only.                       *)
(***************************************************************************)
RenamedOnly    == Truncation = "never"
EmptiedBetween == Truncation = "between" /\ ~Overlap

\* Each line of the text up to this one has its row.
AllStored(text, n) == \A i \in 1..n : stored[<<text, i>>] = 1

\* What a position that is not the start of a text covers is stored.
Backed(p) == p = NoPosition \/ (p.anchor = "full" /\ AllStored(p.text, p.offset))

\* The file of the position still holds its text.
InItsText(p) == p # NoPosition => files[p.file].text = p.text

\* None of the names up to the n-th stands for the file of the saved position.
Passed(f, n) == \A i \in 0..n : Candidate(i) # position[f].file

\* What is read goes on where the working position ends.
ReadsOn(f) ==
    /\ working[f].offset # 0 => Backed(working[f])
    /\ (RenamedOnly \/ pc[f] \in {"read", "check", "at", "commit"}) /\ working[f].offset # 0
          => files[handle[f]].text = working[f].text
    /\ pc[f] \in {"check", "at", "commit"} => batch[f].text = files[handle[f]].text
    /\ pc[f] = "commit" =>
          next[f].anchor = "full" /\ next[f].text = batch[f].text /\ next[f].offset = batch[f].last

\* A log that is only renamed has the saved position in its own file or nowhere, and
\* names that were passed cannot come to stand for that file; a log that keeps still
\* during a poll has at a name what was found there.
OpensInText(f) ==
    /\ pc[f] \in {"scan", "anchor"} => position[f] # NoPosition
    /\ RenamedOnly =>
          /\ InItsText(position[f])
          /\ pc[f] # "reopen"
          /\ pc[f] = "scan" /\ k[f] > 0 => Passed(f, k[f] - 1)
          /\ pc[f] \in {"scan", "anchor"} => k[f] <= seen[f]
          /\ pc[f] = "anchor" => Passed(f, seen[f])
    /\ EmptiedBetween /\ pc[f] = "reopen" /\ Candidate(k[f]) # None
          => files[Candidate(k[f])].text = position[f].text

GapFree(f) == Backed(position[f]) /\ ReadsOn(f) /\ OpensInText(f)

\* The inductive invariant of NoGapBehindCursor: the cursor, and whatever a follower
\* remembers of an offset or is about to make the cursor, has only stored lines
\* behind it in its text.
GapInv ==
    /\ IInv
    /\ Backed(cursor)
    /\ RenamedOnly => InItsText(cursor)
    /\ \A f \in Followers : GapFree(f)

-----------------------------------------------------------------------------
(***************************************************************************)
(* Why the previous file is drained, for a log that is renamed between     *)
(* polls only and not before some of it is stored: the inductive invariant *)
(* of DrainsPreviousFile.                                                  *)
(***************************************************************************)
RotatedBetween == RenamedOnly /\ ~Overlap /\ ~Outage

\* Each log older than this text is fully stored.
StoredBefore(text) ==
    \A f \in Files : files[f].text # 0 /\ files[f].text < text
                        => AllStored(files[f].text, files[f].size)

\* The cursor is in the newest log or in the one before it, at the active name or
\* at ALL.TXT.1; only the active file grows.
CursorNear ==
    /\ writer # None => writer = active
    /\ newest <= cursor.text + 1
    /\ active = None => cursor.text = newest
    /\ cursor # NoPosition => \/ cursor.file = active
                              \/ archives # <<>> /\ cursor.file = archives[1]

\* A follower that the cursor accepts finds its file at one of the first two names,
\* and has drained the file before the one it reads.
Drains(f) ==
    /\ InItsText(working[f])
    /\ NotAfter(Floor(position[f]), Floor(cursor))
    /\ pc[f] \in {"stat", "switch"} /\ active # handle[f]
          => files[handle[f]].size <= working[f].offset
    /\ position[f] = cursor =>
          /\ pc[f] \notin {"anchor", "reopen"}
          /\ pc[f] = "fresh" => position[f] = NoPosition
          /\ pc[f] = "scan" => \/ k[f] = 0 /\ cursor.file = active
                               \/ /\ k[f] <= 1 /\ seen[f] > 0
                                  /\ archives # <<>> /\ cursor.file = archives[1]
          /\ working[f] # NoPosition => StoredBefore(working[f].text)

\* The inductive invariant of DrainsPreviousFile: the logs before that of the cursor
\* are stored whole, and a follower that will move the cursor has drained the log
\* before the one it reads.
DrainInv ==
    /\ GapInv
    /\ CursorNear
    /\ StoredBefore(cursor.text)
    /\ \A f \in Followers : Drains(f)
=============================================================================
