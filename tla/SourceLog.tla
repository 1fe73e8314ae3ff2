------------------------------ MODULE SourceLog ------------------------------
(***************************************************************************)
(* The receive log ALL.TXT as the file follower sees it on disk: the file  *)
(* behind the active name, the renamed archives beside it, and the decoder *)
(* that appends to it.  Nothing here is code of the logger: the decoder,   *)
(* logrotate and the file system are modelled from what file_input.py      *)
(* calls on them and from the rotation policy of docs/HEADLESS.md.         *)
(*                                                                         *)
(* A file (an inode) holds one text at a time.  A text is one incarnation  *)
(* of the log's content, numbered in the order in which the incarnations   *)
(* began; its lines are numbered from one.  <<text, line>> thus names one  *)
(* received line for ever, whichever file it is in.  Lines carry their     *)
(* receive time, so the bytes of two different places differ; they are     *)
(* taken to have one length, which makes an offset a number of lines.      *)
(***************************************************************************)
EXTENDS Naturals, Sequences

CONSTANTS MaxFiles,   \* bound: files ever created
          MaxTexts,   \* bound: incarnations of the content
          MaxLines    \* bound: lines of one text

ASSUME SourceLogAssumption ==
    /\ MaxFiles \in Nat \ {0}
    /\ MaxTexts \in Nat \ {0}
    /\ MaxLines \in Nat \ {0}

VARIABLES files,      \* what each file holds; text 0 while it does not exist
          active,     \* the file behind the name ALL.TXT, or None
          archives,   \* ALL.TXT.1, ALL.TXT.2, ... that are not compressed
          writer,     \* the file the decoder has open for an append, or None
          newest      \* the number of the newest text

logVars == <<files, active, archives, writer, newest>>

None  == 0
Files == 1..MaxFiles
Texts == 1..MaxTexts
Lines == Texts \X (1..MaxLines)

LogTypeOK ==
    /\ files \in [Files -> [text : 0..MaxTexts, size : 0..MaxLines]]
    /\ active \in Files \cup {None}
    /\ archives \in Seq(Files)
    /\ writer \in Files \cup {None}
    /\ newest \in Texts

\* The line with this number of this text has been written, and not truncated.
Written(text, line) == \E f \in Files : files[f].text = text /\ files[f].size >= line

\* Files come into being in the order of their numbers.
Unborn(f) == files[f].text = 0 /\ \A g \in 1..(f - 1) : files[g].text # 0

LogInit ==
    /\ files = [f \in Files |-> [text |-> IF f = 1 THEN 1 ELSE 0, size |-> 0]]
    /\ active = 1
    /\ archives = <<>>
    /\ writer = None
    /\ newest = 1

(***************************************************************************)
(* The decoder opens the active name, writes one line and closes it.  A    *)
(* line is there once its newline is: until then the follower cannot tell  *)
(* its bytes from none.  The open file stays the same one when the name is *)
(* given to another.                                                       *)
(***************************************************************************)
WriterOpen ==
    /\ writer = None
    /\ active # None
    /\ writer' = active
    /\ UNCHANGED <<files, active, archives, newest>>

WriterLine ==
    /\ writer # None
    /\ files[writer].size < MaxLines
    /\ files' = [files EXCEPT ![writer].size = @ + 1]
    /\ writer' = None
    /\ UNCHANGED <<active, archives, newest>>

\* The decoder is restarted in the middle of a line.
WriterDies ==
    /\ writer # None
    /\ writer' = None
    /\ UNCHANGED <<files, active, archives, newest>>

(***************************************************************************)
(* logrotate renames the active file to ALL.TXT.1, the archives each to    *)
(* the next number, and then creates the active name again.                *)
(***************************************************************************)
Rename ==
    /\ active # None
    /\ newest < MaxTexts
    /\ \E f \in Files : Unborn(f)
    /\ archives' = <<active>> \o archives
    /\ active' = None
    /\ UNCHANGED <<files, writer, newest>>

Create ==
    /\ active = None
    /\ newest < MaxTexts
    /\ \E f \in Files :
        /\ Unborn(f)
        /\ files' = [files EXCEPT ![f] = [text |-> newest + 1, size |-> 0]]
        /\ active' = f
    /\ newest' = newest + 1
    /\ UNCHANGED <<archives, writer>>

\* The oldest archive is compressed: the follower leaves .gz files alone.
Compress ==
    /\ archives # <<>>
    /\ archives' = SubSeq(archives, 1, Len(archives) - 1)
    /\ UNCHANGED <<files, active, writer, newest>>

\* The active file is emptied in place and starts a new text.
Truncate ==
    /\ active # None
    /\ newest < MaxTexts
    /\ files' = [files EXCEPT ![active] = [text |-> newest + 1, size |-> 0]]
    /\ newest' = newest + 1
    /\ UNCHANGED <<active, archives, writer>>

\* copytruncate without its race: the content moves to a new ALL.TXT.1.
CopyTruncate ==
    /\ active # None
    /\ newest < MaxTexts
    /\ \E f \in Files :
        /\ Unborn(f)
        /\ files' = [files EXCEPT ![f] = files[active],
                                  ![active] = [text |-> newest + 1, size |-> 0]]
        /\ archives' = <<f>> \o archives
    /\ newest' = newest + 1
    /\ UNCHANGED <<active, writer>>
=============================================================================
