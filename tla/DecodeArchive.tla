---------------------------- MODULE DecodeArchive ----------------------------
(***************************************************************************)
(* The archive of stored decodes, decodes.jsonl (_append_jsonl and         *)
(* _archive_optional of ingest.py), and its replay into another database   *)
(* (parse_jsonl_line of wsjtx/all_txt.py, _iter_replay of service.py).     *)
(* A batch is committed first and appended then, a line for each decode.   *)
(* A line is the pieces that were written between two line feeds.  An      *)
(* append may fail, or the process end, with a part of its line written.   *)
(* Of a decode it is kept whether it has a message, and a dial frequency   *)
(* that is not 0; the file is one of a month.                              *)
(***************************************************************************)
EXTENDS Integers, Sequences, FiniteSets, SequencesExt

CONSTANTS MaxArchived,     \* bound: decodes
          MaxFaults,       \* bound: failed appends and batches broken off
          MaxArchiveBatch  \* MAX_BATCH_LINES: decodes of one commit

ASSUME ArchiveAssumption == {MaxArchived, MaxFaults, MaxArchiveBatch} \subseteq Nat

VARIABLES
    archived,  \* (history) the decodes that are in the database
    pending,   \* the decodes of the batch that are committed and not yet appended
    lines,     \* decodes.jsonl
    unended,   \* the last line has no line feed
    failures,  \* (history) failed appends
    stops,     \* (history) batches that were broken off: ends of the process, mostly
    recovered  \* what a replay stores, <<>>: not yet

archiveVars == <<archived, pending, lines, unended, failures, stops, recovered>>

ArchivedDecodes == [number : 1..MaxArchived, content : {"usual", "zeroDial", "noMessage"}]
Pieces == {<<>>} \cup {<<d>> : d \in ArchivedDecodes}   \* <<>>: the begin of one

\* What is pending are the last decodes, of one batch; pieces are decodes, each written
\* once, or what is left of one.
ArchiveTypeOK ==
    /\ archived \in Seq(ArchivedDecodes) /\ Len(archived) <= MaxArchived
    /\ IsSuffix(pending, archived) /\ Len(pending) <= MaxArchiveBatch
    /\ \A i \in DOMAIN lines : lines[i] # <<>> /\ lines[i] \in Seq(Pieces)
    /\ \A i, k \in DOMAIN lines : \A j \in DOMAIN lines[i], l \in DOMAIN lines[k] :
          lines[i][j] = lines[k][l] /\ lines[i][j] # <<>> => i = k /\ j = l
    /\ unended => lines # <<>>

ArchiveInit ==
    /\ archived = <<>> /\ pending = <<>> /\ lines = <<>> /\ unended = FALSE
    /\ failures = 0 /\ stops = 0 /\ recovered = <<>>

-----------------------------------------------------------------------------
\* What is written comes after what is left of a line, if the last one has no end.
With(piece) ==
    IF unended THEN Append(Front(lines), Append(Last(lines), piece)) ELSE Append(lines, <<piece>>)

\* The batches that can come next; decodes are numbered as they are stored.
NextBatches ==
    {batch \in UNION {[1..n -> ArchivedDecodes] : n \in 1..MaxArchiveBatch} :
        \A k \in DOMAIN batch : batch[k].number = Len(archived) + k}

\* The commit of ingest_file_batch, or of ingest_raw for one decode: all of the batch is
\* stored, and the cursor moved, before its first line is appended.
StoreBatch ==
    /\ pending = <<>> /\ recovered = <<>>
    /\ \E batch \in NextBatches :
          /\ Len(archived) + Len(batch) <= MaxArchived
          /\ pending' = batch /\ archived' = archived \o batch
    /\ UNCHANGED <<lines, unended, failures, stops, recovered>>

\* (mutant) Lines have no end.
AppendUnended == lines' = With(<<Head(pending)>>) /\ unended' = TRUE

\* _append_jsonl
AppendLine == lines' = With(<<Head(pending)>>) /\ unended' = FALSE

\* _after_commit of the batch's next decode
Archive ==
    /\ pending # <<>> /\ AppendLine /\ pending' = Tail(pending)
    /\ UNCHANGED <<archived, failures, stops, recovered>>

\* What is left of an append that breaks: nothing, the begin of its line, or all of it
\* but the line feed.
Torn ==
    \/ UNCHANGED <<lines, unended>>
    \/ \E piece \in {<<>>, <<Head(pending)>>} : lines' = With(piece) /\ unended' = TRUE

Faulty == pending # <<>> /\ failures + stops < MaxFaults /\ Torn /\ UNCHANGED <<archived, recovered>>

\* _archive_optional: an OSError is logged; nobody tries again, and the next decode is
\* appended.
ArchiveFails == Faulty /\ pending' = Tail(pending) /\ failures' = failures + 1 /\ UNCHANGED stops

\* The process ends in an append or before it, or what is raised is no OSError: the rest of
\* the batch is appended by nobody, as the cursor is behind it.
LoggerStops == Faulty /\ pending' = <<>> /\ stops' = stops + 1 /\ UNCHANGED failures

\* parse_jsonl_line: a dial frequency of 0 is none.
GivenBack(d) == [d EXCEPT !.content = IF @ = "zeroDial" THEN "noDial" ELSE @]

\* A line of one decode, and nothing else, is read.
WholeLine(line) == Len(line) = 1 /\ line[1] # <<>>

\* parse_jsonl_line: a decode without message is no decode.
ReadBack(line) ==
    IF WholeLine(line) /\ line[1][1].content # "noMessage" THEN <<GivenBack(line[1][1])>> ELSE <<>>

\* _iter_replay, replay_file: what the lines give, one after another
RestoredFrom(log) ==
    LET upTo[n \in 0..Len(log)] ==
            IF n = 0 THEN <<>> ELSE upTo[n - 1] \o ReadBack(log[n])
    IN  upTo[Len(log)]

\* replay_file on the archive, while nothing is appended
Recover ==
    /\ pending = <<>> /\ recovered = <<>> /\ lines # <<>>
    /\ recovered' = <<RestoredFrom(lines)>>
    /\ UNCHANGED <<archived, pending, lines, unended, failures, stops>>

ArchiveNext == StoreBatch \/ Archive \/ ArchiveFails \/ LoggerStops \/ Recover

-----------------------------------------------------------------------------
\* What was stored can be given back, unless its message is empty.
Recoverable == {i \in DOMAIN archived : archived[i].content # "noMessage"}

\* A database that is restored from the archive has decodes that were stored, in the
\* order in which they were, each once.
OnlyWhatWasStored ==
    recovered # <<>> =>
        \E from \in [DOMAIN recovered[1] -> Recoverable] :
            /\ \A n \in DOMAIN recovered[1] : recovered[1][n] = GivenBack(archived[from[n]])
            /\ \A m, n \in DOMAIN recovered[1] : m < n => from[m] < from[n]

\* A failed append costs two decodes at most, its own and the one whose line is appended
\* to what is left of it; a batch that is broken off all of its own, and that one.
LossBounded ==
    recovered # <<>> =>
        Cardinality(Recoverable) - Len(recovered[1]) <= 2 * failures + (MaxArchiveBatch + 1) * stops

\* The archive gives back what was stored, less what failed appends and broken batches
\* cost.
ArchiveRestores == OnlyWhatWasStored /\ LossBounded
=============================================================================
