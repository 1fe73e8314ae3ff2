---------------------------- MODULE HeadlessCheck ----------------------------
(***************************************************************************)
(* scripts/verify-headless.py beside the decoder and the logger: it reads  *)
(* ALL.TXT once and looks into the database, over and over, until every    *)
(* decode of what it read has its rows or the time is over; then it        *)
(* compares what the API counts with its last look.  A decode is its key   *)
(* (time, dial frequency, report, message), of which a log may hold equal  *)
(* ones; keys are in the order of their time.  Rows of other inputs and    *)
(* receivers, which the query leaves out, the ranges of its time, the      *)
(* fields of a row and the settings of the receiver are not modelled.      *)
(***************************************************************************)
EXTENDS Naturals, Sequences, FiniteSets

CONSTANTS MaxKey,     \* keys
          MaxSource,  \* bound: lines that the decoder writes
          MaxSlips    \* bound: faults of the logger

ASSUME HeadlessAssumption == {MaxKey, MaxSource, MaxSlips} \subseteq Nat \ {0}

DecodeKeys == 1..MaxKey
CutKey     == 0   \* what a line that is being written would be read as

VARIABLES
    text,      \* the complete lines of ALL.TXT
    cut,       \* a line is being written
    position,  \* the lines that the logger has dealt with
    stored,      \* rows of each key
    slips,     \* (history) the logger's faults
    since,     \* (history) lines when the check was started
    verdict,   \* the check: "idle", "started", "read", "looked", "counted", "passed", or why not
    expected,  \* its source_snapshot
    seen,      \* its last database_snapshot
    overdue    \* time.monotonic() >= deadline

loggerVars == <<text, cut, position, stored, slips>>
checkVars  == <<since, verdict, expected, seen, overdue>>
headlessVars == <<loggerVars, checkVars>>

Counts == [DecodeKeys \cup {CutKey} -> 0..MaxSource + MaxSlips]
NoRows == [k \in DecodeKeys \cup {CutKey} |-> 0]
Ends   == {"passed", "refused", "repeated", "missing", "lost"}

HeadlessTypeOK ==
    /\ text \in Seq(DecodeKeys) /\ Len(text) \in position..MaxSource /\ cut \in BOOLEAN
    /\ {stored, expected, seen} \subseteq Counts /\ expected[CutKey] = 0
    /\ verdict \in {"idle", "started", "read", "looked", "counted"} \cup Ends
    /\ slips \in 0..MaxSlips /\ since \in 0..MaxSource /\ overdue \in BOOLEAN

HeadlessInit ==
    /\ text = <<>> /\ cut = FALSE /\ position = 0 /\ stored = NoRows /\ slips = 0
    /\ since = 0 /\ verdict = "idle" /\ expected = NoRows /\ seen = NoRows /\ overdue = FALSE

-----------------------------------------------------------------------------
\* The decoder: decodes of one slot, or of a later one.
WriterBegins ==
    /\ ~cut /\ Len(text) < MaxSource /\ cut' = TRUE
    /\ UNCHANGED <<text, position, stored, slips, checkVars>>

WriterEnds ==
    /\ cut /\ cut' = FALSE
    /\ \E k \in DecodeKeys :
          /\ \A i \in DOMAIN text : text[i] <= k
          /\ text' = Append(text, k)
    /\ UNCHANGED <<position, stored, slips, checkVars>>

\* The logger stores the next line; it may also leave one out, as after a truncation,
\* or store one again, as a replay by hand of a log that is followed does.
Stores ==
    /\ position < Len(text)
    /\ position' = position + 1 /\ stored' = [stored EXCEPT ![text[position + 1]] = @ + 1]
    /\ UNCHANGED <<text, cut, slips, checkVars>>

LeavesOut ==
    /\ position < Len(text) /\ slips < MaxSlips
    /\ position' = position + 1 /\ slips' = slips + 1
    /\ UNCHANGED <<text, cut, stored, checkVars>>

StoresAgain ==
    /\ slips < MaxSlips /\ slips' = slips + 1
    /\ \E i \in 1..position : stored' = [stored EXCEPT ![text[i]] = @ + 1]
    /\ UNCHANGED <<text, cut, position, checkVars>>

-----------------------------------------------------------------------------
Count(k, lines) == Cardinality({i \in DOMAIN lines : lines[i] = k})

BeginCheck ==
    /\ verdict = "idle" /\ verdict' = "started" /\ since' = Len(text)
    /\ UNCHANGED <<loggerVars, expected, seen, overdue>>

\* source_snapshot: up to the last line feed
ExpectedOf == [k \in DOMAIN NoRows |-> Count(k, text)]

ReadSource ==
    /\ verdict = "started"
    /\ expected' = ExpectedOf
    /\ verdict' = IF expected' = NoRows THEN "refused" ELSE "read"
    /\ UNCHANGED <<loggerVars, since, seen, overdue>>

\* database_snapshot: one transaction
Look ==
    /\ verdict = "read" /\ verdict' = "looked" /\ seen' = stored
    /\ UNCHANGED <<loggerVars, since, expected, overdue>>

Deadline ==
    /\ verdict \in {"read", "looked"} /\ ~overdue /\ overdue' = TRUE
    /\ UNCHANGED <<loggerVars, since, verdict, expected, seen>>

Expected == {k \in DOMAIN expected : expected[k] > 0}

\* (mutant) A key that has a row is not missing.
AbsentAltogether == {k \in Expected : seen[k] = 0}

Absent == {k \in Expected : seen[k] < expected[k]}

Surplus == {k \in Expected : seen[k] > expected[k]}

\* The loop of verify
Verdict ==
    IF Surplus # {} THEN "repeated"
    ELSE IF Absent = {} THEN "counted"
    ELSE IF overdue THEN "missing"
    ELSE "read"

Decide ==
    /\ verdict = "looked" /\ verdict' = Verdict
    /\ UNCHANGED <<loggerVars, since, expected, seen, overdue>>

\* The API counts no less of the newest slot than the last look did.
Newest == CHOOSE k \in Expected : \A l \in Expected : l <= k

AskApi ==
    /\ verdict = "counted"
    /\ verdict' = IF stored[Newest] >= seen[Newest] THEN "passed" ELSE "lost"
    /\ UNCHANGED <<loggerVars, since, expected, seen, overdue>>

-----------------------------------------------------------------------------
HeadlessNext ==
    \/ WriterBegins \/ WriterEnds \/ Stores \/ LeavesOut \/ StoresAgain
    \/ BeginCheck \/ ReadSource \/ Look \/ Decide \/ AskApi \/ Deadline

\* The script goes on and time passes, whatever the logger does.
HeadlessFairness == WF_headlessVars(ReadSource \/ Look \/ Decide \/ AskApi) /\ WF_headlessVars(Deadline)

-----------------------------------------------------------------------------
\* A check that passes has seen every decode that was complete when it was started,
\* as often as it stood in the log, whatever was written and stored meanwhile; rows
\* of a defective logger do not pass.
PassMeansAll ==
    verdict = "passed" =>
        /\ \A k \in DecodeKeys : seen[k] >= Count(k, SubSeq(text, 1, since))
        /\ \A k \in Expected : seen[k] = expected[k]

\* A logger without faults is refused only while it is behind the log, or where an
\* equal decode was written after the log was read; what the API counts never is
\* less than what was seen.
SoundLoggerPasses ==
    /\ verdict # "lost"
    /\ slips = 0 /\ verdict = "missing" => \E k \in DecodeKeys : seen[k] < Count(k, text)
    /\ slips = 0 /\ verdict = "repeated" => \E k \in Expected : Count(k, text) > expected[k]

\* The check comes to a verdict, whatever the logger does.
VerdictReached == verdict = "started" ~> verdict \in Ends

\* The verdict is right both ways: it neither passes a logger with faults in what it
\* read, nor refuses a sound one that has caught up.
VerdictIsSound == PassMeansAll /\ SoundLoggerPasses
=============================================================================
