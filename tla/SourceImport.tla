---------------------------- MODULE SourceImport ----------------------------
(***************************************************************************)
(* What the live ALL.TXT input promises, without files, handles, anchors   *)
(* or crashes: a line of the receive log, <<text, line>>, is stored once   *)
(* or never; lines are stored in the order of receipt, some together in    *)
(* one step, and the step that stores them moves the mark behind which     *)
(* nothing is stored again.  Lines may be left out: a log that is gone or  *)
(* was rotated away unread is never stored.                                *)
(***************************************************************************)
EXTENDS Naturals

CONSTANTS Lines       \* the lines that can ever be received

VARIABLES mark,       \* everything stored is at or before this line
          rows        \* observation rows of each line

importVars == <<mark, rows>>

Earlier(a, b) == a[1] < b[1] \/ (a[1] = b[1] /\ a[2] < b[2])

Init ==
    /\ mark = <<0, 0>>
    /\ rows = [l \in Lines |-> 0]

Marks == Lines \cup {<<l[1], 0>> : l \in Lines}

\* Store consecutive lines of one text, all of them after the mark, and move
\* the mark to the last of them, or further where a newer text began meanwhile.
StoreLines(text, first, last) ==
    /\ Earlier(mark, <<text, first>>)
    /\ mark' = <<text, last>> \/ Earlier(<<text, last>>, mark')
    /\ rows' = [l \in Lines |-> IF l[1] = text /\ l[2] \in first..last
                               THEN rows[l] + 1 ELSE rows[l]]

Next ==
    /\ mark' \in Marks
    /\ mark' # mark
    /\ \E from, to \in Lines :
          /\ from[1] = to[1] /\ from[2] <= to[2]
          /\ StoreLines(from[1], from[2], to[2])

Spec == Init /\ [][Next]_importVars
=============================================================================
