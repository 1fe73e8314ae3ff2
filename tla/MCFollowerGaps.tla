--------------------------- MODULE MCFollowerGaps ---------------------------
(***************************************************************************)
(* AllTxtFollower for TLC with a log that is renamed at any call of a      *)
(* poll, or else truncated between polls (and renamed between them too):   *)
(* what is promised of either is not promised of both together.            *)
(***************************************************************************)
EXTENDS AllTxtFollower

VARIABLE policy   \* how the log is rotated

InPlace == \E f \in Files : files[f].text # 0 /\ files'[f].text # files[f].text

GapsNext ==
    /\ Next /\ UNCHANGED policy
    /\ policy = "rename" => ~InPlace
    /\ policy = "truncate" /\ active # None /\ active' = None => Quiet

GapsSpec == Init /\ policy \in {"rename", "truncate"} /\ [][GapsNext]_<<vars, policy>>
=============================================================================
