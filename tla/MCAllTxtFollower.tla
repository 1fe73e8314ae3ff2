-------------------------- MODULE MCAllTxtFollower --------------------------
(* Instances of AllTxtFollower for TLC; the bounds are in the cfg files. *)
EXTENDS AllTxtFollower
=============================================================================
