----------------------------- MODULE MCHistory -----------------------------
(* A user, and a moderator who may delete what the user said.              *)
EXTENDS History, TLC

CONSTANTS s1, s2

UserAndModerator == (s1 :> 0) @@ (s2 :> 1)
=============================================================================
