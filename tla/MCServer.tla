------------------------------ MODULE MCServer ------------------------------
(***************************************************************************)
(* What the server does for clients that come and for those that are here: *)
(* its accept loop and its lobby.  The two machines share no state; an     *)
(* initial state picks the one that runs.                                  *)
(***************************************************************************)
EXTENDS MCHistory, Admission

VARIABLE machine

\* Two sockets of one address and one of another.
TwoPeers == [s \in Sockets |-> IF s = "s3" THEN "other" ELSE "ip"]

ServerInit == machine \in {"lobby", "admission"} /\ Init /\ AdmitInit

ServerNext ==
    \/ machine = "lobby" /\ Next /\ UNCHANGED <<machine, admitVars>>
    \/ machine = "admission" /\ AdmitNext /\ UNCHANGED <<machine, vars>>

ServerSpec == ServerInit /\ [][ServerNext]_<<machine, vars, admitVars>>
=============================================================================
