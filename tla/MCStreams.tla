----------------------------- MODULE MCStreams -----------------------------
(***************************************************************************)
(* What streams to a client, for TLC: the messages of the lobby and shares.*)
(* The machines share no state; an initial state picks the one that runs.  *)
(* The lobby has one speaker, who also deletes.                            *)
(***************************************************************************)
EXTENDS LobbyPane, ScreenShare, TLC

CONSTANT s1

VARIABLE machine

Speaker == s1 :> 1

streamsVars == <<machine, vars, shareVars>>

StreamsInit ==
    /\ machine \in {"pane", "share"}
    /\ Init
    /\ ShareInit

StreamsNext ==
    \/ machine = "pane" /\ Next /\ UNCHANGED <<machine, shareVars>>
    \/ machine = "share" /\ ShareNext /\ UNCHANGED <<machine, vars>>

StreamsSpec == StreamsInit /\ [][StreamsNext]_streamsVars
=============================================================================
