------------------------------ MODULE MCClient ------------------------------
(***************************************************************************)
(* The client for TLC: its session, its pictures and its voice messages.   *)
(* The machines share no state; an initial state picks the one that runs.  *)
(***************************************************************************)
EXTENDS ClientSession, ClientPictures, VoiceMessages

CONSTANT h1

VARIABLE machine

clientVars == <<machine, sessionVars, pictureVars, clipVars>>

Init ==
    /\ machine \in {"session", "pictures", "clips"}
    /\ SessionInit /\ (machine # "session" => dials = {})
    /\ PicturesInit /\ (machine # "pictures" => ~auto)
    /\ ClipsInit

Next ==
    \/ machine = "session" /\ SessionNext /\ UNCHANGED <<machine, pictureVars, clipVars>>
    \/ machine = "pictures" /\ PicturesNext /\ UNCHANGED <<machine, sessionVars, clipVars>>
    \/ machine = "clips" /\ ClipsNext /\ UNCHANGED <<machine, sessionVars, pictureVars>>

\* The fairness of ClientSession, of the machine that runs.
Fairness ==
    /\ WF_sessionVars(machine = "session" /\ Loop)
    /\ WF_sessionVars(machine = "session" /\ \E d \in dials : DialFails(d) \/ DialOpens(d))

Spec == Init /\ [][Next]_clientVars /\ Fairness
=============================================================================
