------------------------------- MODULE MCWire -------------------------------
(***************************************************************************)
(* What travels between client and server, for TLC: calls of the cipher's  *)
(* layers and entry points, one stream and its promise, the two ends of a  *)
(* socket, and the datagrams of voice calls.  The machines share no state; *)
(* an initial state picks the one that runs.                               *)
(***************************************************************************)
EXTENDS RexCalls, RexStream, PacketStream, VoiceRelay

VARIABLE machine

allVars == <<machine, callVars, streamVars, packetVars, voiceVars>>

MCShapes == {[w |-> 2, h |-> 4], [w |-> 5, h |-> 4], [w |-> 3, h |-> 8]}

MCBlocks == {[w |-> 2, h |-> 4], [w |-> 5, h |-> 4]}

\* The client that speaks is sent little.
SentBound == [c \in Clients |-> 2]

GotBound == [c \in Clients |-> IF c \in Speakers THEN 1 ELSE 3]

NoCall == [op |-> "none"]

Init ==
    /\ machine \in {"calls", "stream", "packets", "voice"}
    /\ IF machine = "calls" THEN CallInit ELSE call = NoCall /\ answers = NoAnswer
    /\ StreamInit
    /\ PacketInit
    /\ VoiceInit

Next ==
    \/ machine = "calls" /\ CallNext /\ UNCHANGED <<machine, streamVars, packetVars, voiceVars>>
    \/ machine = "stream" /\ StreamNext /\ UNCHANGED <<machine, callVars, packetVars, voiceVars>>
    \/ machine = "packets" /\ PacketNext /\ UNCHANGED <<machine, callVars, streamVars, voiceVars>>
    \/ machine = "voice" /\ VoiceNext /\ UNCHANGED <<machine, callVars, streamVars, packetVars>>

Spec == Init /\ [][Next]_allVars

=============================================================================
