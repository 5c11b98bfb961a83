---------------------------- MODULE SessionLife ----------------------------
(***************************************************************************)
(* What the server promises about a connection, whatever its tasks do: it  *)
(* is a guest, then a member or dropped; a member leaves once, the others  *)
(* are told once, and only then is its task ended.  Nothing goes back.     *)
(***************************************************************************)
EXTENDS Naturals

CONSTANT Conns   \* the connections

VARIABLES
    life,   \* where each connection is in its life
    told    \* how often the others were told that it left

lifeVars == <<life, told>>

Stages == {"new", "guest", "dropped", "member", "leaving", "left", "over"}

LifeInit == life = [c \in Conns |-> "new"] /\ told = [c \in Conns |-> 0]

Passes(c, from, to) == life[c] = from /\ life' = [life EXCEPT ![c] = to]

Arrive(c) == Passes(c, "new", "guest") /\ UNCHANGED told
LogIn(c)  == Passes(c, "guest", "member") /\ UNCHANGED told

\* The connection is taken away, a guest without a word to the others.
Drop(c)  == Passes(c, "guest", "dropped") /\ UNCHANGED told
Leave(c) == Passes(c, "member", "leaving") /\ UNCHANGED told

SayLeft(c) == Passes(c, "leaving", "left") /\ told' = [told EXCEPT ![c] = @ + 1]

\* The task of the connection is ended.
End(c) == (Passes(c, "left", "over") \/ Passes(c, "dropped", "over")) /\ UNCHANGED told

LifeNext ==
    \E c \in Conns : Arrive(c) \/ LogIn(c) \/ Drop(c) \/ Leave(c) \/ SayLeft(c) \/ End(c)

LifeSpec == LifeInit /\ [][LifeNext]_lifeVars

=============================================================================
