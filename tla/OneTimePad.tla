----------------------------- MODULE OneTimePad -----------------------------
(***************************************************************************)
(* What a stream cipher promises to its caller.  Cells are fed in order;   *)
(* each is given back, in the same order, under a pad of its own; the pads *)
(* only rise, so none is ever used again; a flush gives back everything.   *)
(***************************************************************************)
EXTENDS Integers, Sequences

VARIABLES
    fed,    \* cells fed so far
    pads    \* the pad of every cell given back, in order

padVars == <<fed, pads>>

Rising(s) == \A i, j \in 1 .. Len(s) : i < j => s[i] < s[j]

Extends(s, t) == Len(s) <= Len(t) /\ \A i \in 1 .. Len(s) : t[i] = s[i]

PadInit == fed = 0 /\ pads = <<>>

Give ==
    /\ fed' >= fed
    /\ Extends(pads, pads')
    /\ Rising(pads')
    /\ Len(pads') <= fed'

\* What a flush must be.
Flush ==
    /\ Give
    /\ fed' = fed
    /\ Len(pads') = fed

PadSpec == PadInit /\ [][Give]_padVars

=============================================================================
