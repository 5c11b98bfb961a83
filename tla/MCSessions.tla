----------------------------- MODULE MCSessions -----------------------------
(* Small instances of Sessions for TLC.                                    *)
EXTENDS Sessions, TLC

CONSTANTS c1, c2, u1, u2

\* One owner, one plain user.
OwnerAndUser == u1 :> 2 @@ u2 :> 0

\* Nobody may moderate.
Plain == [u \in Users |-> 0]

\* Every connection comes from the same address.
OneIp == [c \in Conns |-> "ip"]

\* Connections are interchangeable: no definition tells one from another.
ConnSymmetry == Permutations(Conns)

=============================================================================
