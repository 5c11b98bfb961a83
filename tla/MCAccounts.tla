----------------------------- MODULE MCAccounts -----------------------------
(* Small instances of Accounts for TLC.                                    *)
EXTENDS Accounts, TLC

\* No definition tells two addresses, two usernames or two passwords apart.
Symmetry == Permutations(Conns) \cup Permutations(Users) \cup Permutations(Words)

=============================================================================
