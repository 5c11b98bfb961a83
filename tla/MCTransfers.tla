---------------------------- MODULE MCTransfers ----------------------------
(* Small instances of Transfers for TLC.                                   *)
EXTENDS Transfers

CONSTANTS s1, s2, u1, u2, u3, h1, h2, n1

=============================================================================
