--------------------------- MODULE MCKeyExchange ---------------------------
(* KeyExchange for TLC: the bounds are given values in the configurations. *)
EXTENDS KeyExchange

=============================================================================
