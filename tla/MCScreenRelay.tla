--------------------------- MODULE MCScreenRelay ---------------------------
(* Model values for ScreenRelay: one attachment to a running share.        *)
EXTENDS ScreenRelay, TLC

CONSTANTS v1, k1

OneSession == v1 :> k1
=============================================================================
