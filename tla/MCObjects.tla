----------------------------- MODULE MCObjects ------------------------------
(* Objects for TLC.                                                          *)
EXTENDS Objects

CONSTANTS o1, o2, g1, g2

=============================================================================
