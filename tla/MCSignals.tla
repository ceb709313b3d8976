----------------------------- MODULE MCSignals ------------------------------
(* Signals for TLC.                                                          *)
EXTENDS Signals

CONSTANTS t1, t2, d1, d2

=============================================================================
