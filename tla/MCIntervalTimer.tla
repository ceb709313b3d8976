--------------------------- MODULE MCIntervalTimer ---------------------------
(* IntervalTimer for TLC: its one constant is bound in the configuration.    *)
EXTENDS IntervalTimer

=============================================================================
