---------------------------- MODULE MCConversion -----------------------------
(* Conversion for TLC: its constants are bound in the configuration.         *)
EXTENDS Conversion

=============================================================================
