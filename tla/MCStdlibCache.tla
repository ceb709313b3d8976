--------------------------- MODULE MCStdlibCache ----------------------------
(* StdlibCache for TLC.                                                      *)
EXTENDS StdlibCache

CONSTANTS p1, p2

=============================================================================
