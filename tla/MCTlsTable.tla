----------------------------- MODULE MCTlsTable -----------------------------
(* TlsTable for TLC: the goroutines, and the addresses of the slots.         *)
EXTENDS TlsTable

CONSTANTS g1, g2, s1, s2, s3

=============================================================================
