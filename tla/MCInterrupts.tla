---------------------------- MODULE MCInterrupts ----------------------------
(* Interrupts for TLC: which call has which context.                         *)
EXTENDS Interrupts, TLC

CONSTANTS c1, c2, x1, x2, d1

OneEach == c1 :> x1 @@ c2 :> x2
Shared == c1 :> x1 @@ c2 :> x1
FirstOnly == c1 :> x1 @@ c2 :> NoContext

=============================================================================
