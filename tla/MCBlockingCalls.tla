-------------------------- MODULE MCBlockingCalls ---------------------------
(* BlockingCalls for TLC.                                                    *)
EXTENDS BlockingCalls

CONSTANTS t1, t2

(* Between them the threads make every call, and every two that interfere.   *)
MCCalls ==
  [t \in {t1, t2} |->
     IF t = t1 THEN {"read", "write", "sleep"} ELSE {"read", "recv", "pause"}]

=============================================================================
