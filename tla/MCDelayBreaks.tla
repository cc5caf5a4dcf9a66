--------------------------- MODULE MCDelayBreaks ---------------------------
(* A small instance of DelayBreaks: two rules, a break longer than its wait. *)
EXTENDS DelayBreaks

OneDelay == {[wait |-> 1, length |-> 2]}
=============================================================================
