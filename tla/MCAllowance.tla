---------------------------- MODULE MCAllowance ----------------------------
(* Allowance on small instances. *)
EXTENDS Allowance

Total == [mode |-> "total", quota |-> 2, window |-> 1, cap |-> 3]
Rolling == [mode |-> "fixed_window", quota |-> 2, window |-> 3, cap |-> 3]

Capped == [Total EXCEPT !.quota = 3, !.cap = 2]

\* A budget for each refill window, and a budget for each period under a lower cap
\* for the day.
MCBudgets == {Rolling, Capped}
MCTotal == {Total}
=============================================================================
