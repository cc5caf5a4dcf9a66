--------------------------- MODULE StableRegister ---------------------------
(***************************************************************************)
(* What the root service relies on when it saves a signed state: a single  *)
(* register that survives crashes, power loss and the damage of one copy.  *)
(* A save that returns has taken effect for good.  A save that raises, or  *)
(* that the process does not survive, may take effect now, later or never, *)
(* until another save returns.                                             *)
(***************************************************************************)
CONSTANTS Values, NoValue

VARIABLES
    value,        \* what loading returns
    candidates,   \* what it may still become
    saving        \* the value being saved, or NoValue

Init ==
    /\ value \in candidates
    /\ candidates \subseteq Values
    /\ saving = NoValue

Begin(v) ==
    /\ saving = NoValue
    /\ saving' = v
    /\ candidates' = candidates \cup {v}
    /\ value' = value

\* Takes effect, or is lost.
Settle ==
    /\ value' \in candidates
    /\ UNCHANGED <<candidates, saving>>

Return ==
    /\ saving # NoValue
    /\ value' = saving
    /\ candidates' = {saving}
    /\ saving' = NoValue

\* The save raises, or the process dies.
Abort ==
    /\ saving' = NoValue
    /\ value' \in candidates
    /\ candidates' = candidates

Next == (\E v \in Values : Begin(v)) \/ Settle \/ Return \/ Abort

Spec == Init /\ [][Next]_<<value, candidates, saving>>
=============================================================================
