------------------------- MODULE MCChromiumAdapter -------------------------
(* Two timed rules, of which the first may be used up. *)
EXTENDS ChromiumAdapter

MCRules == <<"r1", "r2">>
MCPolicies == {[r1 |-> k, r2 |-> "timed"] : k \in {"timed", "block"}}
=============================================================================
