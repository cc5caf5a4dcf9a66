---------------------------- MODULE MCStatistics ----------------------------
(* Two programs on two mounts, and two rules. *)
EXTENDS Statistics

CONSTANTS p1, p2, home, opt
MCMountOf == (p1 :> home) @@ (p2 :> opt)
=============================================================================
