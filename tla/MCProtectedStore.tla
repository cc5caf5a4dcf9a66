-------------------------- MODULE MCProtectedStore --------------------------
(* The instance of ProtectedStore for TLC: three values, one of them empty. *)
EXTENDS ProtectedStore, TLC

CONSTANTS v0, v1, v2

MCValues == {v0, v1, v2}
=============================================================================
