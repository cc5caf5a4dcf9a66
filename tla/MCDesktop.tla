----------------------------- MODULE MCDesktop ------------------------------
(* Two clients, and lists of up to three domains in pages of two. *)
EXTENDS Desktop

CONSTANTS c1, c2
MCFiles == {{1, 2, 3}}
MCImports == (c1 :> {"list"}) @@ (c2 :> {"native", "rules"})
=============================================================================
