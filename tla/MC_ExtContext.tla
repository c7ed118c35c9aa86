---------------------------- MODULE MC_ExtContext ----------------------------
(* ExtContext with all templates, and vstart that is zero or not. *)
EXTENDS ExtContext
=============================================================================
