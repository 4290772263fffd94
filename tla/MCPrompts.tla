----------------------------- MODULE MCPrompts -----------------------------
(* The instances of Prompts for TLC: only the bound on the prompts differs. *)
EXTENDS Prompts
=============================================================================
