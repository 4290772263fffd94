---------------------------- MODULE MCPadRumble ----------------------------
(* A small instance of PadRumble for TLC: a gamepad and an adapter. *)
EXTENDS PadRumble
=============================================================================
