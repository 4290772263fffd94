------------------------------ MODULE MCJoyBus ------------------------------
(* Small instances of JoyBus for TLC: the first and the last port.         *)
EXTENDS JoyBus
=============================================================================
