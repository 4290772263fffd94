-------------------------- MODULE MCControllerPak --------------------------
(* Small instances of ControllerPak for TLC.                               *)
EXTENDS ControllerPak

\* The blank pak is not the zeroed buffer: its ID and inode blocks are filled in.
MCBlank == [b \in Blocks |-> IF b = 0 THEN 1 ELSE 0]
MCZeros == [b \in Blocks |-> 0]

\* The run starts without leftover temporary files: a kill or a failed save leaves one.
CleanInit == Init /\ temp = [p \in Ports |-> NoFile]
LiveSpec == CleanInit /\ [][Next]_vars /\ Fairness
=============================================================================
