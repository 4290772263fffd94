---------------------------- MODULE MCPreemption ----------------------------
(* The App thread, the audio manager, the scheduler and an RSP task.       *)
EXTENDS Preemption

CONSTANTS app, audio, sched

MCPriority == [t \in GameThreads |-> CASE t = app -> 10 [] t = audio -> 110 [] t = sched -> 127]
=============================================================================
