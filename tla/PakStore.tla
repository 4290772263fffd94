------------------------------ MODULE PakStore ------------------------------
(***************************************************************************)
(* What the Controller Pak promises, without files, threads or locks: each *)
(* port has the contents a game sees and the contents that survive the     *)
(* process.  A save moves the whole of the first into the second in one    *)
(* step, a restart moves the second back, and a pak that could not be read *)
(* is withdrawn for the rest of the session and never saved.               *)
(***************************************************************************)
EXTENDS Naturals

CONSTANTS
    Ports,       \* controller ports
    Blocks,      \* 32-byte blocks of one pak
    Data,        \* contents of a block
    Blank,       \* the formatted-empty pak
    NoFile,      \* nothing was ever saved for this port
    BadFile,     \* what is saved is not a readable 32 KiB pak
    Unavailable, \* the game sees no pak contents
    NoReply,     \* no answer is outstanding
    Failed,      \* the operation was refused
    Done         \* a write was accepted

Images == [Blocks -> Data]

VARIABLES view, saved, reply

storeVars == <<view, saved, reply>>

\* What a fresh process finds in what was saved.
Recover(s) == CASE s = NoFile  -> Blank
                [] s = BadFile -> Unavailable
                [] OTHER       -> s

Init ==
    /\ saved \in [Ports -> Images \union {NoFile, BadFile}]
    /\ view = [p \in Ports |-> Recover(saved[p])]
    /\ reply = NoReply

Ask ==
    /\ reply' = NoReply
    /\ UNCHANGED <<view, saved>>

\* A read answers with the block as the last accepted write left it.
Read(p, b) ==
    /\ view[p] # Unavailable
    /\ reply' = view[p][b]
    /\ UNCHANGED <<view, saved>>

Write(p, b, d) ==
    /\ view[p] # Unavailable
    /\ view' = [view EXCEPT ![p][b] = d]
    /\ reply' = Done
    /\ UNCHANGED saved

\* Refusing an operation changes neither copy.
Refuse ==
    /\ reply' = Failed
    /\ UNCHANGED <<view, saved>>

\* An unreadable pak is withdrawn; what is saved stays as it is.
Withdraw(p) ==
    /\ view' = [view EXCEPT ![p] = Unavailable]
    /\ reply' = Failed
    /\ UNCHANGED saved

\* The whole image is saved at once, and only an available one.
Save(p) ==
    /\ view[p] # Unavailable
    /\ saved' = [saved EXCEPT ![p] = view[p]]
    /\ UNCHANGED <<view, reply>>

Restart ==
    /\ view' = [p \in Ports |-> Recover(saved[p])]
    /\ reply' = NoReply
    /\ UNCHANGED saved

Next ==
    \/ Ask
    \/ Refuse
    \/ Restart
    \/ \E p \in Ports :
          \/ Withdraw(p)
          \/ Save(p)
          \/ \E b \in Blocks :
                \/ Read(p, b)
                \/ \E d \in Data : Write(p, b, d)

Spec == Init /\ [][Next]_storeVars
=============================================================================
