------------------------- MODULE MCPlayerAssignment -------------------------
(* Small instances of PlayerAssignment for TLC.                            *)
EXTENDS PlayerAssignment

Unused  == [used |-> FALSE, kb |-> FALSE, pads |-> {}]
Keys    == [used |-> TRUE, kb |-> TRUE, pads |-> {}]
Pad(S)  == [used |-> TRUE, kb |-> FALSE, pads |-> S]
Import(first, second) == [p \in Ports |-> IF p = 0 THEN first ELSE IF p = 1 THEN second ELSE Unused]

APad == CHOOSE pad \in Pads : TRUE

\* No import; a pad reserved for port 2; a keyboard port beside a pad's port; the keyboard
\* on every port.
UidImports == {NoImport, Import(Unused, Pad({APad})), Import(Keys, Pad({APad})), Import(Keys, Keys)}
\* One port for whichever of two identical pads is there, without serial numbers.
MCImports == UidImports \union {Import(Pad(Pads), Unused)}
NoImports == {NoImport}
=============================================================================
