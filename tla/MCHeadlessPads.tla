--------------------------- MODULE MCHeadlessPads ---------------------------
(* Small instances of HeadlessPads for TLC: two clones that share a serial *)
(* number and a pad of another model without one.                          *)
EXTENDS HeadlessPads

CONSTANTS a, b, c

MCGuid   == [pad \in Pads |-> IF pad = c THEN 2 ELSE 1]
MCSerial == [pad \in Pads |-> IF pad = c THEN 0 ELSE 9]

None     == [type |-> "none", uid |-> NoUid, guid |-> 0, pak |-> FALSE]
Keyboard == [None EXCEPT !.type = "keyboard", !.pak = TRUE]
AnyPad   == [type |-> "pad", uid |-> NoUid, guid |-> 1, pak |-> TRUE]
ThePad(tail) == [AnyPad EXCEPT !.uid = [guid |-> 1, tail |-> tail]]
Layout(first, second) == [p \in Ports |-> IF p = 0 THEN first ELSE IF p = 1 THEN second ELSE None]

\* Two ports that take any pad of the model, one before a port with a picked pad, two
\* picked pads, one pad picked twice, and a keyboard beside a picked pad.
MCConfigs ==
    {Layout(AnyPad, AnyPad), Layout(AnyPad, ThePad(9)), Layout(ThePad(9), ThePad(1)),
     Layout(ThePad(9), ThePad(9)), Layout(Keyboard, ThePad(9))}
=============================================================================
