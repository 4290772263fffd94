------------------------ MODULE ControllerAssignment ------------------------
(***************************************************************************)
(* The pure assignment policy of src/src/frontend/controller_assignment.hpp *)
(* over device handles: h \in S is a connected handle, padOf[h] its pad,    *)
(* and handles grow in the order SDL enumerates them.                      *)
(***************************************************************************)
EXTENDS AssignSession

CONSTANTS Pads, NoPad

ASSUME PolicyAssumption == NoPad \notin Pads

Slots == [ctl : Pads \union {NoPad}, kb : BOOLEAN, reserved : BOOLEAN, share : BOOLEAN]
EmptySlot == [ctl |-> NoPad, kb |-> FALSE, reserved |-> FALSE, share |-> FALSE]

Rank(S, x) == Cardinality({y \in S : y < x})
Nth(S, n)  == CHOOSE x \in S : Rank(S, x) = n

Present(S, padOf, pad) == \E h \in S : padOf[h] = pad

\* Pads in order, one a port; the keyboard is port 1 only when there is no pad.
Automatic(S, padOf, separate) ==
    [p \in Ports |->
        [ctl |-> IF p < Cardinality(S) THEN padOf[Nth(S, p)] ELSE NoPad,
         kb |-> p = 0 /\ S = {}, reserved |-> FALSE,
         share |-> p = 0 /\ S = {} /\ ~separate]]

\* Port by port, the first matching device no lower port claimed (NoHandle if none).
LegacyClaims(legacy, S, padOf) ==
    LET claim[p \in Ports] ==
            LET free == {h \in S : padOf[h] \in legacy[p] /\
                                   \A q \in 0 .. p - 1 : claim[q] # h}
            IN IF free = {} THEN NoHandle ELSE Nth(free, 0)
    IN claim

\* Mutant of ResolveLegacy: a claimed pad also stays where it was seated.
ResolveLegacyOnly(preferred, legacy, S, padOf) ==
    LET claim == LegacyClaims(legacy, S, padOf)
    IN [p \in Ports |->
          IF legacy[p] # {}
          THEN [preferred[p] EXCEPT !.ctl = IF claim[p] = NoHandle THEN NoPad ELSE padOf[claim[p]]]
          ELSE preferred[p]]

\* legacy[p] holds the pads a saved port matches: one by uid, several by GUID alone.
ResolveLegacy(preferred, legacy, S, padOf) ==
    LET claim == LegacyClaims(legacy, S, padOf)
        claimed == {padOf[claim[p]] : p \in {q \in Ports : claim[q] # NoHandle}}
    IN [p \in Ports |->
          IF legacy[p] # {}
          THEN [preferred[p] EXCEPT !.ctl = IF claim[p] = NoHandle THEN NoPad ELSE padOf[claim[p]]]
          ELSE [preferred[p] EXCEPT !.ctl = IF @ \in claimed THEN NoPad ELSE @]]

\* A pad that left gives up its port, and the reservation too unless it is reserved.
Kept(preferred, S, padOf) ==
    [p \in Ports |-> IF Present(S, padOf, preferred[p].ctl) THEN preferred[p].ctl ELSE NoPad]

Unplaced(preferred, S, padOf) ==
    {h \in S : \A p \in Ports : Kept(preferred, S, padOf)[p] # padOf[h]}

\* Mutant of Open: a keyboard's port is never shared.
OpenUnshared(preferred, S, padOf) ==
    {p \in Ports : /\ ~preferred[p].reserved
                   /\ Kept(preferred, S, padOf)[p] = NoPad
                   /\ ~preferred[p].kb}

\* The ports the second loop may fill; filling one does not change the others.
Open(preferred, S, padOf) ==
    {p \in Ports : /\ ~preferred[p].reserved
                   /\ Kept(preferred, S, padOf)[p] = NoPad
                   /\ preferred[p].kb => preferred[p].share}

\* The loop's outcome: the n-th pad without a port gets the n-th open port.
Placed(preferred, S, padOf) ==
    LET open == Open(preferred, S, padOf)
        pads == Unplaced(preferred, S, padOf)
    IN [p \in Ports |-> IF p \in open /\ Rank(open, p) < Cardinality(pads)
                        THEN padOf[Nth(pads, Rank(open, p))]
                        ELSE Kept(preferred, S, padOf)[p]]

\* Mutant of Reconcile: reserved ports are skipped.
ReconcileUnreserved(preferred, S, padOf) ==
    [p \in Ports |-> [preferred[p] EXCEPT !.ctl =
        IF preferred[p].reserved THEN NoPad ELSE Placed(preferred, S, padOf)[p]]]

\* reconcile's return value, and what it leaves in its argument.
Reconcile(preferred, S, padOf) ==
    [p \in Ports |-> [preferred[p] EXCEPT !.ctl = Placed(preferred, S, padOf)[p]]]

\* Mutant of Remembered: a reserved port forgets its pad when it leaves.
RememberedConnected(preferred, S, padOf) ==
    [p \in Ports |-> [preferred[p] EXCEPT !.ctl = Placed(preferred, S, padOf)[p]]]

Remembered(preferred, S, padOf) ==
    [p \in Ports |-> [preferred[p] EXCEPT !.ctl =
        IF preferred[p].reserved /\ Placed(preferred, S, padOf)[p] = NoPad
        THEN @ ELSE Placed(preferred, S, padOf)[p]]]
=============================================================================
