---------------------------- MODULE AssignSession ----------------------------
(***************************************************************************)
(* One "Assign players" session of                                         *)
(* lib/RecompFrontend/recompinput/src/players.cpp: the temporary seats the *)
(* dialog edits and the order in which players joined, which Undo walks    *)
(* back.  A seat holds a pad handle, the keyboard, or both.                *)
(***************************************************************************)
EXTENDS Integers, Sequences, FiniteSets

CONSTANTS
    NumPorts,   \* max_players: 4 in the port
    MaxPlugs    \* bound: pad handles SDL hands out

ASSUME SessionAssumption == NumPorts \in Nat \ {0} /\ MaxPlugs \in Nat

Ports    == 0 .. NumPorts - 1
Handles  == 1 .. MaxPlugs      \* one for every time a pad is plugged in
NoHandle == 0                  \* a null SDL_GameController*
Players  == [ctl : Handles \union {NoHandle}, kb : BOOLEAN]
NoPlayer == [ctl |-> NoHandle, kb |-> FALSE]

Assigned(player)     == player.ctl # NoHandle \/ player.kb
KeyboardOnly(player) == player.kb /\ player.ctl = NoHandle

VARIABLES
    assigning,   \* is_assigning
    temp,        \* temp_players
    joinOrder,   \* join_order: slots filled in this session, oldest first
    joined       \* history: who filled them (NoHandle is the keyboard)

session == <<assigning, temp, joinOrder, joined>>

NextFree(slot) == ~Assigned(temp[slot]) /\ \A p \in 0 .. slot - 1 : Assigned(temp[p])
KeyboardAssigned == \E p \in Ports : KeyboardOnly(temp[p])

SessionInit ==
    /\ assigning = FALSE
    /\ temp = [p \in Ports |-> NoPlayer]
    /\ joinOrder = <<>> /\ joined = <<>>

Begin(seats) ==
    /\ assigning' = TRUE
    /\ temp' = seats
    /\ joinOrder' = <<>> /\ joined' = <<>>

\* Neither start looks whether a session is open: the buttons that call them do.
StartFromCurrent(current) == Begin(current)
StartOver == Begin([p \in Ports |-> NoPlayer])

\* Mutant of RecordJoin: records the player's number, which counts from one.
RecordJoinNumber(slot, who) ==
    /\ joinOrder' = Append(joinOrder, slot + 1)
    /\ joined' = Append(joined, who)

RecordJoin(slot, who) ==
    /\ joinOrder' = Append(joinOrder, slot)
    /\ joined' = Append(joined, who)

\* A button on a pad nobody holds yet: it takes the first free slot.
JoinPad(h) == \E slot \in Ports :
    /\ assigning /\ NextFree(slot)
    /\ \A p \in Ports : temp[p].ctl # h
    /\ temp' = [temp EXCEPT ![slot] = [ctl |-> h, kb |-> FALSE]]
    /\ RecordJoin(slot, h)
    /\ UNCHANGED assigning

\* The keyboard is one device: pad players that shared it give it up.
SeatKeyboard(slot) ==
    [p \in Ports |-> IF p = slot THEN [ctl |-> NoHandle, kb |-> TRUE]
                     ELSE IF temp[p].ctl # NoHandle THEN [temp[p] EXCEPT !.kb = FALSE]
                     ELSE temp[p]]

AddKeyboard == \E slot \in Ports :
    /\ assigning /\ NextFree(slot)
    /\ temp' = SeatKeyboard(slot)
    /\ RecordJoin(slot, NoHandle)
    /\ UNCHANGED assigning

\* Mutant of JoinKeyboard: no was_keyboard_assigned check.
JoinKeyboardAgain == AddKeyboard

JoinKeyboard == ~KeyboardAssigned /\ AddKeyboard

Without(seq, i) == [j \in 1 .. Len(seq) - 1 |-> IF j < i THEN seq[j] ELSE seq[j + 1]]

\* A slot is in the join order at most once (JoinOrderFollows), so one entry goes.
RemovePlayer(p) ==
    /\ assigning /\ Assigned(temp[p])
    /\ temp' = [temp EXCEPT ![p] = NoPlayer]
    /\ \/ \E i \in 1 .. Len(joinOrder) :
             /\ joinOrder[i] = p
             /\ joinOrder' = Without(joinOrder, i)
             /\ joined' = Without(joined, i)
       \/ /\ \A i \in 1 .. Len(joinOrder) : joinOrder[i] # p
          /\ UNCHANGED <<joinOrder, joined>>
    /\ UNCHANGED assigning

UndoLastJoin ==
    /\ assigning /\ joinOrder # <<>>
    /\ temp' = [temp EXCEPT ![joinOrder[Len(joinOrder)]] = NoPlayer]
    /\ joinOrder' = SubSeq(joinOrder, 1, Len(joinOrder) - 1)
    /\ joined' = SubSeq(joined, 1, Len(joined) - 1)
    /\ UNCHANGED assigning

\* Mutant of SwapPlayers: the join order keeps the old slot numbers.
SwapPlayersOnly(a, b) ==
    /\ assigning /\ a # b /\ Assigned(temp[a])
    /\ temp' = [temp EXCEPT ![a] = temp[b], ![b] = temp[a]]
    /\ UNCHANGED <<assigning, joinOrder, joined>>

\* The first card pressed holds a player, the second may be empty (a move).
SwapPlayers(a, b) ==
    /\ assigning /\ a # b /\ Assigned(temp[a])
    /\ temp' = [temp EXCEPT ![a] = temp[b], ![b] = temp[a]]
    /\ joinOrder' = [i \in 1 .. Len(joinOrder) |->
                        IF joinOrder[i] = a THEN b
                        ELSE IF joinOrder[i] = b THEN a ELSE joinOrder[i]]
    /\ UNCHANGED <<assigning, joined>>

Stop ==
    /\ assigning' = FALSE
    /\ UNCHANGED <<temp, joinOrder, joined>>

\* Confirm is enabled once min_players (1) seats are taken.
MetRequirements == \E p \in Ports : Assigned(temp[p])

-----------------------------------------------------------------------------
(* The session on its own, opened on any seats whatever.                    *)

Edit ==
    \/ StartOver \/ JoinKeyboard \/ UndoLastJoin
    \/ \E h \in Handles : JoinPad(h)
    \/ \E p \in Ports : RemovePlayer(p)
    \/ \E a, b \in Ports : SwapPlayers(a, b)

SessionNext ==
    \/ \E current \in [Ports -> Players] : StartFromCurrent(current)
    \/ Edit
    \/ Stop

SessionSpec == SessionInit /\ [][SessionNext]_session

-----------------------------------------------------------------------------
(* Properties.                                                             *)

SessionTypeOK ==
    /\ assigning \in BOOLEAN
    /\ temp \in [Ports -> Players]
    /\ joinOrder \in Seq(Ports)
    /\ joined \in Seq(Handles \union {NoHandle})

\* Nobody else holds this player's pad, or, for a keyboard player, uses the keyboard.
Alone(held, p) ==
    \A q \in Ports \ {p} :
        /\ held[p].ctl # NoHandle => held[q].ctl # held[p].ctl
        /\ KeyboardOnly(held[p]) => ~held[q].kb

\* Whatever seats the dialog opens on and whatever is joined, removed, undone and swapped
\* in it: a player who joined in it shares neither pad nor keyboard with anybody.
JoinersSound == \A i \in 1 .. Len(joinOrder) : Alone(temp, joinOrder[i])

\* "Undo follows the player, not the slot number": the i-th slot of join_order holds
\* the i-th player that joined and is still there, through swaps and removals.
JoinOrderFollows ==
    /\ Len(joinOrder) = Len(joined)
    /\ \A i \in 1 .. Len(joinOrder) :
          Assigned(temp[joinOrder[i]]) /\ temp[joinOrder[i]].ctl = joined[i]
    /\ \A i, j \in 1 .. Len(joinOrder) : joinOrder[i] = joinOrder[j] => i = j
=============================================================================
