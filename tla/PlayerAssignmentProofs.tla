------------------------- MODULE PlayerAssignmentProofs -------------------------
(* Proofs about PlayerAssignment and the dialog it includes, for any number of ports,   *)
(* pads, plugs, launches and sessions. Parts: the dialog alone; the claims of           *)
(* ControllerAssignment; the types of the composed state; then each property with the   *)
(* invariant it needs. ~SessionHotplug and ~Overlap are hypotheses where the property   *)
(* needs them: README.md says what the other values allow.                              *)
EXTENDS PlayerAssignment, ClaimLemmas, SequenceTheorems

(* The dialog alone. *)

USE SessionAssumption DEF Ports, Handles, NoHandle, Players, NoPlayer

LEMMA WithoutSeq ==
    ASSUME NEW S, NEW seq \in Seq(S), NEW i \in 1 .. Len(seq)
    PROVE  /\ Without(seq, i) \in Seq(S)
           /\ Len(Without(seq, i)) = Len(seq) - 1
           /\ \A j \in 1 .. Len(seq) - 1 :
                 Without(seq, i)[j] = IF j < i THEN seq[j] ELSE seq[j + 1]
<1>1. \A j \in 1 .. Len(seq) - 1 : (IF j < i THEN seq[j] ELSE seq[j + 1]) \in S
    OBVIOUS
<1> QED BY <1>1 DEF Without

\* The two need each other: a removal shortens two histories of one length.
SessionOrder == SessionTypeOK /\ JoinOrderFollows
SessionInv == SessionOrder /\ JoinersSound

\* The dialog's steps, and the keyboard seated without a look at who has it.
SessionMoves == SessionNext \/ AddKeyboard

LEMMA SessionInitInv == SessionInit => SessionInv
<1> SUFFICES ASSUME SessionInit PROVE SessionInv
    OBVIOUS
<1>1. temp \in [Ports -> Players]
    BY DEF SessionInit
<1>2. joinOrder \in Seq(Ports) /\ joined \in Seq(Handles \union {NoHandle})
    BY DEF SessionInit
<1>3. SessionTypeOK
    BY <1>1, <1>2 DEF SessionInit, SessionTypeOK
<1>4. JoinOrderFollows
    BY DEF SessionInit, JoinOrderFollows
<1>5. JoinersSound
    BY DEF SessionInit, JoinersSound
<1> QED BY <1>3, <1>4, <1>5 DEF SessionInv, SessionOrder

LEMMA TypeStep == SessionOrder /\ [SessionMoves]_session => SessionTypeOK'
<1> SUFFICES ASSUME SessionOrder, [SessionMoves]_session PROVE SessionTypeOK'
    OBVIOUS
<1> USE DEF SessionTypeOK, SessionOrder
<1>1. ASSUME NEW current \in [Ports -> Players], StartFromCurrent(current) PROVE SessionTypeOK'
    BY <1>1 DEF StartFromCurrent, Begin
<1>2. CASE StartOver
    BY <1>2 DEF StartOver, Begin
<1>3. CASE AddKeyboard
  <2>1. PICK slot \in Ports : /\ temp' = SeatKeyboard(slot)
                              /\ RecordJoin(slot, NoHandle)
                              /\ assigning' = assigning
      BY <1>3 DEF AddKeyboard
  <2>2. temp' \in [Ports -> Players]
      BY <2>1 DEF SeatKeyboard
  <2>3. joinOrder' \in Seq(Ports) /\ joined' \in Seq(Handles \union {NoHandle})
      BY <2>1 DEF RecordJoin
  <2> QED BY <2>1, <2>2, <2>3
<1>4. CASE UndoLastJoin
  <2>1. joinOrder' \in Seq(Ports) /\ joined' \in Seq(Handles \union {NoHandle})
      BY <1>4, SMTT(20) DEF UndoLastJoin, JoinOrderFollows
  <2>2. temp' \in [Ports -> Players]
      BY <1>4 DEF UndoLastJoin
  <2> QED BY <1>4, <2>1, <2>2 DEF UndoLastJoin
<1>5. ASSUME NEW h \in Handles, JoinPad(h) PROVE SessionTypeOK'
    BY <1>5 DEF JoinPad, RecordJoin
<1>6. ASSUME NEW p \in Ports, RemovePlayer(p) PROVE SessionTypeOK'
  <2>1. temp' \in [Ports -> Players] /\ assigning' = assigning
      BY <1>6 DEF RemovePlayer
  <2>2. CASE \A i \in 1 .. Len(joinOrder) : joinOrder[i] # p
      BY <1>6, <2>1, <2>2 DEF RemovePlayer
  <2>3. ASSUME NEW i \in 1 .. Len(joinOrder),
               joinOrder' = Without(joinOrder, i), joined' = Without(joined, i)
        PROVE  SessionTypeOK'
    <3>1. Len(joinOrder) = Len(joined)
        BY DEF JoinOrderFollows
    <3>2. joinOrder' \in Seq(Ports) /\ joined' \in Seq(Handles \union {NoHandle})
        BY <2>3, <3>1, WithoutSeq
    <3> QED BY <2>1, <3>2
  <2> QED BY <1>6, <2>2, <2>3 DEF RemovePlayer
<1>7. ASSUME NEW a \in Ports, NEW b \in Ports, SwapPlayers(a, b) PROVE SessionTypeOK'
  <2>1. joinOrder' \in Seq(Ports)
    <3> DEFINE slot(i) == IF joinOrder[i] = a THEN b
                          ELSE IF joinOrder[i] = b THEN a ELSE joinOrder[i]
    <3>1. \A i \in 1 .. Len(joinOrder) : slot(i) \in Ports
        OBVIOUS
    <3>2. joinOrder' = [i \in 1 .. Len(joinOrder) |-> slot(i)]
        BY <1>7 DEF SwapPlayers
    <3>3. Len(joinOrder) \in Nat
        OBVIOUS
    <3> HIDE DEF slot
    <3> QED BY <3>1, <3>2, <3>3
  <2>2. temp' \in [Ports -> Players]
      BY <1>7 DEF SwapPlayers
  <2> QED BY <1>7, <2>1, <2>2 DEF SwapPlayers
<1>8. CASE Stop
    BY <1>8 DEF Stop
<1>9. CASE UNCHANGED session
    BY <1>9 DEF session
<1> QED
    BY <1>1, <1>2, <1>3, <1>4, <1>5, <1>6, <1>7, <1>8, <1>9
    DEF SessionMoves, SessionNext, Edit, JoinKeyboard

\* A player who joined stays alone: another joins with a pad nobody holds, or with the keyboard
\* nobody plays alone, which everybody else then gives up.
LEMMA JoinersStep == SessionInv /\ [SessionNext]_session => JoinersSound'
<1> SUFFICES ASSUME SessionInv, [SessionNext]_session PROVE JoinersSound'
    OBVIOUS
<1>0. /\ temp \in [Ports -> Players] /\ joinOrder \in Seq(Ports)
      /\ \A i \in 1 .. Len(joinOrder) : joinOrder[i] \in Ports /\ Alone(temp, joinOrder[i])
    BY DEF SessionTypeOK, SessionOrder, SessionInv, JoinersSound
<1>a. ASSUME \A i \in 1 .. Len(joinOrder') : Alone(temp', joinOrder'[i]) PROVE JoinersSound'
    BY <1>a DEF JoinersSound, Alone, KeyboardOnly
<1>1. ASSUME NEW current \in [Ports -> Players], StartFromCurrent(current) PROVE JoinersSound'
    BY <1>1, <1>a DEF StartFromCurrent, Begin
<1>2. CASE StartOver
    BY <1>2, <1>a DEF StartOver, Begin
<1>3. CASE JoinKeyboard
  <2>1. PICK slot \in Ports : temp' = SeatKeyboard(slot) /\ RecordJoin(slot, NoHandle)
      BY <1>3 DEF JoinKeyboard, AddKeyboard
  <2>2. Alone(temp', slot) /\ \A p \in Ports : Alone(temp, p) => Alone(temp', p)
      BY <1>0, <1>3, <2>1 DEF Alone, SeatKeyboard, JoinKeyboard, KeyboardAssigned, KeyboardOnly
  <2>3. \A i \in 1 .. Len(joinOrder') : joinOrder'[i] = slot \/ \E j \in 1 .. Len(joinOrder) : joinOrder'[i] = joinOrder[j]
      BY <1>0, <2>1 DEF RecordJoin
  <2> QED BY <1>0, <1>a, <2>2, <2>3
<1>b. ASSUME NEW p \in Ports, temp' = [temp EXCEPT ![p] = NoPlayer],
             \A i \in 1 .. Len(joinOrder') : \E j \in 1 .. Len(joinOrder) : joinOrder'[i] = joinOrder[j]
      PROVE  JoinersSound'
  <2>1. \A q \in Ports : Alone(temp, q) => Alone(temp', q)
      BY <1>0, <1>b DEF Alone, KeyboardOnly
  <2> QED BY <1>0, <1>a, <1>b, <2>1
<1>4. CASE UndoLastJoin
  <2>1. joinOrder[Len(joinOrder)] \in Ports
      BY <1>0, <1>4 DEF UndoLastJoin
  <2>2. \A i \in 1 .. Len(joinOrder') : i \in 1 .. Len(joinOrder) /\ joinOrder'[i] = joinOrder[i]
      BY <1>0, <1>4 DEF UndoLastJoin
  <2> QED BY <1>4, <1>b, <2>1, <2>2 DEF UndoLastJoin
<1>5. ASSUME NEW h \in Handles, JoinPad(h) PROVE JoinersSound'
  <2>1. PICK slot \in Ports : /\ temp' = [temp EXCEPT ![slot] = [ctl |-> h, kb |-> FALSE]]
                              /\ RecordJoin(slot, h)
      BY <1>5 DEF JoinPad
  <2>2. Alone(temp', slot) /\ \A p \in Ports : Alone(temp, p) => Alone(temp', p)
      BY <1>0, <1>5, <2>1 DEF Alone, JoinPad, KeyboardOnly
  <2>3. \A i \in 1 .. Len(joinOrder') : joinOrder'[i] = slot \/ \E j \in 1 .. Len(joinOrder) : joinOrder'[i] = joinOrder[j]
      BY <1>0, <2>1 DEF RecordJoin
  <2> QED BY <1>0, <1>a, <2>2, <2>3
<1>6. ASSUME NEW p \in Ports, RemovePlayer(p) PROVE JoinersSound'
  <2>1. \A i \in 1 .. Len(joinOrder') : \E j \in 1 .. Len(joinOrder) : joinOrder'[i] = joinOrder[j]
    <3>1. CASE UNCHANGED joinOrder
        BY <3>1
    <3>2. ASSUME NEW i \in 1 .. Len(joinOrder), joinOrder' = Without(joinOrder, i)
          PROVE  \A k \in 1 .. Len(joinOrder') : \E j \in 1 .. Len(joinOrder) : joinOrder'[k] = joinOrder[j]
      <4>1. joinOrder \in Seq(Ports) /\ Len(joinOrder) \in Nat
          BY <1>0
      <4>2. /\ Len(Without(joinOrder, i)) = Len(joinOrder) - 1
            /\ \A j \in 1 .. Len(joinOrder) - 1 :
                  Without(joinOrder, i)[j] = IF j < i THEN joinOrder[j] ELSE joinOrder[j + 1]
          BY <4>1, WithoutSeq
      <4> SUFFICES ASSUME NEW k \in 1 .. Len(joinOrder) - 1
                   PROVE  \E j \in 1 .. Len(joinOrder) : Without(joinOrder, i)[k] = joinOrder[j]
          BY <3>2, <4>2
      <4>3. k \in 1 .. Len(joinOrder) /\ k + 1 \in 1 .. Len(joinOrder)
          BY <4>1
      <4> QED BY <4>2, <4>3
    <3> QED BY <1>6, <3>1, <3>2 DEF RemovePlayer
  <2> QED BY <1>6, <1>b, <2>1 DEF RemovePlayer
<1>7. ASSUME NEW a \in Ports, NEW b \in Ports, SwapPlayers(a, b) PROVE JoinersSound'
  <2> DEFINE moved(p) == IF p = a THEN b ELSE IF p = b THEN a ELSE p
  <2>1. \A p \in Ports : temp'[moved(p)] = temp[p] /\ moved(p) \in Ports /\ moved(moved(p)) = p
      BY <1>0, <1>7 DEF SwapPlayers
  <2>2. \A p \in Ports : Alone(temp, p) => Alone(temp', moved(p))
    <3> SUFFICES ASSUME NEW p \in Ports, Alone(temp, p), NEW q \in Ports \ {moved(p)}
                 PROVE  /\ temp'[moved(p)].ctl # NoHandle => temp'[q].ctl # temp'[moved(p)].ctl
                        /\ KeyboardOnly(temp'[moved(p)]) => ~temp'[q].kb
        BY DEF Alone
    <3>1. temp'[moved(p)] = temp[p]
        BY <2>1
    <3>2. moved(q) \in Ports \ {p} /\ temp'[q] = temp[moved(q)]
        BY <2>1
    <3> HIDE DEF moved
    <3> QED BY <3>1, <3>2 DEF Alone
  <2>3. Len(joinOrder') = Len(joinOrder) /\ \A i \in 1 .. Len(joinOrder) : joinOrder'[i] = moved(joinOrder[i])
      BY <1>0, <1>7 DEF SwapPlayers
  <2> HIDE DEF moved
  <2> QED BY <1>0, <1>a, <2>2, <2>3
<1>8. CASE Stop
    BY <1>0, <1>8, <1>a DEF Stop
<1>9. CASE UNCHANGED session
    BY <1>0, <1>9, <1>a DEF session
<1> QED
    BY <1>1, <1>2, <1>3, <1>4, <1>5, <1>6, <1>7, <1>8, <1>9 DEF SessionNext, Edit

(* JoinOrderFollows of any held and histories, and what keeps it.         *)
Who == Handles \union {NoHandle}

Follow(held, order, who) ==
    /\ Len(order) = Len(who)
    /\ \A i \in 1 .. Len(order) : Assigned(held[order[i]]) /\ held[order[i]].ctl = who[i]
    /\ \A i, j \in 1 .. Len(order) : order[i] = order[j] => i = j

\* A player who takes an empty seat extends the order.
LEMMA FollowJoin ==
    ASSUME NEW held \in [Ports -> Players], NEW held2 \in [Ports -> Players],
           NEW order \in Seq(Ports), NEW who \in Seq(Who), Follow(held, order, who),
           NEW slot \in Ports, ~Assigned(held[slot]),
           NEW h \in Who, Assigned(held2[slot]), held2[slot].ctl = h,
           \A p \in Ports \ {slot} :
              /\ held2[p].ctl = held[p].ctl
              /\ Assigned(held[p]) => Assigned(held2[p])
    PROVE  Follow(held2, Append(order, slot), Append(who, h))
<1> DEFINE n == Len(order)
           o2 == Append(order, slot)
           w2 == Append(who, h)
<1>1. /\ n \in Nat /\ Len(o2) = n + 1 /\ Len(w2) = n + 1
      /\ o2[n + 1] = slot /\ w2[n + 1] = h
      /\ \A i \in 1 .. n : order[i] \in Ports /\ o2[i] = order[i] /\ w2[i] = who[i]
    BY DEF Follow
<1>2. \A i \in 1 .. n : order[i] # slot
    BY DEF Follow
<1>3. \A i \in 1 .. n + 1 : i \in 1 .. n \/ i = n + 1
    BY <1>1
<1> HIDE DEF n, o2, w2
<1>4. \A i \in 1 .. n + 1 : Assigned(held2[o2[i]]) /\ held2[o2[i]].ctl = w2[i]
  <2> SUFFICES ASSUME NEW i \in 1 .. n + 1
               PROVE  Assigned(held2[o2[i]]) /\ held2[o2[i]].ctl = w2[i]
      OBVIOUS
  <2>1. CASE i = n + 1
      BY <1>1, <2>1
  <2>2. CASE i \in 1 .. n
    <3>1. Assigned(held[order[i]]) /\ held[order[i]].ctl = who[i]
        BY <2>2 DEF Follow, n
    <3>2. order[i] \in Ports \ {slot} /\ o2[i] = order[i] /\ w2[i] = who[i]
        BY <1>1, <1>2, <2>2
    <3> HIDE DEF Follow
    <3>3. /\ held2[order[i]].ctl = held[order[i]].ctl
          /\ Assigned(held[order[i]]) => Assigned(held2[order[i]])
        BY <3>2
    <3> QED BY <3>1, <3>2, <3>3
  <2> QED BY <1>3, <2>1, <2>2
<1>5. \A i, j \in 1 .. n + 1 : o2[i] = o2[j] => i = j
  <2>1. \A i, j \in 1 .. n : order[i] = order[j] => i = j
      BY DEF Follow, n
  <2> SUFFICES ASSUME NEW i \in 1 .. n + 1, NEW j \in 1 .. n + 1, o2[i] = o2[j]
               PROVE  i = j
      OBVIOUS
  <2>2. CASE i \in 1 .. n /\ j \in 1 .. n
      BY <1>1, <2>1, <2>2
  <2>3. CASE i = n + 1 /\ j \in 1 .. n
      BY <1>1, <1>2, <2>3
  <2>4. CASE i \in 1 .. n /\ j = n + 1
      BY <1>1, <1>2, <2>4
  <2> QED BY <1>3, <2>2, <2>3, <2>4
<1> QED BY <1>1, <1>4, <1>5 DEF Follow, o2, w2

\* Emptying a seat that is not in the order keeps it.
LEMMA FollowClear ==
    ASSUME NEW held \in [Ports -> Players], NEW order \in Seq(Ports),
           NEW who \in Seq(Who), Follow(held, order, who),
           NEW p \in Ports, \A i \in 1 .. Len(order) : order[i] # p
    PROVE  Follow([held EXCEPT ![p] = NoPlayer], order, who)
<1> \A i \in 1 .. Len(order) : order[i] \in Ports
    OBVIOUS
<1> QED BY DEF Follow

\* Dropping the i-th entry of both histories keeps them in step.
LEMMA FollowWithout ==
    ASSUME NEW held \in [Ports -> Players], NEW order \in Seq(Ports),
           NEW who \in Seq(Who), Follow(held, order, who),
           NEW i \in 1 .. Len(order)
    PROVE  /\ Follow(held, Without(order, i), Without(who, i))
           /\ \A j \in 1 .. Len(Without(order, i)) : Without(order, i)[j] # order[i]
<1> DEFINE n == Len(order)
           o2 == Without(order, i)
           w2 == Without(who, i)
           old(j) == IF j < i THEN j ELSE j + 1
<1>1. n \in Nat /\ Len(who) = n /\ i \in 1 .. n
    BY DEF Follow
<1>2. /\ Len(o2) = n - 1 
      /\ \A j \in 1 .. n - 1 : o2[j] = order[old(j)]
    BY <1>1, WithoutSeq
<1>3. /\ Len(w2) = n - 1
      /\ \A j \in 1 .. n - 1 : w2[j] = who[old(j)]
  <2>1. i \in 1 .. Len(who)
      BY <1>1
  <2> QED BY <1>1, <2>1, WithoutSeq
<1>4. /\ \A j \in 1 .. n - 1 : old(j) \in 1 .. n /\ old(j) # i
      /\ \A j, k \in 1 .. n - 1 : old(j) = old(k) => j = k
    BY <1>1
<1>5. /\ \A j \in 1 .. n : Assigned(held[order[j]]) /\ held[order[j]].ctl = who[j]
      /\ \A j, k \in 1 .. n : order[j] = order[k] => j = k
    BY DEF Follow
<1> HIDE DEF n, o2, w2, old
<1>6. \A j \in 1 .. n - 1 : Assigned(held[o2[j]]) /\ held[o2[j]].ctl = w2[j]
  <2> SUFFICES ASSUME NEW j \in 1 .. n - 1
               PROVE  Assigned(held[o2[j]]) /\ held[o2[j]].ctl = w2[j]
      OBVIOUS
  <2>1. old(j) \in 1 .. n /\ o2[j] = order[old(j)] /\ w2[j] = who[old(j)]
      BY <1>2, <1>3, <1>4
  <2> QED BY <1>5, <2>1
<1>7. \A j, k \in 1 .. n - 1 : o2[j] = o2[k] => j = k
    BY <1>2, <1>4, <1>5
<1>8. \A j \in 1 .. n - 1 : o2[j] # order[i]
  <2> SUFFICES ASSUME NEW j \in 1 .. n - 1 PROVE o2[j] # order[i]
      OBVIOUS
  <2>1. old(j) \in 1 .. n /\ old(j) # i /\ o2[j] = order[old(j)]
      BY <1>2, <1>4
  <2> QED BY <1>1, <1>5, <2>1
<1>9. Follow(held, o2, w2)
    BY <1>2, <1>3, <1>6, <1>7 DEF Follow
<1>10. \A j \in 1 .. Len(o2) : o2[j] # order[i]
    BY <1>2, <1>8
<1> QED BY <1>9, <1>10 DEF o2, w2

\* So does dropping the last.
LEMMA FollowUndo ==
    ASSUME NEW held \in [Ports -> Players], NEW order \in Seq(Ports),
           NEW who \in Seq(Who), Follow(held, order, who), order # <<>>
    PROVE  LET last == Len(order) IN
           Follow([held EXCEPT ![order[last]] = NoPlayer],
                  SubSeq(order, 1, last - 1), SubSeq(who, 1, last - 1))
<1> DEFINE last == Len(order)
           o2 == SubSeq(order, 1, last - 1)
           w2 == SubSeq(who, 1, last - 1)
<1>1. last \in Nat /\ last >= 1 /\ Len(who) = last /\ order[last] \in Ports
    BY DEF Follow
<1>2. /\ Len(o2) = last - 1 /\ Len(w2) = last - 1
      /\ \A j \in 1 .. last - 1 : o2[j] = order[j] /\ w2[j] = who[j]
      /\ o2 \in Seq(Ports) /\ w2 \in Seq(Who)
    BY <1>1
<1>3. /\ \A j \in 1 .. last : Assigned(held[order[j]]) /\ held[order[j]].ctl = who[j]
      /\ \A j, k \in 1 .. last : order[j] = order[k] => j = k
    BY DEF Follow
<1>4. \A j \in 1 .. last - 1 : j \in 1 .. last /\ j # last
    BY <1>1
<1> HIDE DEF last, o2, w2
<1>5. Follow(held, o2, w2)
    BY <1>1, <1>2, <1>3, <1>4 DEF Follow
<1>6. \A j \in 1 .. Len(o2) : o2[j] # order[last]
  <2>1. last \in 1 .. last
      BY <1>1
  <2> QED BY <1>2, <1>3, <1>4, <2>1
<1>7. Follow([held EXCEPT ![order[last]] = NoPlayer], o2, w2)
    BY <1>1, <1>2, <1>5, <1>6, FollowClear
<1> QED BY <1>7 DEF last, o2, w2

SwapSeats(held, a, b) == [held EXCEPT ![a] = held[b], ![b] = held[a]]
SwapNumbers(order, a, b) ==
    [i \in 1 .. Len(order) |-> IF order[i] = a THEN b
                               ELSE IF order[i] = b THEN a ELSE order[i]]

\* Exchanging two held and their numbers in the order moves nobody.
LEMMA FollowSwap ==
    ASSUME NEW held \in [Ports -> Players], NEW order \in Seq(Ports),
           NEW who \in Seq(Who), Follow(held, order, who),
           NEW a \in Ports, NEW b \in Ports
    PROVE  Follow(SwapSeats(held, a, b), SwapNumbers(order, a, b), who)
<1> DEFINE s2 == SwapSeats(held, a, b)
           o2 == SwapNumbers(order, a, b)
           n == Len(order)
           moved(p) == IF p = a THEN b ELSE IF p = b THEN a ELSE p
<1>1. n \in Nat /\ Len(who) = n /\ \A i \in 1 .. n : order[i] \in Ports
    BY DEF Follow
<1>2. /\ \A p \in Ports : s2[moved(p)] = held[p]
      /\ \A p, q \in Ports : moved(p) = moved(q) => p = q
    BY DEF SwapSeats
<1>3. /\ \A i \in 1 .. n : Assigned(held[order[i]]) /\ held[order[i]].ctl = who[i]
      /\ \A i, j \in 1 .. n : order[i] = order[j] => i = j
    BY DEF Follow
<1>4. Len(o2) = n /\ \A i \in 1 .. n : o2[i] = moved(order[i])
    BY <1>1 DEF SwapNumbers
<1> HIDE DEF n, moved, s2, o2
<1> QED BY <1>1, <1>2, <1>3, <1>4, SMTT(20) DEF Follow, n, s2, o2

LEMMA OrderStep == SessionOrder /\ [SessionMoves]_session => JoinOrderFollows'
<1> SUFFICES ASSUME SessionOrder, [SessionMoves]_session PROVE JoinOrderFollows'
    OBVIOUS
<1>0. /\ temp \in [Ports -> Players] /\ temp' \in [Ports -> Players]
      /\ joinOrder \in Seq(Ports) /\ joined \in Seq(Who)
      /\ Follow(temp, joinOrder, joined)
    BY TypeStep DEF SessionTypeOK, SessionOrder, JoinOrderFollows, Follow, Who
<1> SUFFICES Follow(temp', joinOrder', joined')
    BY DEF JoinOrderFollows, Follow
<1> DEFINE Goal == Follow(temp', joinOrder', joined')
<1>1. ASSUME NEW current \in [Ports -> Players], StartFromCurrent(current) PROVE Goal
    BY <1>1 DEF StartFromCurrent, Begin, Follow
<1>2. CASE StartOver
    BY <1>2 DEF StartOver, Begin, Follow
<1>3. CASE AddKeyboard
  <2>1. PICK slot \in Ports : /\ NextFree(slot)
                              /\ temp' = SeatKeyboard(slot)
                              /\ RecordJoin(slot, NoHandle)
      BY <1>3 DEF AddKeyboard
  <2>2. ~Assigned(temp[slot])
      BY <2>1 DEF NextFree
  <2>3. Assigned(temp'[slot]) /\ temp'[slot].ctl = NoHandle
      BY <1>0, <2>1 DEF SeatKeyboard, Assigned
  <2>4. \A p \in Ports \ {slot} :
           /\ temp'[p].ctl = temp[p].ctl
           /\ Assigned(temp[p]) => Assigned(temp'[p])
      BY <1>0, <2>1 DEF SeatKeyboard, Assigned
  <2>5. NoHandle \in Who
      BY DEF Who
  <2>6. Follow(temp', Append(joinOrder, slot), Append(joined, NoHandle))
      BY <1>0, <2>2, <2>3, <2>4, <2>5, FollowJoin, ZenonT(30)
  <2> QED BY <2>1, <2>6 DEF RecordJoin
<1>4. CASE UndoLastJoin
  <2>1. /\ temp' = [temp EXCEPT ![joinOrder[Len(joinOrder)]] = NoPlayer]
        /\ joinOrder' = SubSeq(joinOrder, 1, Len(joinOrder) - 1)
        /\ joined' = SubSeq(joined, 1, Len(joined) - 1)
        /\ joinOrder # <<>>
      BY <1>4 DEF UndoLastJoin
  <2>2. Len(joined) = Len(joinOrder)
      BY <1>0 DEF Follow
  <2>3. Follow([temp EXCEPT ![joinOrder[Len(joinOrder)]] = NoPlayer],
               SubSeq(joinOrder, 1, Len(joinOrder) - 1),
               SubSeq(joined, 1, Len(joinOrder) - 1))
      BY <1>0, <2>1, FollowUndo
  <2> QED BY <2>1, <2>2, <2>3
<1>5. ASSUME NEW h \in Handles, JoinPad(h) PROVE Goal
  <2>1. PICK slot \in Ports :
           /\ NextFree(slot)
           /\ temp' = [temp EXCEPT ![slot] = [ctl |-> h, kb |-> FALSE]]
           /\ RecordJoin(slot, h)
      BY <1>5 DEF JoinPad
  <2>2. ~Assigned(temp[slot])
      BY <2>1 DEF NextFree
  <2>3. Assigned(temp'[slot]) /\ temp'[slot].ctl = h
      BY <1>0, <2>1 DEF Assigned
  <2>4. \A p \in Ports \ {slot} :
           /\ temp'[p].ctl = temp[p].ctl
           /\ Assigned(temp[p]) => Assigned(temp'[p])
      BY <1>0, <2>1
  <2>5. h \in Who
      BY DEF Who
  <2>6. Follow(temp', Append(joinOrder, slot), Append(joined, h))
      BY <1>0, <2>2, <2>3, <2>4, <2>5, FollowJoin
  <2> QED BY <2>1, <2>6 DEF RecordJoin
<1>6. ASSUME NEW p \in Ports, RemovePlayer(p) PROVE Goal
  <2>1. temp' = [temp EXCEPT ![p] = NoPlayer]
      BY <1>6 DEF RemovePlayer
  <2>2. CASE \A i \in 1 .. Len(joinOrder) : joinOrder[i] # p
    <3>1. joinOrder' = joinOrder /\ joined' = joined
        BY <1>6, <2>2 DEF RemovePlayer
    <3>2. Follow([temp EXCEPT ![p] = NoPlayer], joinOrder, joined)
        BY <1>0, <2>2, FollowClear
    <3> QED BY <2>1, <3>1, <3>2
  <2>3. ASSUME NEW i \in 1 .. Len(joinOrder), joinOrder[i] = p,
               joinOrder' = Without(joinOrder, i), joined' = Without(joined, i)
        PROVE  Goal
    <3>1. /\ Follow(temp, joinOrder', joined')
          /\ \A j \in 1 .. Len(joinOrder') : joinOrder'[j] # p
        BY <1>0, <2>3, FollowWithout
    <3>2. joinOrder' \in Seq(Ports) /\ joined' \in Seq(Who)
        BY TypeStep DEF SessionTypeOK, Who
    <3> QED BY <1>0, <2>1, <3>1, <3>2, FollowClear
  <2> QED BY <1>6, <2>2, <2>3 DEF RemovePlayer
<1>7. ASSUME NEW a \in Ports, NEW b \in Ports, SwapPlayers(a, b) PROVE Goal
  <2>1. /\ temp' = SwapSeats(temp, a, b)
        /\ joinOrder' = SwapNumbers(joinOrder, a, b)
        /\ joined' = joined
      BY <1>7 DEF SwapPlayers, SwapSeats, SwapNumbers
  <2>2. Follow(temp', joinOrder', joined)
      BY <1>0, <2>1, FollowSwap
  <2> QED BY <2>1, <2>2
<1>8. CASE Stop
    BY <1>0, <1>8 DEF Stop
<1>9. CASE UNCHANGED session
    BY <1>0, <1>9 DEF session
<1> QED
    BY <1>1, <1>2, <1>3, <1>4, <1>5, <1>6, <1>7, <1>8, <1>9
    DEF SessionMoves, SessionNext, Edit, JoinKeyboard

LEMMA SessionInductive == SessionSpec => []SessionInv
<1>1. SessionNext => SessionMoves
    BY DEF SessionMoves
<1>2. SessionInv /\ [SessionNext]_session => SessionInv'
    BY <1>1, TypeStep, JoinersStep, OrderStep DEF SessionInv, SessionOrder
<1> QED BY SessionInitInv, <1>2, PTL DEF SessionSpec

\* The dialog's state is well typed, Undo's slots included.
THEOREM SessionTypeCorrect == SessionSpec => []SessionTypeOK
    BY SessionInductive, PTL DEF SessionInv, SessionOrder

\* A player who joined in the dialog shares neither pad nor keyboard with anybody, whatever
\* seats it opened on and however it goes on.
THEOREM JoinersStaySound == SessionSpec => []JoinersSound
    BY SessionInductive, PTL DEF SessionInv

\* Undo follows the player through swaps and removals, for any number of ports.
THEOREM UndoFollowsPlayer == SessionSpec => []JoinOrderFollows
    BY SessionInductive, PTL DEF SessionInv, SessionOrder

HIDE SessionAssumption
HIDE DEF Ports, Handles, NoHandle, Players, NoPlayer

(* The policy of controller_assignment.hpp, for any scan of distinct pads. *)

Scanned(S, dev) ==
    /\ S \subseteq Handles /\ S \subseteq DOMAIN dev
    /\ dev \in Seq(Pads)
    /\ \A g, h \in S : dev[g] = dev[h] => g = h

\* No pad is in two slots.
OnePad(slots) ==
    \A p, q \in Ports : p # q /\ slots[p].ctl # NoPad => slots[p].ctl # slots[q].ctl

LEMMA PortsFinite ==
    /\ Ports \in SUBSET Nat
    /\ IsFiniteSet(Ports)
    /\ \A T \in SUBSET Ports : IsFiniteSet(T) /\ T \in SUBSET Nat
<1>1. 0 \in Int /\ NumPorts - 1 \in Int
  BY SessionAssumption
<1>2. IsFiniteSet(Ports)
  BY <1>1, FS_Interval DEF Ports
<1>3. Ports \in SUBSET Nat
  BY DEF Ports
<1> QED BY <1>2, <1>3, FS_Subset

LEMMA HandlesFinite ==
    ASSUME NEW S, S \subseteq Handles
    PROVE  /\ S \in SUBSET Nat /\ IsFiniteSet(S)
           /\ Cardinality(S) \in Nat
           /\ NoHandle \notin S
<1>1. 1 \in Int /\ MaxPlugs \in Int
  BY SessionAssumption
<1>2. IsFiniteSet(Handles)
  BY <1>1, FS_Interval DEF Handles
<1>3. S \in SUBSET Nat /\ NoHandle \notin S
  BY DEF Handles, NoHandle
<1> QED BY <1>2, <1>3, FS_Subset, FS_CardinalityType

\* The n-th element has n below it, and each element is the n-th for its rank.
LEMMA NthIs ==
    ASSUME NEW S \in SUBSET Nat, IsFiniteSet(S), NEW n \in Nat, n < Cardinality(S)
    PROVE  Nth(S, n) \in S /\ Rank(S, Nth(S, n)) = n
<1>1. \E x \in S : Rank(S, x) = n
  BY RanksAreDense DEF Rank
<1> QED BY <1>1 DEF Nth

LEMMA RankIs ==
    ASSUME NEW S \in SUBSET Nat, IsFiniteSet(S), NEW x \in S
    PROVE  /\ Rank(S, x) \in Nat /\ Rank(S, x) < Cardinality(S)
           /\ Nth(S, Rank(S, x)) = x
<1> DEFINE Lower == {y \in S : y < x}
<1>1. Lower \in SUBSET S /\ Lower # S
  OBVIOUS
<1>2. /\ IsFiniteSet(Lower) /\ Cardinality(Lower) <= Cardinality(S)
      /\ Cardinality(S) = Cardinality(Lower) => S = Lower
  BY <1>1, FS_Subset
<1>3. Cardinality(Lower) \in Nat /\ Cardinality(S) \in Nat
  BY <1>2, FS_CardinalityType
<1>4. Rank(S, x) \in Nat /\ Rank(S, x) < Cardinality(S)
  BY <1>1, <1>2, <1>3 DEF Rank
<1>5. Nth(S, Rank(S, x)) \in S /\ Rank(S, Nth(S, Rank(S, x))) = Rank(S, x)
  BY <1>4, NthIs
<1> DEFINE z == Nth(S, Rank(S, x))
<1>6. z \in S /\ Cardinality({y \in S : y < z}) = Cardinality({y \in S : y < x})
  BY <1>5 DEF Rank
<1> HIDE DEF z
<1>7. z = x
  BY <1>6, RanksDiffer
<1> QED BY <1>4, <1>7 DEF z

LEMMA FirstIsLeast ==
    ASSUME NEW S \in SUBSET Nat, IsFiniteSet(S), S # {}
    PROVE  Nth(S, 0) \in S /\ \A y \in S : Nth(S, 0) <= y
<1>1. Cardinality(S) \in Nat /\ Cardinality(S) # 0
  BY FS_CardinalityType, FS_EmptySet
<1>2. Nth(S, 0) \in S /\ Rank(S, Nth(S, 0)) = 0
  BY <1>1, NthIs
<1> DEFINE Lower == {y \in S : y < Nth(S, 0)}
<1>3. IsFiniteSet(Lower) /\ Cardinality(Lower) = 0
  BY <1>2, FS_Subset DEF Rank
<1>4. Lower = {}
  <2> HIDE DEF Lower
  <2> QED BY <1>3, FS_EmptySet
<1>5. \A y \in S : y \in Nat
  OBVIOUS
<1>6. ASSUME NEW y \in S PROVE Nth(S, 0) <= y
  <2>1. y < Nth(S, 0) => y \in Lower
    OBVIOUS
  <2>2. ~(y < Nth(S, 0))
    BY <1>4, <2>1
  <2>3. y \in Nat /\ Nth(S, 0) \in Nat
    BY <1>2, <1>5
  <2> DEFINE z == Nth(S, 0)
  <2> HIDE DEF z
  <2> QED BY <2>2, <2>3 DEF z
<1> QED BY <1>2, <1>6

LEMMA AutomaticIs ==
    ASSUME NEW S, NEW dev, Scanned(S, dev), NEW separate \in BOOLEAN
    PROVE  /\ Automatic(S, dev, separate) \in [Ports -> Slots]
           /\ OnePad(Automatic(S, dev, separate))
           /\ \A p \in Ports : Automatic(S, dev, separate)[p].ctl # NoPad =>
                    Present(S, dev, Automatic(S, dev, separate)[p].ctl)
<1> DEFINE at == Automatic(S, dev, separate)
           C == Cardinality(S)
<1>1. S \in SUBSET Nat /\ IsFiniteSet(S) /\ C \in Nat
  BY HandlesFinite DEF Scanned
<1>2. ASSUME NEW p \in Ports, p < C
      PROVE  Nth(S, p) \in S /\ Rank(S, Nth(S, p)) = p /\ dev[Nth(S, p)] \in Pads
  <2>1. p \in Nat
    BY DEF Ports
  <2>2. Nth(S, p) \in S /\ Rank(S, Nth(S, p)) = p
    BY <1>1, <1>2, <2>1, NthIs
  <2> QED BY <2>2 DEF Scanned
<1>3. \A p \in Ports : at[p].ctl = IF p < C THEN dev[Nth(S, p)] ELSE NoPad
  BY DEF Automatic
<1>4. at \in [Ports -> Slots]
  BY <1>2 DEF Automatic, Slots
<1>5. OnePad(at)
  <2> SUFFICES ASSUME NEW p \in Ports, NEW q \in Ports, p # q,
                      at[p].ctl # NoPad, at[p].ctl = at[q].ctl
               PROVE  FALSE
    BY DEF OnePad
  <2>1. p < C /\ q < C
    BY <1>3
  <2>2. dev[Nth(S, p)] = dev[Nth(S, q)]
    BY <1>3, <2>1
  <2>3. Nth(S, p) = Nth(S, q)
    BY <1>2, <2>1, <2>2 DEF Scanned
  <2> QED BY <1>2, <2>1, <2>3
<1>6. \A p \in Ports : at[p].ctl # NoPad => Present(S, dev, at[p].ctl)
  BY <1>2, <1>3 DEF Present
<1> QED BY <1>4, <1>5, <1>6

(* Claims. *)

Free(claim, leg, S, dev, p) ==
    {h \in S : dev[h] \in leg[p] /\ \A q \in 0 .. p - 1 : claim[q] # h}

\* Port by port, the least handle that matches and is left.
Greedy(claim, leg, S, dev) ==
    /\ claim \in [Ports -> S \union {NoHandle}]
    /\ \A p \in Ports :
          IF Free(claim, leg, S, dev, p) = {} THEN claim[p] = NoHandle
          ELSE /\ claim[p] \in Free(claim, leg, S, dev, p)
               /\ \A h \in Free(claim, leg, S, dev, p) : claim[p] <= h

Matching(leg, S, dev, p, taken) == {h \in S : dev[h] \in leg[p] /\ h \notin taken}
ClaimOf(leg, S, dev, p, taken) ==
    IF Matching(leg, S, dev, p, taken) = {} THEN NoHandle
    ELSE Nth(Matching(leg, S, dev, p, taken), 0)

LEMMA ClaimsAreGreedy ==
    ASSUME NEW S, NEW dev, S \subseteq Handles, NEW leg
    PROVE  Greedy(LegacyClaims(leg, S, dev), leg, S, dev)
<1> DEFINE X == S \union {NoHandle}
           claims == LegacyClaims(leg, S, dev)
           pick == [x \in (0 .. NumPorts - 1) \X SUBSET X |-> ClaimOf(leg, S, dev, x[1], x[2])]
           Step(f, p) == LET free == {h \in S : dev[h] \in leg[p] /\
                                                \A q \in 0 .. p - 1 : f[q] # h}
                         IN IF free = {} THEN NoHandle ELSE Nth(free, 0)
           Solves(f) == f = [p \in Ports |-> Step(f, p)]
<1>0. S \in SUBSET Nat /\ IsFiniteSet(S)
  BY HandlesFinite
<1>1. pick \in Picks(NumPorts, X)
  <2>1. ASSUME NEW p, NEW taken PROVE ClaimOf(leg, S, dev, p, taken) \in X
    <3>1. /\ Matching(leg, S, dev, p, taken) \subseteq S
          /\ Matching(leg, S, dev, p, taken) \in SUBSET Nat
      BY <1>0 DEF Matching
    <3>2. IsFiniteSet(Matching(leg, S, dev, p, taken))
      BY <1>0, <3>1, FS_Subset
    <3> QED BY <3>1, <3>2, FirstIsLeast DEF ClaimOf
  <2> QED BY <2>1 DEF Picks
<1>2. PICK f : Obeys(f, NumPorts, X, pick)
  <2> HIDE DEF pick, X
  <2>1. NumPorts \in Nat
    BY SessionAssumption
  <2> QED BY <1>1, <2>1, ClaimsExist
<1>3. ASSUME NEW g, NEW p \in Ports
      PROVE  ClaimOf(leg, S, dev, p, Below(g, p)) = Step(g, p)
  <2>1. Matching(leg, S, dev, p, Below(g, p)) =
           {h \in S : dev[h] \in leg[p] /\ \A q \in 0 .. p - 1 : g[q] # h}
    BY DEF Matching, Below
  <2> QED BY <2>1 DEF ClaimOf
<1>4. Solves(f)
  <2>1. ASSUME NEW p \in Ports PROVE f[p] = ClaimOf(leg, S, dev, p, Below(f, p))
    <3>1. p \in 0 .. NumPorts - 1 /\ f \in [0 .. NumPorts - 1 -> X]
      BY <1>2 DEF Ports, Obeys
    <3>2. \A q \in 0 .. p - 1 : f[q] \in X
      <4> HIDE DEF X
      <4> QED BY <3>1, SessionAssumption
    <3>3. Below(f, p) \in SUBSET X
      <4> HIDE DEF X
      <4> QED BY <3>2 DEF Below
    <3> HIDE DEF X
    <3> QED BY <1>2, <3>1, <3>3 DEF Obeys
  <2>2. f \in [Ports -> X]
    BY <1>2 DEF Ports, Obeys
  <2>3. \A p \in Ports : f[p] = Step(f, p)
    <3> HIDE DEF Step
    <3> QED BY <1>3, <2>1
  <2> HIDE DEF Step
  <2>4. f = [p \in Ports |-> Step(f, p)]
    BY <2>2, <2>3
  <2> QED BY <2>4
<1>5. claims = CHOOSE g : Solves(g)
  BY DEF LegacyClaims
<1>6. Solves(claims)
  <2> HIDE DEF Solves, claims
  <2> QED BY <1>4, <1>5
<1>7. ASSUME NEW p \in Ports
      PROVE  claims[p] = IF Free(claims, leg, S, dev, p) = {} THEN NoHandle
                         ELSE Nth(Free(claims, leg, S, dev, p), 0)
  <2>1. claims[p] = Step(claims, p)
    <3> HIDE DEF Step, claims
    <3> QED BY <1>6
  <2> HIDE DEF claims
  <2> QED BY <2>1 DEF Free
<1>8. ASSUME NEW p \in Ports, Free(claims, leg, S, dev, p) # {}
      PROVE  /\ claims[p] \in Free(claims, leg, S, dev, p)
             /\ \A h \in Free(claims, leg, S, dev, p) : claims[p] <= h
  <2>1. /\ Free(claims, leg, S, dev, p) \subseteq S
        /\ Free(claims, leg, S, dev, p) \in SUBSET Nat
    BY <1>0 DEF Free
  <2>2. IsFiniteSet(Free(claims, leg, S, dev, p))
    BY <1>0, <2>1, FS_Subset
  <2> QED BY <1>7, <1>8, <2>1, <2>2, FirstIsLeast
<1>9. claims \in [Ports -> X]
  <2>1. \A p \in Ports : claims[p] \in X
    BY <1>7, <1>8 DEF Free
  <2>2. claims = [p \in Ports |-> Step(claims, p)]
    BY <1>6
  <2> HIDE DEF claims, Step
  <2> QED BY <2>1, <2>2
<1> HIDE DEF claims
<1> QED BY <1>7, <1>8, <1>9 DEF Greedy, claims

\* A claim is a handle of a matching pad, and no two ports claim one.
LEMMA ClaimsApart ==
    ASSUME NEW S, NEW dev, S \subseteq Handles, NEW leg, NEW claim, Greedy(claim, leg, S, dev)
    PROVE  /\ claim \in [Ports -> S \union {NoHandle}]
           /\ \A p \in Ports : claim[p] # NoHandle =>
                    claim[p] \in S /\ dev[claim[p]] \in leg[p]
           /\ \A p, q \in Ports : p # q /\ claim[p] # NoHandle => claim[p] # claim[q]
<1>1. claim \in [Ports -> S \union {NoHandle}]
  BY DEF Greedy
<1>2. ASSUME NEW p \in Ports, claim[p] # NoHandle
      PROVE  claim[p] \in Free(claim, leg, S, dev, p)
  BY <1>2 DEF Greedy
<1>3. ASSUME NEW p \in Ports, NEW q \in Ports, q < p, claim[p] # NoHandle
      PROVE  claim[p] # claim[q]
  <2>1. q \in 0 .. p - 1
    BY <1>3 DEF Ports
  <2> QED BY <1>2, <1>3, <2>1 DEF Free
<1>4. \A p, q \in Ports : p # q => p < q \/ q < p
  BY DEF Ports
<1>5. \A p, q \in Ports : p # q /\ claim[p] # NoHandle => claim[p] # claim[q]
  BY <1>3, <1>4
<1> QED BY <1>1, <1>2, <1>5 DEF Free

PadOf(dev, h) == IF h = NoHandle THEN NoPad ELSE dev[h]

LEMMA PresentIsPad ==
    ASSUME NEW S, NEW dev, Scanned(S, dev), NEW pad, Present(S, dev, pad)
    PROVE  pad \in Pads /\ pad # NoPad
  BY PolicyAssumption DEF Scanned, Present

LEMMA SlotWith ==
    ASSUME NEW slot \in Slots, NEW pad \in Pads \union {NoPad}, NEW s2, s2 = [slot EXCEPT !.ctl = pad]
    PROVE  /\ s2 \in Slots /\ s2.ctl = pad
           /\ s2.kb = slot.kb /\ s2.reserved = slot.reserved /\ s2.share = slot.share
  BY DEF Slots

\* resolve_legacy: a port with legacy pads gets the pad of its claim, any other port loses
\* its pad only to a claim, and nothing else of a slot changes.
LEMMA ResolveIs ==
    ASSUME NEW S, NEW dev, Scanned(S, dev),
           NEW pref \in [Ports -> Slots], NEW leg \in [Ports -> SUBSET Pads],
           NEW claim, claim = LegacyClaims(leg, S, dev),
           NEW res, res = ResolveLegacy(pref, leg, S, dev)
    PROVE  /\ res \in [Ports -> Slots]
           /\ \A p \in Ports : /\ res[p].kb = pref[p].kb
                               /\ res[p].reserved = pref[p].reserved
                               /\ res[p].share = pref[p].share
           /\ \A p \in Ports : leg[p] # {} => res[p].ctl = PadOf(dev, claim[p])
           /\ \A p \in Ports : leg[p] = {} =>
                 \/ res[p].ctl = pref[p].ctl
                 \/ /\ res[p].ctl = NoPad
                    /\ \E q \in Ports : claim[q] # NoHandle /\ dev[claim[q]] = pref[p].ctl
           /\ \A p, q \in Ports : leg[p] = {} /\ claim[q] # NoHandle =>
                    res[p].ctl # dev[claim[q]]
<1>1. /\ claim \in [Ports -> S \union {NoHandle}]
      /\ \A p \in Ports : claim[p] # NoHandle => claim[p] \in S /\ dev[claim[p]] \in leg[p]
  <2>1. Greedy(claim, leg, S, dev)
    BY ClaimsAreGreedy DEF Scanned
  <2> QED BY <2>1, ClaimsApart DEF Scanned
<1>2. \A p \in Ports : claim[p] # NoHandle => dev[claim[p]] \in Pads
  BY <1>1 DEF Scanned
<1> DEFINE claimed == {dev[claim[p]] : p \in {q \in Ports : claim[q] # NoHandle}}
<1>3. res = [p \in Ports |->
          IF leg[p] # {}
          THEN [pref[p] EXCEPT !.ctl = IF claim[p] = NoHandle THEN NoPad ELSE dev[claim[p]]]
          ELSE [pref[p] EXCEPT !.ctl = IF @ \in claimed THEN NoPad ELSE @]]
  BY DEF ResolveLegacy
<1>4. \A c : c \in claimed <=> \E q \in Ports : claim[q] # NoHandle /\ dev[claim[q]] = c
  OBVIOUS
<1> HIDE DEF claimed
<1>5. ASSUME NEW p \in Ports, leg[p] # {}
      PROVE  res[p] = [pref[p] EXCEPT !.ctl = PadOf(dev, claim[p])]
  BY <1>3, <1>5 DEF PadOf
<1>6. ASSUME NEW p \in Ports, leg[p] = {}
      PROVE  res[p] = [pref[p] EXCEPT !.ctl = IF pref[p].ctl \in claimed THEN NoPad ELSE pref[p].ctl]
  BY <1>3, <1>6
<1>7. ASSUME NEW p \in Ports
      PROVE  /\ res[p] \in Slots
             /\ res[p].kb = pref[p].kb
             /\ res[p].reserved = pref[p].reserved
             /\ res[p].share = pref[p].share
  <2>1. PICK c \in Pads \union {NoPad} : res[p] = [pref[p] EXCEPT !.ctl = c]
    <3>1. CASE leg[p] # {}
      BY <1>2, <1>5, <3>1 DEF PadOf
    <3>2. CASE leg[p] = {}
      <4>1. (IF pref[p].ctl \in claimed THEN NoPad ELSE pref[p].ctl) \in Pads \union {NoPad}
        BY DEF Slots
      <4> QED BY <1>6, <3>2, <4>1
    <3> QED BY <3>1, <3>2
  <2> QED BY <2>1, SlotWith
<1>8. res \in [Ports -> Slots]
  <2>1. DOMAIN res = Ports /\ res = [p \in Ports |-> res[p]]
    BY <1>3
  <2> QED BY <1>7, <2>1
<1>9. ASSUME NEW p \in Ports, leg[p] # {} PROVE res[p].ctl = PadOf(dev, claim[p])
  BY <1>5, <1>9 DEF Slots
<1>10. ASSUME NEW p \in Ports, leg[p] = {}
       PROVE  res[p].ctl = IF pref[p].ctl \in claimed THEN NoPad ELSE pref[p].ctl
  BY <1>6, <1>10 DEF Slots
<1>11. ASSUME NEW p \in Ports, NEW q \in Ports, leg[p] = {}, claim[q] # NoHandle
       PROVE  res[p].ctl # dev[claim[q]]
  BY <1>2, <1>4, <1>10, <1>11, PolicyAssumption
<1>12. ASSUME NEW p \in Ports, leg[p] = {}
       PROVE  \/ res[p].ctl = pref[p].ctl
              \/ /\ res[p].ctl = NoPad
                 /\ \E q \in Ports : claim[q] # NoHandle /\ dev[claim[q]] = pref[p].ctl
  BY <1>4, <1>10, <1>12
<1> QED BY <1>7, <1>8, <1>9, <1>11, <1>12

LEMMA ResolveApart ==
    ASSUME NEW S, NEW dev, Scanned(S, dev), NEW pref \in [Ports -> Slots],
           NEW leg \in [Ports -> SUBSET Pads], OnePad(pref)
    PROVE  OnePad(ResolveLegacy(pref, leg, S, dev))
<1> DEFINE claim == LegacyClaims(leg, S, dev)
           res == ResolveLegacy(pref, leg, S, dev)
<1>1. Greedy(claim, leg, S, dev)
  BY ClaimsAreGreedy DEF Scanned
<1>2. /\ \A p \in Ports : claim[p] # NoHandle => claim[p] \in S /\ dev[claim[p]] \in leg[p]
      /\ \A p, q \in Ports : p # q /\ claim[p] # NoHandle => claim[p] # claim[q]
  <2> HIDE DEF claim
  <2> QED BY <1>1, ClaimsApart DEF Scanned
<1>3. /\ \A p \in Ports : leg[p] # {} => res[p].ctl = PadOf(dev, claim[p])
      /\ \A p \in Ports : leg[p] = {} => res[p].ctl = pref[p].ctl \/ res[p].ctl = NoPad
      /\ \A p, q \in Ports : leg[p] = {} /\ claim[q] # NoHandle => res[p].ctl # dev[claim[q]]
  <2> HIDE DEF claim, res
  <2>1. claim = LegacyClaims(leg, S, dev) /\ res = ResolveLegacy(pref, leg, S, dev)
    BY DEF claim, res
  <2> QED BY <2>1, ResolveIs
<1> SUFFICES ASSUME NEW p \in Ports, NEW q \in Ports, p # q, res[p].ctl # NoPad
             PROVE  res[p].ctl # res[q].ctl
  BY DEF OnePad
<1> HIDE DEF claim, res
<1>4. CASE leg[p] # {} /\ leg[q] # {}
  <2>1. claim[p] # NoHandle /\ res[p].ctl = dev[claim[p]]
    BY <1>3, <1>4 DEF PadOf
  <2>2. CASE claim[q] = NoHandle
    BY <1>3, <1>4, <2>2 DEF PadOf
  <2>3. CASE claim[q] # NoHandle
    <3>1. claim[p] # claim[q] /\ claim[p] \in S /\ claim[q] \in S
      BY <1>2, <2>1, <2>3
    <3>2. dev[claim[p]] # dev[claim[q]]
      BY <3>1 DEF Scanned
    <3> QED BY <1>3, <1>4, <2>1, <2>3, <3>2 DEF PadOf
  <2> QED BY <2>2, <2>3
<1>5. CASE leg[p] # {} /\ leg[q] = {}
  BY <1>3, <1>5 DEF PadOf
<1>6. CASE leg[p] = {} /\ leg[q] # {}
  BY <1>3, <1>6 DEF PadOf
<1>7. CASE leg[p] = {} /\ leg[q] = {}
  BY <1>3, <1>7 DEF OnePad
<1> QED BY <1>4, <1>5, <1>6, <1>7

\* Where nothing is imported, nothing is resolved.
LEMMA ResolveNothing ==
    ASSUME NEW S, NEW dev, Scanned(S, dev), NEW pref \in [Ports -> Slots], NEW p \in Ports
    PROVE  ResolveLegacy(pref, NoLegacy, S, dev)[p].ctl = pref[p].ctl
<1> DEFINE claim == LegacyClaims(NoLegacy, S, dev)
           res == ResolveLegacy(pref, NoLegacy, S, dev)
<1>0. NoLegacy \in [Ports -> SUBSET Pads] /\ \A q \in Ports : NoLegacy[q] = {}
  BY DEF NoLegacy
<1>1. \A q \in Ports : claim[q] = NoHandle
  <2>1. Greedy(claim, NoLegacy, S, dev)
    BY ClaimsAreGreedy DEF Scanned
  <2>2. \A q \in Ports : claim[q] # NoHandle => dev[claim[q]] \in NoLegacy[q]
    <3> HIDE DEF claim
    <3> QED BY <2>1, ClaimsApart DEF Scanned
  <2> QED BY <1>0, <2>2
<1>2. \/ res[p].ctl = pref[p].ctl
      \/ \E q \in Ports : claim[q] # NoHandle
  <2> HIDE DEF claim, res
  <2>1. claim = LegacyClaims(NoLegacy, S, dev) /\ res = ResolveLegacy(pref, NoLegacy, S, dev)
    BY DEF claim, res
  <2> QED BY <1>0, <2>1, ResolveIs
<1> QED BY <1>1, <1>2

LEMMA KeptIs ==
    ASSUME NEW S, NEW dev, Scanned(S, dev), NEW pref \in [Ports -> Slots], NEW p \in Ports
    PROVE  /\ Present(S, dev, pref[p].ctl) => Kept(pref, S, dev)[p] = pref[p].ctl
           /\ ~Present(S, dev, pref[p].ctl) => Kept(pref, S, dev)[p] = NoPad
           /\ Kept(pref, S, dev)[p] # NoPad <=> Present(S, dev, pref[p].ctl)
  BY PresentIsPad DEF Kept

\* A port keeps its pad, or is open and gets one of the pads without a port, or has none.
LEMMA FillIs ==
    ASSUME NEW S, NEW dev, Scanned(S, dev), NEW pref \in [Ports -> Slots], NEW p \in Ports,
           NEW open, open = Open(pref, S, dev), NEW left, left = Unplaced(pref, S, dev)
    PROVE  /\ open \in SUBSET Nat /\ IsFiniteSet(open) /\ open \subseteq Ports
           /\ left \in SUBSET Nat /\ IsFiniteSet(left) /\ left \subseteq S
           /\ p \in open /\ Rank(open, p) < Cardinality(left) =>
                 /\ Rank(open, p) \in Nat
                 /\ Nth(left, Rank(open, p)) \in left
                 /\ Rank(left, Nth(left, Rank(open, p))) = Rank(open, p)
                 /\ Placed(pref, S, dev)[p] = dev[Nth(left, Rank(open, p))]
           /\ ~(p \in open /\ Rank(open, p) < Cardinality(left)) =>
                 Placed(pref, S, dev)[p] = Kept(pref, S, dev)[p]
<1>1. open \subseteq Ports /\ left \subseteq S
  BY DEF Open, Unplaced
<1>2. open \in SUBSET Nat /\ IsFiniteSet(open)
  BY <1>1, PortsFinite
<1>3. left \in SUBSET Nat /\ IsFiniteSet(left)
  <2>1. left \subseteq Handles
    BY <1>1 DEF Scanned
  <2> QED BY <2>1, HandlesFinite
<1>4. ASSUME p \in open, Rank(open, p) < Cardinality(left)
      PROVE  /\ Rank(open, p) \in Nat
             /\ Nth(left, Rank(open, p)) \in left
             /\ Rank(left, Nth(left, Rank(open, p))) = Rank(open, p)
  <2>1. Rank(open, p) \in Nat
    BY <1>2, <1>4, RankIs
  <2> QED BY <1>3, <1>4, <2>1, NthIs
<1>5. Placed(pref, S, dev)[p] = IF p \in open /\ Rank(open, p) < Cardinality(left)
                               THEN dev[Nth(left, Rank(open, p))]
                               ELSE Kept(pref, S, dev)[p]
  BY DEF Placed
<1> QED BY <1>1, <1>2, <1>3, <1>4, <1>5

LEMMA PlacedIs ==
    ASSUME NEW S, NEW dev, Scanned(S, dev), NEW pref \in [Ports -> Slots], OnePad(pref),
           NEW pl, pl = Placed(pref, S, dev)
    PROVE  /\ \A p \in Ports : pl[p] \in Pads \union {NoPad}
           /\ \A p \in Ports : pl[p] # NoPad => Present(S, dev, pl[p])
           /\ \A p \in Ports : Present(S, dev, pref[p].ctl) => pl[p] = pref[p].ctl
           /\ \A p \in Ports : pref[p].reserved /\ ~Present(S, dev, pref[p].ctl) => pl[p] = NoPad
           /\ \A p, q \in Ports : p # q /\ pl[p] # NoPad => pl[p] # pl[q]
           /\ \A h \in S : \/ \E p \in Ports : pl[p] = dev[h]
                           \/ \A p \in Ports : \/ pref[p].reserved \/ pl[p] # NoPad
                                               \/ (pref[p].kb /\ ~pref[p].share)
<1> DEFINE open == Open(pref, S, dev)
           left == Unplaced(pref, S, dev)
           kept == Kept(pref, S, dev)
           filled(p) == p \in open /\ Rank(open, p) < Cardinality(left)
<1>1. /\ open \in SUBSET Nat /\ IsFiniteSet(open) /\ open \subseteq Ports
      /\ left \in SUBSET Nat /\ IsFiniteSet(left) /\ left \subseteq S
  <2>1. 0 \in Ports
    BY SessionAssumption DEF Ports
  <2> HIDE DEF open, left
  <2>2. open = Open(pref, S, dev) /\ left = Unplaced(pref, S, dev)
    BY DEF open, left
  <2> QED BY <2>1, <2>2, FillIs
<1>2. ASSUME NEW p \in Ports
      PROVE  /\ filled(p) => /\ Rank(open, p) \in Nat
                             /\ Nth(left, Rank(open, p)) \in left
                             /\ Rank(left, Nth(left, Rank(open, p))) = Rank(open, p)
                             /\ pl[p] = dev[Nth(left, Rank(open, p))]
             /\ ~filled(p) => pl[p] = kept[p]
  <2> HIDE DEF open, left, kept
  <2>2. open = Open(pref, S, dev) /\ left = Unplaced(pref, S, dev) /\ kept = Kept(pref, S, dev)
    BY DEF open, left, kept
  <2> QED BY <2>2, FillIs
<1>3. ASSUME NEW p \in Ports
      PROVE  /\ Present(S, dev, pref[p].ctl) => kept[p] = pref[p].ctl
             /\ ~Present(S, dev, pref[p].ctl) => kept[p] = NoPad
             /\ kept[p] # NoPad <=> Present(S, dev, pref[p].ctl)
  BY KeptIs
<1>4. \A p \in open : ~pref[p].reserved /\ kept[p] = NoPad
  BY DEF Open
<1>5. \A p \in Ports \ open : pref[p].reserved \/ kept[p] # NoPad \/ (pref[p].kb /\ ~pref[p].share)
  BY DEF Open, Slots
<1>6. \A h \in left : h \in S /\ dev[h] \in Pads /\ \A p \in Ports : kept[p] # dev[h]
  BY DEF Unplaced, Scanned
<1>7. \A h \in S : h \notin left => \E p \in Ports : kept[p] = dev[h]
  BY DEF Unplaced
<1> HIDE DEF open, left, kept
<1>8. ASSUME NEW p \in Ports
      PROVE  /\ pl[p] # NoPad => Present(S, dev, pl[p])
             /\ Present(S, dev, pref[p].ctl) => pl[p] = pref[p].ctl
             /\ pref[p].reserved /\ ~Present(S, dev, pref[p].ctl) => pl[p] = NoPad
  <2>1. CASE filled(p)
    <3>1. Present(S, dev, pl[p])
      BY <1>1, <1>2, <2>1 DEF Present
    <3> QED BY <1>3, <1>4, <2>1, <3>1
  <2>2. CASE ~filled(p)
    <3>1. pl[p] = kept[p]
      BY <1>2, <2>2
    <3> QED BY <1>3, <3>1
  <2> QED BY <2>1, <2>2
<1>9. ASSUME NEW p \in Ports PROVE pl[p] \in Pads \union {NoPad}
  BY <1>8, PresentIsPad
<1>10. ASSUME NEW p \in Ports, NEW q \in Ports, p # q, pl[p] # NoPad PROVE pl[p] # pl[q]
  <2>1. CASE filled(p) /\ filled(q)
    <3> DEFINE g == Nth(left, Rank(open, p))
               h == Nth(left, Rank(open, q))
    <3>1. Rank(open, p) # Rank(open, q)
      BY <1>1, <1>10, <2>1, RanksDiffer DEF Rank
    <3>2. g \in left /\ h \in left /\ Rank(left, g) # Rank(left, h)
      BY <1>2, <2>1, <3>1
    <3>3. g # h
      BY <3>2
    <3>4. pl[p] = dev[g] /\ pl[q] = dev[h]
      BY <1>2, <2>1
    <3> HIDE DEF g, h
    <3> QED BY <1>1, <3>2, <3>3, <3>4 DEF Scanned
  <2>2. CASE filled(p) /\ ~filled(q)
    BY <1>2, <1>6, <2>2
  <2>3. CASE ~filled(p) /\ filled(q)
    BY <1>2, <1>6, <2>3
  <2>4. CASE ~filled(p) /\ ~filled(q)
    <3>1. pl[p] = kept[p] /\ pl[q] = kept[q]
      BY <1>2, <2>4
    <3>2. kept[p] = pref[p].ctl /\ pref[p].ctl # NoPad
      BY <1>3, <1>10, <3>1
    <3>3. kept[q] = pref[q].ctl \/ kept[q] = NoPad
      BY <1>3
    <3> QED BY <1>10, <3>1, <3>2, <3>3 DEF OnePad
  <2> QED BY <2>1, <2>2, <2>3, <2>4
<1>11. ASSUME NEW h \in S, \A p \in Ports : pl[p] # dev[h], NEW p \in Ports
       PROVE  pref[p].reserved \/ pl[p] # NoPad \/ (pref[p].kb /\ ~pref[p].share)
  <2>1. h \in left
    <3>1. ASSUME NEW q \in Ports, kept[q] = dev[h] PROVE FALSE
      <4>1. kept[q] # NoPad
        BY <3>1, PolicyAssumption DEF Scanned
      <4>2. ~filled(q)
        BY <1>4, <4>1
      <4> QED BY <1>2, <1>11, <3>1, <4>2
    <3> QED BY <1>7, <3>1
  <2>2. Rank(left, h) \in Nat /\ Rank(left, h) < Cardinality(left) /\ Nth(left, Rank(left, h)) = h
    BY <1>1, <2>1, RankIs
  <2>3. Cardinality(open) \in Nat /\ Cardinality(left) \in Nat
    BY <1>1, FS_CardinalityType
  <2>4. ~(Rank(left, h) < Cardinality(open))
    <3> SUFFICES ASSUME Rank(left, h) < Cardinality(open) PROVE FALSE
      OBVIOUS
    <3> DEFINE q == Nth(open, Rank(left, h))
    <3>1. q \in open /\ Rank(open, q) = Rank(left, h)
      BY <1>1, <2>2, NthIs
    <3>2. q \in Ports /\ filled(q)
      BY <1>1, <2>2, <3>1
    <3>3. pl[q] = dev[h]
      BY <1>2, <2>2, <3>1, <3>2
    <3> QED BY <1>11, <3>2, <3>3
  <2>5. CASE p \in open
    <3>1. Rank(open, p) \in Nat /\ Rank(open, p) < Cardinality(open)
      BY <1>1, <2>5, RankIs
    <3>2. filled(p)
      BY <2>2, <2>3, <2>4, <2>5, <3>1
    <3>3. pl[p] \in Pads
      BY <1>2, <1>6, <3>2
    <3> QED BY <3>3, PolicyAssumption
  <2>6. CASE p \notin open
    <3>1. pl[p] = kept[p]
      BY <1>2, <2>6
    <3> QED BY <1>5, <2>6, <3>1
  <2> QED BY <2>5, <2>6
<1> QED BY <1>8, <1>9, <1>10, <1>11

\* What a port has of the pad it is for: that pad when it is there, or none.
Fits(S, dev, pad, slot) == pad = IF Present(S, dev, slot.ctl) THEN slot.ctl ELSE NoPad

\* No pad of S is without a port while a port may take it.
Filled(S, dev, slots, pads) ==
    \A h \in S : \/ \E p \in Ports : pads[p] = dev[h]
                 \/ \A p \in Ports : \/ slots[p].reserved \/ pads[p] # NoPad
                                     \/ (slots[p].kb /\ ~slots[p].share)

LEMMA RememberedIs ==
    ASSUME NEW S, NEW dev, Scanned(S, dev), NEW pref \in [Ports -> Slots], OnePad(pref),
           NEW pl, pl = Placed(pref, S, dev), NEW rem, rem = Remembered(pref, S, dev)
    PROVE  /\ rem \in [Ports -> Slots]
           /\ \A p \in Ports : /\ rem[p].kb = pref[p].kb
                               /\ rem[p].reserved = pref[p].reserved
                               /\ rem[p].share = pref[p].share
           /\ OnePad(rem)
           /\ \A p \in Ports : Fits(S, dev, pl[p], rem[p])
           /\ \A p \in Ports : pref[p].reserved => rem[p].ctl = pref[p].ctl
           /\ Filled(S, dev, rem, pl)
<1>1. /\ \A p \in Ports : pl[p] \in Pads \union {NoPad}
      /\ \A p \in Ports : pl[p] # NoPad => Present(S, dev, pl[p])
      /\ \A p \in Ports : Present(S, dev, pref[p].ctl) => pl[p] = pref[p].ctl
      /\ \A p \in Ports : pref[p].reserved /\ ~Present(S, dev, pref[p].ctl) => pl[p] = NoPad
      /\ \A p, q \in Ports : p # q /\ pl[p] # NoPad => pl[p] # pl[q]
      /\ Filled(S, dev, pref, pl)
  BY PlacedIs DEF Filled
<1> DEFINE c(p) == IF pref[p].reserved /\ pl[p] = NoPad THEN pref[p].ctl ELSE pl[p]
<1>2. rem = [p \in Ports |-> [pref[p] EXCEPT !.ctl = c(p)]]
  BY DEF Remembered
<1>3. \A p \in Ports : c(p) \in Pads \union {NoPad}
  BY <1>1 DEF Slots
<1>4. ASSUME NEW p \in Ports
      PROVE  /\ rem[p] \in Slots /\ rem[p].ctl = c(p)
             /\ rem[p].kb = pref[p].kb
             /\ rem[p].reserved = pref[p].reserved
             /\ rem[p].share = pref[p].share
  <2>1. rem[p] = [pref[p] EXCEPT !.ctl = c(p)]
    BY <1>2
  <2>2. c(p) \in Pads \union {NoPad}
    BY <1>3
  <2> HIDE DEF c
  <2> QED BY <2>1, <2>2, SlotWith
<1>5. rem \in [Ports -> Slots]
  <2>1. rem = [p \in Ports |-> rem[p]]
    BY <1>2
  <2> QED BY <1>4, <2>1
<1>6. ASSUME NEW p \in Ports, pref[p].reserved PROVE rem[p].ctl = pref[p].ctl
  BY <1>1, <1>4, <1>6
<1>7. ASSUME NEW p \in Ports PROVE Fits(S, dev, pl[p], rem[p])
  <2>1. CASE pl[p] # NoPad
    BY <1>1, <1>4, <2>1 DEF Fits
  <2>2. CASE pl[p] = NoPad
    <3>1. ~Present(S, dev, NoPad)
      BY PresentIsPad
    <3>2. Present(S, dev, pref[p].ctl) => pl[p] = pref[p].ctl /\ pref[p].ctl # NoPad
      BY <1>1, PresentIsPad
    <3> QED BY <1>4, <2>2, <3>1, <3>2 DEF Fits
  <2> QED BY <2>1, <2>2
<1>8. OnePad(rem)
  <2> SUFFICES ASSUME NEW p \in Ports, NEW q \in Ports, p # q, rem[p].ctl # NoPad,
                      rem[p].ctl = rem[q].ctl
               PROVE  FALSE
    BY DEF OnePad
  <2>1. CASE Present(S, dev, rem[p].ctl)
    <3>1. pl[p] = rem[p].ctl /\ pl[q] = rem[q].ctl
      BY <1>7, <2>1 DEF Fits
    <3> QED BY <1>1, <3>1
  <2>2. CASE ~Present(S, dev, rem[p].ctl)
    <3>1. rem[p].ctl = pref[p].ctl /\ rem[q].ctl = pref[q].ctl
      BY <1>1, <1>4, <2>2
    <3> QED BY <3>1 DEF OnePad
  <2> QED BY <2>1, <2>2
<1>9. Filled(S, dev, rem, pl)
  BY <1>1, <1>4 DEF Filled
<1> QED BY <1>4, <1>5, <1>6, <1>7, <1>8, <1>9

\* Every seat has a handle of S or none, and no handle is in two.
Apart(S, held) ==
    /\ \A p \in Ports : held[p].ctl \in S \union {NoHandle}
    /\ \A p, q \in Ports : p # q /\ held[p].ctl # NoHandle => held[p].ctl # held[q].ctl

LEMMA SeatType ==
    ASSUME NEW h \in Handles \union {NoHandle}, NEW key \in BOOLEAN
    PROVE  [ctl |-> h, kb |-> key] \in Players
  BY DEF Players

\* The seats planned for what reconcile returned.
LEMMA SeatedIs ==
    ASSUME Scanned(scan, padOf), NEW pref \in [Ports -> Slots], OnePad(pref),
           NEW pl, pl = Placed(pref, scan, padOf),
           NEW held, held = Seated(Reconcile(pref, scan, padOf))
    PROVE  /\ held \in [Ports -> Players]
           /\ Apart(scan, held)
           /\ \A p \in Ports : PadOf(padOf, held[p].ctl) = pl[p] /\ held[p].kb = pref[p].kb
           /\ \A p \in Ports, h \in scan : pl[p] = padOf[h] => held[p].ctl = h
<1> DEFINE slots == Reconcile(pref, scan, padOf)
<1>0. scan \in SUBSET Nat /\ NoHandle \notin scan /\ scan \subseteq Handles
  BY HandlesFinite DEF Scanned
<1>1. /\ \A p \in Ports : pl[p] \in Pads \union {NoPad}
      /\ \A p \in Ports : pl[p] # NoPad => Present(scan, padOf, pl[p])
      /\ \A p, q \in Ports : p # q /\ pl[p] # NoPad => pl[p] # pl[q]
  BY PlacedIs
<1>2. ASSUME NEW p \in Ports PROVE slots[p].ctl = pl[p] /\ slots[p].kb = pref[p].kb
  <2>1. slots[p] = [pref[p] EXCEPT !.ctl = pl[p]]
    BY DEF Reconcile
  <2>2. pl[p] \in Pads \union {NoPad}
    BY <1>1
  <2> HIDE DEF slots
  <2> QED BY <2>1, <2>2, SlotWith
<1> DEFINE Pick(c) == IF \E h \in scan : padOf[h] = c THEN CHOOSE h \in scan : padOf[h] = c
                      ELSE NoHandle
<1>3. held = [p \in Ports |-> [ctl |-> Pick(slots[p].ctl), kb |-> slots[p].kb]]
  BY DEF Seated
<1>4. ASSUME NEW p \in Ports
      PROVE  /\ held[p].ctl = Pick(pl[p])
             /\ held[p].kb = pref[p].kb
             /\ held[p] = [ctl |-> held[p].ctl, kb |-> held[p].kb]
  <2> HIDE DEF Pick, slots
  <2> QED BY <1>2, <1>3
<1> HIDE DEF slots
<1>5. ASSUME NEW p \in Ports, NEW h \in scan, pl[p] = padOf[h] PROVE held[p].ctl = h
  <2>1. held[p].ctl = CHOOSE g \in scan : padOf[g] = pl[p]
    BY <1>4, <1>5
  <2>2. held[p].ctl \in scan /\ padOf[held[p].ctl] = pl[p]
    BY <1>5, <2>1
  <2> QED BY <1>5, <2>2 DEF Scanned
<1>6. ASSUME NEW p \in Ports, pl[p] # NoPad
      PROVE  held[p].ctl \in scan /\ padOf[held[p].ctl] = pl[p]
  <2>1. PICK h \in scan : padOf[h] = pl[p]
    BY <1>1, <1>6 DEF Present
  <2> QED BY <1>5, <2>1
<1>7. ASSUME NEW p \in Ports, pl[p] = NoPad PROVE held[p].ctl = NoHandle
  <2>1. ~(\E h \in scan : padOf[h] = pl[p])
    BY <1>7, PolicyAssumption DEF Scanned
  <2> QED BY <1>4, <2>1
<1>8. ASSUME NEW p \in Ports
      PROVE  /\ held[p] \in Players /\ held[p].ctl \in scan \union {NoHandle}
             /\ PadOf(padOf, held[p].ctl) = pl[p]
  <2>1. held[p].kb \in BOOLEAN
    BY <1>4 DEF Slots
  <2>2. held[p].ctl \in scan \union {NoHandle} /\ PadOf(padOf, held[p].ctl) = pl[p]
    BY <1>0, <1>6, <1>7 DEF PadOf
  <2>3. held[p] \in Players
    <3>1. held[p].ctl \in Handles \union {NoHandle}
      BY <1>0, <2>2
    <3>2. [ctl |-> held[p].ctl, kb |-> held[p].kb] \in Players
      BY <2>1, <3>1, SeatType
    <3> QED BY <1>4, <3>2
  <2> QED BY <2>2, <2>3
<1>9. held \in [Ports -> Players]
  <2>1. held = [p \in Ports |-> held[p]]
    BY <1>3
  <2> QED BY <1>8, <2>1
<1>10. ASSUME NEW p \in Ports, NEW q \in Ports, p # q, held[p].ctl # NoHandle
       PROVE  held[p].ctl # held[q].ctl
  <2>1. pl[p] # NoPad
    BY <1>7, <1>10
  <2>2. pl[p] # pl[q]
    BY <1>1, <1>10, <2>1
  <2> QED BY <1>8, <2>2
<1> QED BY <1>4, <1>5, <1>8, <1>9, <1>10 DEF Apart

(* Types. *)

\* Every scan is of distinct pads, and there are no more handles than MaxPlugs.
ScansFit ==
    /\ Len(padOf) <= MaxPlugs
    /\ Scanned(connected, padOf) /\ Scanned(scan, padOf) /\ Scanned(assignedIds, padOf)

TypeInv ==
    /\ PlayersTypeOK /\ JoinOrderFollows /\ ScansFit
    /\ imported \in Imports
    /\ confirmed = NoConfirm \/ confirmed \in [Ports -> Players]

LEMMA PlacedType ==
    ASSUME NEW S, NEW dev, Scanned(S, dev), NEW pref \in [Ports -> Slots], NEW p \in Ports
    PROVE  Placed(pref, S, dev)[p] \in Pads \union {NoPad}
<1> DEFINE open == Open(pref, S, dev)
           left == Unplaced(pref, S, dev)
<1>1. CASE p \in open /\ Rank(open, p) < Cardinality(left)
  <2> DEFINE h == Nth(left, Rank(open, p))
  <2>1. h \in S /\ Placed(pref, S, dev)[p] = dev[h]
    BY <1>1, FillIs
  <2> HIDE DEF h
  <2> QED BY <2>1 DEF Scanned
<1>2. CASE ~(p \in open /\ Rank(open, p) < Cardinality(left))
  <2>1. Placed(pref, S, dev)[p] = Kept(pref, S, dev)[p]
    BY <1>2, FillIs
  <2>2. Kept(pref, S, dev)[p] \in Pads \union {NoPad}
    BY DEF Kept, Slots
  <2> QED BY <2>1, <2>2
<1> QED BY <1>1, <1>2

LEMMA PolicyType ==
    ASSUME NEW S, NEW dev, Scanned(S, dev), NEW pref \in [Ports -> Slots]
    PROVE  /\ Remembered(pref, S, dev) \in [Ports -> Slots]
           /\ Reconcile(pref, S, dev) \in [Ports -> Slots]
<1> DEFINE pl(p) == Placed(pref, S, dev)[p]
           c(p) == IF pref[p].reserved /\ pl(p) = NoPad THEN pref[p].ctl ELSE pl(p)
<1>1. \A p \in Ports : pl(p) \in Pads \union {NoPad}
  BY PlacedType
<1>2. \A p \in Ports : c(p) \in Pads \union {NoPad}
  BY <1>1 DEF Slots
<1>3. Remembered(pref, S, dev) = [p \in Ports |-> [pref[p] EXCEPT !.ctl = c(p)]]
  BY DEF Remembered
<1>4. Reconcile(pref, S, dev) = [p \in Ports |-> [pref[p] EXCEPT !.ctl = pl(p)]]
  BY DEF Reconcile
<1>5. ASSUME NEW p \in Ports
      PROVE  [pref[p] EXCEPT !.ctl = c(p)] \in Slots /\ [pref[p] EXCEPT !.ctl = pl(p)] \in Slots
  <2>1. c(p) \in Pads \union {NoPad} /\ pl(p) \in Pads \union {NoPad}
    BY <1>1, <1>2
  <2> HIDE DEF c, pl
  <2> QED BY <2>1, SlotWith
<1> HIDE DEF c, pl
<1> QED BY <1>3, <1>4, <1>5

LEMMA SeatedType ==
    ASSUME Scanned(scan, padOf), NEW slots \in [Ports -> Slots]
    PROVE  Seated(slots) \in [Ports -> Players]
<1> DEFINE Pick(c) == IF \E h \in scan : padOf[h] = c THEN CHOOSE h \in scan : padOf[h] = c
                      ELSE NoHandle
<1>1. Seated(slots) = [p \in Ports |-> [ctl |-> Pick(slots[p].ctl), kb |-> slots[p].kb]]
  BY DEF Seated
<1>2. ASSUME NEW p \in Ports PROVE [ctl |-> Pick(slots[p].ctl), kb |-> slots[p].kb] \in Players
  <2>1. Pick(slots[p].ctl) \in Handles \union {NoHandle}
    BY DEF Scanned
  <2>2. slots[p].kb \in BOOLEAN
    BY DEF Slots
  <2> HIDE DEF Pick
  <2> QED BY <2>1, <2>2, SeatType
<1> HIDE DEF Pick
<1> QED BY <1>1, <1>2

LEMMA EmptyTypes ==
    /\ Nobody \in [Ports -> Players]
    /\ Unseen \in Layouts
    /\ EmptySlot \in Slots
    /\ NoLegacy \in [Ports -> SUBSET Pads]
    /\ SessionOrder <=> SessionTypeOK /\ JoinOrderFollows
<1>1. NoPlayer \in Players
  BY DEF NoPlayer, Players
<1> QED BY <1>1 DEF Nobody, Unseen, Layouts, EmptySlot, Slots, NoLegacy, SessionOrder

LEMMA LiveType ==
    ASSUME TypeInv
    PROVE  LiveSlots \in Layouts
<1>1. \A p \in Ports : LiveSlot(p) \in [ctl : Pads \union {NoPad}, kb : BOOLEAN]
  BY DEF TypeInv, PlayersTypeOK, LiveSlot, Players, Assigned
<1> QED BY <1>1 DEF LiveSlots, Layouts

LEMMA FirstType ==
    ASSUME TypeInv
    PROVE  /\ FirstPreferred \in [Ports -> Slots]
           /\ FirstLegacy \in [Ports -> SUBSET Pads]
<1>1. CASE layout # NoLayout
  BY <1>1 DEF TypeInv, PlayersTypeOK, Layouts, FirstPreferred, FirstLegacy, EmptySlot, Slots
<1>2. CASE layout = NoLayout /\ imported # NoImport
  <2>1. imported \in [Ports -> ImportedPorts]
    BY <1>2, AssignmentAssumption DEF TypeInv
  <2> QED BY <1>2, <2>1 DEF FirstPreferred, FirstLegacy, EmptySlot, Slots, ImportedPorts
<1>3. CASE layout = NoLayout /\ imported = NoImport
  <2>1. Automatic(scan, padOf, FALSE) \in [Ports -> Slots]
    BY AutomaticIs DEF TypeInv, ScansFit
  <2> QED BY <1>3, <2>1, EmptyTypes DEF FirstPreferred, FirstLegacy
<1> QED BY <1>1, <1>2, <1>3

LEMMA BaseType ==
    ASSUME TypeInv
    PROVE  /\ Base \in [Ports -> Slots] /\ Adopted \in [Ports -> Slots]
           /\ BaseLegacy \in [Ports -> SUBSET Pads]
<1>1. Adopted \in [Ports -> Slots]
  BY LiveType DEF Adopted, Layouts, Slots
<1>2. Automatic(scan, padOf, TRUE) \in [Ports -> Slots]
  BY AutomaticIs DEF TypeInv, ScansFit
<1>3. preferred \in [Ports -> Slots] /\ legacy \in [Ports -> SUBSET Pads]
  BY DEF TypeInv, PlayersTypeOK
<1> QED BY <1>1, <1>2, <1>3, FirstType, EmptyTypes DEF Base, BaseLegacy

LEMMA SavedType ==
    ASSUME NEW slots \in [Ports -> Slots]
    PROVE  SavedLayout(slots) \in Layouts
  BY DEF SavedLayout, Layouts, Slots

LEMMA AdoptType ==
    ASSUME TypeInv, Adopt
    PROVE  /\ layout' \in Layouts \union {NoLayout}
           /\ published' \in Layouts
           /\ requested' \in BOOLEAN /\ changed' \in BOOLEAN
           /\ legacy' \in [Ports -> SUBSET Pads]
           /\ confirmed' = NoConfirm \/ confirmed' \in [Ports -> Players]
<1>1. SavedLayout(Base) \in Layouts /\ SavedLayout(Adopted) \in Layouts /\ LiveSlots \in Layouts
  BY BaseType, SavedType, LiveType
<1>2. /\ layout \in Layouts \union {NoLayout} /\ published \in Layouts
      /\ requested \in BOOLEAN /\ changed \in BOOLEAN
      /\ confirmed = NoConfirm \/ confirmed \in [Ports -> Players]
  BY DEF TypeInv, PlayersTypeOK
<1> QED BY <1>1, <1>2, BaseType DEF Adopt

LEMMA ScannedMore ==
    ASSUME NEW S, NEW dev, Scanned(S, dev), Len(dev) < MaxPlugs, NEW pad \in Pads
    PROVE  /\ Scanned(S, Append(dev, pad))
           /\ ~Present(S, dev, pad) => Scanned(S \union {Len(dev) + 1}, Append(dev, pad))
           /\ DOMAIN dev \subseteq DOMAIN Append(dev, pad)
           /\ \A h \in DOMAIN dev : Append(dev, pad)[h] = dev[h]
           /\ Append(dev, pad)[Len(dev) + 1] = pad
           /\ Len(dev) + 1 \in DOMAIN Append(dev, pad)
           /\ Len(dev) + 1 \in Handles /\ Len(dev) + 1 \notin DOMAIN dev
<1> DEFINE dev2 == Append(dev, pad)
           n == Len(dev) + 1
<1>1. /\ dev \in Seq(Pads) /\ dev2 \in Seq(Pads)
      /\ Len(dev) \in Nat /\ DOMAIN dev = 1 .. Len(dev) /\ DOMAIN dev2 = 1 .. n
      /\ \A h \in DOMAIN dev : dev2[h] = dev[h]
      /\ dev2[n] = pad
  BY DEF Scanned
<1>2. n \in Handles /\ n \notin DOMAIN dev /\ n \in DOMAIN dev2 /\ DOMAIN dev \subseteq DOMAIN dev2
  BY <1>1, SessionAssumption DEF Handles
<1>3. /\ S \subseteq Handles /\ S \subseteq DOMAIN dev
      /\ \A g, h \in S : dev[g] = dev[h] => g = h
  BY DEF Scanned
<1> HIDE DEF dev2, n
<1>4. Scanned(S, dev2)
  BY <1>1, <1>2, <1>3 DEF Scanned
<1>5. ASSUME ~Present(S, dev, pad) PROVE Scanned(S \union {n}, dev2)
  <2>1. \A g \in S : dev2[g] # pad
    BY <1>1, <1>3, <1>5 DEF Present
  <2>2. \A g, h \in S \union {n} : dev2[g] = dev2[h] => g = h
    BY <1>1, <1>3, <2>1
  <2> QED BY <1>1, <1>2, <1>3, <2>2 DEF Scanned
<1> QED BY <1>1, <1>2, <1>4, <1>5 DEF dev2, n

LEMMA SessionRestarts == SessionInit' => SessionTypeOK' /\ JoinOrderFollows'
<1>1. SessionInit => SessionTypeOK /\ JoinOrderFollows
  BY SessionInitInv DEF SessionInv, SessionOrder
<1> QED BY <1>1, PTL

\* The session as it runs among the other steps.
LEMMA SessionStep ==
    ASSUME TypeInv, [Next]_vars
    PROVE  SessionTypeOK' /\ JoinOrderFollows'
<1>0. SessionOrder /\ players \in [Ports -> Players]
  BY DEF TypeInv, PlayersTypeOK, SessionOrder
<1>1. CASE [SessionMoves]_session
  BY <1>0, <1>1, TypeStep, OrderStep
<1>2. CASE Relaunch
  BY <1>2, SessionRestarts DEF Relaunch, SessionInit, Nobody
<1>3. CASE OpenDialog
  <2>1. SessionMoves
    BY <1>0, <1>3 DEF OpenDialog, SessionMoves, SessionNext
  <2> QED BY <1>1, <2>1
<1>4. CASE PressButton
  <2>1. SessionMoves
    BY <1>4 DEF PressButton, SessionMoves, SessionNext, Edit
  <2> QED BY <1>1, <2>1
<1>5. CASE DialogEvent
  <2>1. connected \subseteq Handles
    BY DEF TypeInv, ScansFit, Scanned
  <2>2. SessionMoves \/ UNCHANGED session
    BY <1>5, <2>1 DEF DialogEvent, SessionMoves, SessionNext, Edit
  <2> QED BY <1>1, <2>2
<1>6. CASE CommitStop
  <2>1. SessionMoves
    BY <1>6 DEF CommitStop, SessionMoves, SessionNext
  <2> QED BY <1>1, <2>1
<1>7. CASE KeyboardSits
  <2>1. SessionMoves \/ UNCHANGED session
    BY <1>7 DEF KeyboardSits, SessionMoves
  <2> QED BY <1>1, <2>1
<1>8. CASE UNCHANGED session
  BY <1>1, <1>8
<1> QED
  BY <1>2, <1>3, <1>4, <1>5, <1>6, <1>7, <1>8
  DEF Next, vars, Commit, Refresh, Plug, Unplug, ChangeProfile, PressAutoConfigure, CommitCopy,
      UpdateControls, PressAddKeyboard, CommitProfiles, BeginRefresh, RefreshWaits, RefreshKeeps, RefreshPlans, RefreshApplies,
      RefreshPublishes

LEMMA TypeInvInit == Init => TypeInv
<1> SUFFICES ASSUME Init PROVE TypeInv
  OBVIOUS
<1>1. SessionTypeOK /\ JoinOrderFollows
  <2>1. SessionInit
    BY DEF Init, SessionInit, Nobody
  <2> QED BY <2>1, SessionInitInv DEF SessionInv, SessionOrder
<1>2. padOf \in Seq(Pads) /\ Len(padOf) = 0 /\ Len(padOf) <= MaxPlugs
  BY SessionAssumption DEF Init
<1>3. ScansFit
  BY <1>2 DEF Init, ScansFit, Scanned
<1>4. 0 \in 0 .. MaxProfiles
  BY AssignmentAssumption
<1>5. PlayersTypeOK
  BY <1>1, <1>2, <1>4, EmptyTypes DEF Init, PlayersTypeOK
<1> QED BY <1>1, <1>3, <1>5 DEF TypeInv, Init

LEMMA TypeInvStep == TypeInv /\ [Next]_vars => TypeInv'
<1> SUFFICES ASSUME TypeInv, [Next]_vars PROVE TypeInv'
  OBVIOUS
<1>0. SessionTypeOK' /\ JoinOrderFollows'
  BY SessionStep
<1>t. SessionTypeOK /\ temp \in [Ports -> Players] /\ temp' \in [Ports -> Players]
  BY <1>0 DEF TypeInv, PlayersTypeOK, SessionTypeOK
<1>a. /\ PlayersTypeOK /\ ScansFit /\ imported \in Imports
      /\ confirmed = NoConfirm \/ confirmed \in [Ports -> Players]
  BY DEF TypeInv
<1>b. ASSUME UNCHANGED <<padOf, connected, scan, assignedIds>> PROVE ScansFit'
  BY <1>a, <1>b DEF ScansFit, Scanned
<1>r. ASSUME Returns
      PROVE  mainAt' = "events" /\ scanProfile' \in 0 .. MaxProfiles /\ plan' \in [Ports -> Players]
  BY <1>r, EmptyTypes, AssignmentAssumption DEF Returns
<1>1. ASSUME NEW pad \in Pads, Plug(pad) PROVE TypeInv'
  <2>1. /\ padOf' = Append(padOf, pad) /\ connected' = connected \union {Len(padOf) + 1}
        /\ Len(padOf) < MaxPlugs /\ ~Present(connected, padOf, pad)
        /\ UNCHANGED <<scan, previousKeys, assignedIds>>
    BY <1>1 DEF Plug, statics
  <2>2. /\ Scanned(connected', padOf') /\ Scanned(scan', padOf') /\ Scanned(assignedIds', padOf')
        /\ DOMAIN padOf \subseteq DOMAIN padOf' /\ Len(padOf) + 1 \in DOMAIN padOf'
    BY <1>a, <2>1, ScannedMore DEF ScansFit
  <2>3. padOf' \in Seq(Pads) /\ Len(padOf') <= MaxPlugs
    BY <1>a, <2>1, SessionAssumption DEF PlayersTypeOK
  <2>4. ScansFit'
    BY <2>2, <2>3 DEF ScansFit
  <2>5. PlayersTypeOK'
    BY <1>0, <1>1, <1>a, <2>1, <2>2, <2>3 DEF Plug, PlayersTypeOK, seats, statics
  <2> QED BY <1>0, <1>1, <1>a, <2>4, <2>5 DEF Plug, TypeInv
<1>2. ASSUME NEW h \in connected, Unplug(h) PROVE TypeInv'
  <2>1. connected' = connected \ {h} /\ UNCHANGED <<padOf, scan, previousKeys, assignedIds>>
    BY <1>2 DEF Unplug, statics
  <2>2. ScansFit'
    BY <1>a, <2>1 DEF ScansFit, Scanned
  <2>3. PlayersTypeOK'
    BY <1>0, <1>2, <1>a, <2>1 DEF Unplug, PlayersTypeOK, seats, statics
  <2> QED BY <1>0, <1>2, <1>a, <2>2, <2>3 DEF Unplug, TypeInv
<1>3. CASE ChangeProfile
  <2>1. profile' \in 0 .. MaxProfiles
    BY <1>3, <1>a, AssignmentAssumption DEF ChangeProfile, PlayersTypeOK
  <2>2. PlayersTypeOK'
    BY <1>0, <1>3, <1>a, <2>1 DEF ChangeProfile, PlayersTypeOK, seats, statics
  <2> QED BY <1>0, <1>3, <1>a, <1>b, <2>2 DEF ChangeProfile, TypeInv, statics
<1>4. CASE Relaunch
  <2>1. 0 \in 0 .. MaxProfiles
    BY AssignmentAssumption
  <2>2. PlayersTypeOK'
    BY <1>0, <1>4, <1>a, <2>1, EmptyTypes DEF Relaunch, PlayersTypeOK, world
  <2>3. ScansFit'
    BY <1>4, <1>a DEF Relaunch, ScansFit, Scanned, world
  <2> QED BY <1>0, <1>4, <1>a, <2>2, <2>3 DEF Relaunch, TypeInv, world
<1> DEFINE dialog == UNCHANGED <<world, players, kbProfile, mainAt, scan, scanProfile, plan, statics,
                                 requested, layout>>
<1>5. ASSUME dialog, confirmed' = NoConfirm \/ confirmed' \in [Ports -> Players],
             uiAt' \in {"idle", "keyboard", "copy", "profiles"}, changed' \in BOOLEAN,
             modal' \in {"closed", "open", "closing"}, drawn' \in BOOLEAN
      PROVE  TypeInv'
  <2>1. PlayersTypeOK'
    BY <1>0, <1>5, <1>a DEF PlayersTypeOK, world, statics
  <2> QED BY <1>0, <1>5, <1>a, <1>b, <2>1 DEF TypeInv, world, statics
<1>6. CASE \/ OpenDialog \/ UpdateControls \/ PressButton \/ PressAddKeyboard \/ KeyboardSits
           \/ DialogEvent \/ CommitStop
  <2>1. dialog
    BY <1>6 DEF OpenDialog, UpdateControls, PressButton, PressAddKeyboard, KeyboardSits, DialogEvent,
                CommitStop, UiOnly, seats
  <2>2. /\ confirmed' = confirmed
        /\ uiAt' \in {uiAt, "idle", "keyboard", "copy"}
        /\ changed' = changed \/ changed' = (Described(temp) # published)
        /\ modal' \in {modal, "closed", "open", "closing"}
        /\ drawn' \in {drawn, FALSE, Seating, (Overlap /\ \E p \in Ports : Assigned(players[p]))}
    BY <1>6 DEF OpenDialog, UpdateControls, PressButton, PressAddKeyboard, KeyboardSits, DialogEvent,
                CommitStop
  <2>3. /\ changed \in BOOLEAN /\ uiAt \in {"idle", "keyboard", "copy", "profiles"}
        /\ modal \in {"closed", "open", "closing"} /\ drawn \in BOOLEAN
    BY <1>a DEF PlayersTypeOK
  <2>4. Seating \in BOOLEAN /\ (Overlap /\ \E p \in Ports : Assigned(players[p])) \in BOOLEAN
    BY <1>a DEF Seating, MetRequirements, PlayersTypeOK, SessionTypeOK
  <2> QED BY <1>5, <1>a, <2>1, <2>2, <2>3, <2>4
<1>7. CASE CommitCopy
  <2>1. PlayersTypeOK'
    BY <1>0, <1>7, <1>a, <1>t DEF CommitCopy, PlayersTypeOK, world, statics
  <2> QED BY <1>0, <1>7, <1>a, <1>b, <2>1 DEF CommitCopy, TypeInv, world, statics
<1>8. CASE CommitProfiles
  <2>1. kbProfile' \subseteq Ports
    BY <1>8 DEF CommitProfiles
  <2>2. PlayersTypeOK'
    BY <1>0, <1>8, <1>a, <1>t, <2>1 DEF CommitProfiles, PlayersTypeOK, world, statics
  <2> QED BY <1>0, <1>8, <1>a, <1>b, <1>t, <2>2 DEF CommitProfiles, TypeInv, world, statics
<1>9. CASE PressAutoConfigure
  <2>1. PlayersTypeOK'
    BY <1>0, <1>9, <1>a DEF PressAutoConfigure, PlayersTypeOK, world, statics, seats
  <2> QED BY <1>0, <1>9, <1>a, <1>b, <2>1 DEF PressAutoConfigure, TypeInv, world, statics
<1>10. CASE BeginRefresh
  <2>1. scan' = connected /\ UNCHANGED <<padOf, connected, assignedIds>>
    BY <1>10 DEF BeginRefresh, world, statics
  <2>2. ScansFit'
    BY <1>a, <2>1 DEF ScansFit, Scanned
  <2>3. PlayersTypeOK'
    BY <1>0, <1>10, <1>a DEF BeginRefresh, PlayersTypeOK, world, statics, seats
  <2> QED BY <1>0, <1>10, <1>a, <2>2, <2>3 DEF BeginRefresh, TypeInv, world
<1>11. CASE RefreshWaits
  <2>1. PlayersTypeOK'
    BY <1>0, <1>11, <1>a, <1>r DEF RefreshWaits, PlayersTypeOK, world, statics, seats
  <2> QED BY <1>0, <1>11, <1>a, <1>b, <2>1 DEF RefreshWaits, TypeInv, world, statics
<1>12. CASE RefreshKeeps
  <2>1. /\ layout' \in Layouts \union {NoLayout} /\ published' \in Layouts
        /\ requested' \in BOOLEAN /\ changed' \in BOOLEAN
        /\ legacy' \in [Ports -> SUBSET Pads]
        /\ confirmed' = NoConfirm \/ confirmed' \in [Ports -> Players]
        /\ preferred' \in [Ports -> Slots]
    BY <1>12, AdoptType, BaseType DEF RefreshKeeps
  <2>2. PlayersTypeOK'
    BY <1>0, <1>12, <1>a, <1>r, <2>1 DEF RefreshKeeps, PlayersTypeOK, world, seats
  <2> QED BY <1>0, <1>12, <1>a, <1>b, <2>1, <2>2 DEF RefreshKeeps, TypeInv, world
<1>13. CASE RefreshPlans
  <2> DEFINE resolved == ResolveLegacy(Base, BaseLegacy, scan, padOf)
  <2>1. /\ layout' \in Layouts \union {NoLayout} /\ published' \in Layouts
        /\ requested' \in BOOLEAN /\ changed' \in BOOLEAN
        /\ legacy' \in [Ports -> SUBSET Pads]
        /\ confirmed' = NoConfirm \/ confirmed' \in [Ports -> Players]
    BY <1>13, AdoptType DEF RefreshPlans
  <2>2. resolved \in [Ports -> Slots]
    BY <1>a, BaseType, ResolveIs DEF ScansFit
  <2>3. /\ plan' = Seated(Reconcile(resolved, scan, padOf))
        /\ preferred' = Remembered(resolved, scan, padOf)
    BY <1>13 DEF RefreshPlans
  <2> HIDE DEF resolved
  <2>4. plan' \in [Ports -> Players] /\ preferred' \in [Ports -> Slots]
    BY <1>a, <2>2, <2>3, PolicyType, SeatedType DEF ScansFit
  <2>5. PlayersTypeOK'
    BY <1>0, <1>13, <1>a, <2>1, <2>4 DEF RefreshPlans, PlayersTypeOK, world, seats
  <2> QED BY <1>0, <1>13, <1>a, <1>b, <2>1, <2>5 DEF RefreshPlans, TypeInv, world
<1>14. CASE RefreshApplies
  <2>1. players' \in [Ports -> Players] /\ kbProfile' \subseteq Ports
    BY <1>14, <1>a DEF RefreshApplies, PlayersTypeOK
  <2>2. PlayersTypeOK'
    BY <1>0, <1>14, <1>a, <2>1 DEF RefreshApplies, PlayersTypeOK, world, statics
  <2> QED BY <1>0, <1>14, <1>a, <1>b, <2>2 DEF RefreshApplies, TypeInv, world, statics
<1>15. CASE RefreshPublishes
  <2>1. assignedIds' = scan /\ previousKeys' = scan /\ UNCHANGED <<padOf, connected, scan>>
    BY <1>15 DEF RefreshPublishes, world
  <2>2. ScansFit'
    BY <1>a, <2>1 DEF ScansFit, Scanned
  <2>3. LiveSlots \in Layouts
    BY LiveType
  <2>4. PlayersTypeOK'
    BY <1>0, <1>15, <1>a, <1>r, <2>3 DEF RefreshPublishes, PlayersTypeOK, world, seats
  <2> QED BY <1>0, <1>15, <1>a, <2>2, <2>4 DEF RefreshPublishes, TypeInv, world
<1>16. CASE UNCHANGED vars
  <2>1. PlayersTypeOK'
    BY <1>0, <1>16, <1>a DEF vars, PlayersTypeOK, world, statics, seats
  <2> QED BY <1>0, <1>16, <1>a, <1>b, <2>1 DEF vars, TypeInv, world, statics
<1> QED
  BY <1>1, <1>2, <1>3, <1>4, <1>6, <1>7, <1>8, <1>9, <1>10, <1>11, <1>12, <1>13, <1>14, <1>15, <1>16
  DEF Next, Commit, Refresh

LEMMA TypeAlways == Spec => []TypeInv
  BY TypeInvInit, TypeInvStep, PTL DEF Spec

\* The whole of the players' state keeps its type, for any pads, ports, imports and bounds.
THEOREM PlayersTypeCorrect == Spec => []PlayersTypeOK
  BY TypeAlways, PTL DEF TypeInv

(* One pad, one port. *)

\* The handles of the seats players holds: those of the last refresh that seated anybody.
Home == IF mainAt = "publish" THEN scan ELSE assignedIds

SeatInv ==
    /\ mainAt # "events" => scan = connected
    /\ previousKeys = assignedIds
    /\ assigning \/ uiAt # "idle" \/ modal # "closed" =>
          initialized /\ connected = assignedIds /\ Apart(connected, temp)
    /\ Apart(Home, players)
    /\ mainAt = "apply" => Apart(scan, plan)
    /\ OnePad(preferred)
    /\ layout # NoLayout => OnePad(layout)

\* Seats that hold different handles hold different pads.
LEMMA PadsApart ==
    ASSUME NEW S, NEW dev, Scanned(S, dev), NEW held, Apart(S, held),
           NEW p \in Ports, NEW q \in Ports, p # q, PadOf(dev, held[p].ctl) # NoPad
    PROVE  PadOf(dev, held[p].ctl) # PadOf(dev, held[q].ctl)
<1>1. held[p].ctl # NoHandle /\ held[p].ctl \in S /\ PadOf(dev, held[p].ctl) = dev[held[p].ctl]
  BY DEF Apart, PadOf
<1>2. held[p].ctl # held[q].ctl
  BY <1>1 DEF Apart
<1>3. CASE held[q].ctl = NoHandle
  BY <1>3 DEF PadOf
<1>4. CASE held[q].ctl # NoHandle
  <2>1. held[q].ctl \in S /\ PadOf(dev, held[q].ctl) = dev[held[q].ctl]
    BY <1>4 DEF Apart, PadOf
  <2> QED BY <1>1, <1>2, <2>1 DEF Scanned
<1> QED BY <1>3, <1>4

LEMMA NobodyApart == \A S : Apart(S, Nobody)
  BY DEF Apart, Nobody, NoPlayer

LEMMA HomeScanned ==
    ASSUME TypeInv
    PROVE  Scanned(Home, padOf)
  BY DEF TypeInv, ScansFit, Home

\* live_slots shows every seat's pad: the handles of the last refresh are all remembered.
LEMMA LiveIs ==
    ASSUME TypeInv, SeatInv, NEW p \in Ports
    PROVE  /\ LiveSlots[p].ctl = PadOf(padOf, players[p].ctl)
           /\ LiveSlots[p].kb = (Assigned(players[p]) /\ (players[p].kb \/ p \in kbProfile))
<1>1. NoHandle \notin scan \union previousKeys
  BY HandlesFinite DEF TypeInv, ScansFit, Scanned, SeatInv
<1>2. players[p].ctl = NoHandle \/ players[p].ctl \in scan \union previousKeys
  BY DEF SeatInv, Apart, Home
<1> QED BY <1>1, <1>2 DEF LiveSlots, LiveSlot, PadOf

LEMMA LiveApart ==
    ASSUME TypeInv, SeatInv
    PROVE  OnePad(LiveSlots)
<1> SUFFICES ASSUME NEW p \in Ports, NEW q \in Ports, p # q, LiveSlots[p].ctl # NoPad
             PROVE  LiveSlots[p].ctl # LiveSlots[q].ctl
  BY DEF OnePad
<1>1. Apart(Home, players)
  BY DEF SeatInv
<1>2. LiveSlots[p].ctl = PadOf(padOf, players[p].ctl) /\ LiveSlots[q].ctl = PadOf(padOf, players[q].ctl)
  BY LiveIs
<1> QED BY <1>1, <1>2, HomeScanned, PadsApart

LEMMA BaseApart ==
    ASSUME TypeInv, SeatInv
    PROVE  OnePad(Base) /\ OnePad(Adopted)
<1>1. OnePad(Adopted)
  BY LiveApart DEF OnePad, Adopted
<1>2. OnePad(Automatic(scan, padOf, TRUE)) /\ OnePad(Automatic(scan, padOf, FALSE))
  BY AutomaticIs DEF TypeInv, ScansFit
<1>3. OnePad(FirstPreferred)
  <2>1. CASE layout # NoLayout
    BY <2>1 DEF FirstPreferred, OnePad, EmptySlot
  <2>2. CASE layout = NoLayout /\ imported # NoImport
    BY <2>2 DEF FirstPreferred, OnePad, EmptySlot
  <2>3. CASE layout = NoLayout /\ imported = NoImport
    BY <1>2, <2>3 DEF FirstPreferred
  <2> QED BY <2>1, <2>2, <2>3
<1> QED BY <1>1, <1>2, <1>3 DEF Base, SeatInv

LEMMA SavedApart ==
    ASSUME NEW slots \in [Ports -> Slots], OnePad(slots)
    PROVE  OnePad(SavedLayout(slots))
  BY DEF OnePad, SavedLayout

\* What the dialog's edits keep: each pad that joins is connected and on no other seat.
LEMMA EditsApart ==
    ASSUME SessionOrder, NEW S, Apart(S, temp),
           \/ StartOver \/ UndoLastJoin \/ AddKeyboard \/ JoinKeyboard
           \/ \E p \in Ports : RemovePlayer(p)
           \/ \E a, b \in Ports : SwapPlayers(a, b)
           \/ \E h \in S : JoinPad(h)
           \/ Stop
    PROVE  Apart(S, temp')
<1>0. temp \in [Ports -> Players] /\ joinOrder \in Seq(Ports)
  BY DEF SessionOrder, SessionTypeOK
<1> USE DEF Apart, NoPlayer
<1>1. CASE StartOver
  BY <1>1 DEF StartOver, Begin
<1>2. CASE UndoLastJoin
  <2>1. joinOrder[Len(joinOrder)] \in Ports
    BY <1>0, <1>2 DEF UndoLastJoin
  <2> QED BY <1>0, <1>2, <2>1 DEF UndoLastJoin
<1>3. CASE AddKeyboard
  <2>1. PICK slot \in Ports : temp' = SeatKeyboard(slot)
    BY <1>3 DEF AddKeyboard
  <2>2. \A p \in Ports : temp'[p].ctl = IF p = slot THEN NoHandle ELSE temp[p].ctl
    BY <1>0, <2>1 DEF SeatKeyboard, Players
  <2> QED BY <2>2
<1>4. ASSUME NEW p \in Ports, RemovePlayer(p) PROVE Apart(S, temp')
  BY <1>0, <1>4 DEF RemovePlayer
<1>5. ASSUME NEW a \in Ports, NEW b \in Ports, SwapPlayers(a, b) PROVE Apart(S, temp')
  BY <1>0, <1>5 DEF SwapPlayers
<1>6. ASSUME NEW h \in S, JoinPad(h) PROVE Apart(S, temp')
  BY <1>0, <1>6 DEF JoinPad
<1>7. CASE Stop
  BY <1>7 DEF Stop
<1> QED BY <1>1, <1>2, <1>3, <1>4, <1>5, <1>6, <1>7 DEF JoinKeyboard

LEMMA SeatInvInit == Init => SeatInv
<1> SUFFICES ASSUME Init PROVE SeatInv
  OBVIOUS
<1>1. Apart(Home, players)
  BY NobodyApart DEF Init
<1>2. OnePad(preferred)
  BY DEF Init, OnePad, EmptySlot
<1> QED BY <1>1, <1>2 DEF Init, SeatInv

\* What a refresh plans.
LEMMA PlansApart ==
    ASSUME TypeInv, SeatInv, RefreshPlans
    PROVE  Apart(scan, plan') /\ OnePad(preferred')
<1> DEFINE resolved == ResolveLegacy(Base, BaseLegacy, scan, padOf)
<1>0. Scanned(scan, padOf)
  BY DEF TypeInv, ScansFit
<1>1. resolved \in [Ports -> Slots] /\ OnePad(resolved)
  BY <1>0, BaseType, BaseApart, ResolveIs, ResolveApart
<1>2. /\ plan' = Seated(Reconcile(resolved, scan, padOf))
      /\ preferred' = Remembered(resolved, scan, padOf)
  BY DEF RefreshPlans
<1> HIDE DEF resolved
<1> QED BY <1>0, <1>1, <1>2, SeatedIs, RememberedIs

LEMMA AdoptApart ==
    ASSUME TypeInv, SeatInv, Adopt
    PROVE  layout' # NoLayout => OnePad(layout')
<1>1. OnePad(SavedLayout(Base)) /\ OnePad(SavedLayout(Adopted))
  BY BaseType, BaseApart, SavedApart
<1> QED BY <1>1 DEF Adopt, SeatInv

LEMMA SeatInvStep ==
    ASSUME ~SessionHotplug
    PROVE  TypeInv /\ SeatInv /\ [Next]_vars => SeatInv'
<1> SUFFICES ASSUME TypeInv, SeatInv, [Next]_vars PROVE SeatInv'
  OBVIOUS
<1>a. /\ mainAt # "events" => scan = connected
      /\ previousKeys = assignedIds
      /\ assigning \/ uiAt # "idle" \/ modal # "closed" =>
          initialized /\ connected = assignedIds /\ Apart(connected, temp)
      /\ Apart(Home, players)
      /\ mainAt = "apply" => Apart(scan, plan)
      /\ OnePad(preferred)
      /\ layout # NoLayout => OnePad(layout)
  BY DEF SeatInv
<1>o. SessionOrder
  BY DEF TypeInv, PlayersTypeOK, SessionOrder
<1>1. ASSUME NEW pad \in Pads, Plug(pad) PROVE SeatInv'
  BY <1>1, <1>a DEF Plug, Quiet, SeatInv, Home, statics, seats, session
<1>2. ASSUME NEW h \in connected, Unplug(h) PROVE SeatInv'
  BY <1>2, <1>a DEF Unplug, Quiet, SeatInv, Home, statics, seats, session
<1>3. CASE ChangeProfile
  BY <1>3, <1>a DEF ChangeProfile, SeatInv, Home, statics, seats, session
<1>4. CASE Relaunch
  <2>1. OnePad(preferred') /\ Apart(Home', players')
    <3>1. Apart(Home', Nobody)
      BY NobodyApart
    <3> QED BY <1>4, <3>1 DEF Relaunch, OnePad, EmptySlot
  <2> QED BY <1>4, <1>a, <2>1 DEF Relaunch, SeatInv
<1> DEFINE dialog == UNCHANGED <<world, players, mainAt, scan, plan, statics, layout>>
<1>5. ASSUME dialog,
             assigning' \/ uiAt' # "idle" \/ modal' # "closed" =>
                initialized /\ connected = assignedIds /\ Apart(connected, temp')
      PROVE  SeatInv'
  BY <1>5, <1>a DEF SeatInv, Home, statics, world
<1>6. CASE OpenDialog
  <2>1. Home = connected
    BY <1>6, <1>a DEF OpenDialog, Home
  <2>2. initialized /\ connected = assignedIds /\ temp' = players
    BY <1>6 DEF OpenDialog, StartFromCurrent, Begin
  <2>3. dialog
    BY <1>6 DEF OpenDialog, UiOnly, seats
  <2> QED BY <1>5, <1>a, <2>1, <2>2, <2>3
<1>7. CASE UpdateControls \/ PressButton \/ PressAddKeyboard \/ KeyboardSits \/ DialogEvent
  <2>1. dialog
    BY <1>7 DEF UpdateControls, PressButton, PressAddKeyboard, KeyboardSits, DialogEvent, UiOnly, seats
  <2>2. assigning \/ uiAt # "idle" \/ modal # "closed"
    BY <1>7 DEF UpdateControls, PressButton, PressAddKeyboard, KeyboardSits, DialogEvent, JoinKeyboard,
                AddKeyboard, JoinPad
  <2>3. Apart(connected, temp')
    <3>1. CASE UNCHANGED temp
      BY <1>a, <2>2, <3>1 DEF Apart
    <3>2. CASE \/ StartOver \/ UndoLastJoin \/ AddKeyboard \/ JoinKeyboard
               \/ \E p \in Ports : RemovePlayer(p)
               \/ \E a, b \in Ports : SwapPlayers(a, b)
               \/ \E h \in connected : JoinPad(h)
               \/ Stop
      BY <1>a, <1>o, <2>2, <3>2, EditsApart
    <3> QED BY <1>7, <3>1, <3>2 DEF UpdateControls, PressButton, PressAddKeyboard, KeyboardSits,
                                    DialogEvent, session
  <2> QED BY <1>5, <1>a, <2>1, <2>2, <2>3
<1>8. CASE CommitStop
  <2>1. dialog /\ modal # "closed" /\ temp' = temp
    BY <1>8 DEF CommitStop, Enabled, UiOnly, seats, Stop
  <2> QED BY <1>5, <1>a, <2>1
<1>9. CASE CommitCopy
  <2>1. Home' = connected
    BY <1>9, <1>a DEF CommitCopy, Home, statics
  <2> QED BY <1>9, <1>a, <2>1 DEF CommitCopy, SeatInv, statics, world, session
<1>10. CASE CommitProfiles
  BY <1>5, <1>10, <1>a DEF CommitProfiles, world, statics, session
<1>11. CASE PressAutoConfigure
  BY <1>5, <1>11, <1>a DEF PressAutoConfigure, world, statics, session, seats
<1>12. CASE BeginRefresh
  BY <1>12, <1>a DEF BeginRefresh, SeatInv, Home, world, statics, session, seats
<1>13. CASE RefreshWaits
  BY <1>13, <1>a DEF RefreshWaits, Returns, SeatInv, Home, world, statics, session, seats
<1>14. CASE RefreshKeeps
  <2>1. layout' # NoLayout => OnePad(layout')
    BY <1>14, AdoptApart DEF RefreshKeeps
  <2>2. OnePad(preferred')
    BY <1>14, BaseApart DEF RefreshKeeps
  <2>3. previousKeys' = assignedIds
    BY <1>14 DEF RefreshKeeps, Unchanged
  <2> QED BY <1>14, <1>a, <2>1, <2>2, <2>3 DEF RefreshKeeps, Returns, SeatInv, Home, world, session, seats
<1>15. CASE RefreshPlans
  <2>1. layout' # NoLayout => OnePad(layout')
    BY <1>15, AdoptApart DEF RefreshPlans
  <2>2. Apart(scan, plan') /\ OnePad(preferred')
    BY <1>15, PlansApart
  <2> QED BY <1>15, <1>a, <2>1, <2>2 DEF RefreshPlans, SeatInv, Home, world, session, seats
<1>16. CASE RefreshApplies
  <2>1. Apart(scan, players')
    <3>1. CASE assigning
      BY <1>16, <1>a, <3>1 DEF RefreshApplies, Home
    <3>2. CASE ~assigning
      BY <1>16, <1>a, <3>2 DEF RefreshApplies
    <3> QED BY <3>1, <3>2
  <2> QED BY <1>16, <1>a, <2>1 DEF RefreshApplies, SeatInv, Home, world, statics, session
<1>17. CASE RefreshPublishes
  BY <1>17, <1>a DEF RefreshPublishes, Returns, SeatInv, Home, world, session, seats
<1>18. CASE UNCHANGED vars
  BY <1>5, <1>18, <1>a DEF vars, world, statics, session, seats
<1> QED
  BY <1>1, <1>2, <1>3, <1>4, <1>6, <1>7, <1>8, <1>9, <1>10, <1>11, <1>12, <1>13, <1>14, <1>15, <1>16,
     <1>17, <1>18
  DEF Next, Commit, Refresh

LEMMA SeatsAlways ==
    ASSUME ~SessionHotplug
    PROVE  Spec => [](TypeInv /\ SeatInv)
<1>1. Init => TypeInv /\ SeatInv
  BY TypeInvInit, SeatInvInit
<1>2. TypeInv /\ SeatInv /\ [Next]_vars => (TypeInv /\ SeatInv)'
  BY TypeInvStep, SeatInvStep
<1> QED BY <1>1, <1>2, PTL DEF Spec

\* A pad is on one port, whatever is plugged, imported, confirmed and configured, and however
\* the dialog's callbacks fall between the steps of a refresh, when no pad comes or goes while
\* the dialog is open.
THEOREM PadsOnOnePort ==
    ASSUME ~SessionHotplug
    PROVE  Spec => []OnePadOnePort
<1>1. TypeInv /\ SeatInv => OnePadOnePort
  <2> SUFFICES ASSUME TypeInv, SeatInv, NEW p \in Ports, NEW q \in Ports, p # q, PadAt(p) # NoPad
               PROVE  PadAt(p) # PadAt(q)
    BY DEF OnePadOnePort
  <2>1. \A r \in Ports : PadAt(r) = PadOf(padOf, players[r].ctl)
    BY DEF PadAt, PadOf
  <2>2. Apart(Home, players)
    BY DEF SeatInv
  <2> QED BY <2>1, <2>2, HomeScanned, PadsApart
<1> QED BY <1>1, SeatsAlways, PTL

(* The saved layout comes back. *)

\* Every saved pad that is there is where it was saved, and so is the keyboard.
LayoutOn(held) ==
    \A p \in Ports :
        /\ Present(scan, padOf, layout[p].ctl) => PadOf(padOf, held[p].ctl) = layout[p].ctl
        /\ held[p].kb = layout[p].kb

LayoutInv ==
    ~initialized /\ layout # NoLayout =>
        /\ mainAt = "apply" => LayoutOn(plan)
        /\ mainAt = "publish" => LayoutOn(players)

\* The plan of the first refresh: each saved port claims the one pad it was saved with.
LEMMA FirstPlan ==
    ASSUME TypeInv, SeatInv, RefreshPlans, ~initialized, layout' # NoLayout, NEW p \in Ports
    PROVE  /\ Present(scan, padOf, layout'[p].ctl) => PadOf(padOf, plan'[p].ctl) = layout'[p].ctl
           /\ plan'[p].kb = layout'[p].kb
<1> DEFINE resolved == ResolveLegacy(Base, BaseLegacy, scan, padOf)
           pl == Placed(resolved, scan, padOf)
           claim == LegacyClaims(BaseLegacy, scan, padOf)
<1>0. Scanned(scan, padOf)
  BY DEF TypeInv, ScansFit
<1>b. Base \in [Ports -> Slots] /\ BaseLegacy \in [Ports -> SUBSET Pads] /\ OnePad(Base)
  BY BaseType, BaseApart
<1>1. /\ resolved \in [Ports -> Slots]
      /\ resolved[p].kb = Base[p].kb
      /\ BaseLegacy[p] # {} => resolved[p].ctl = PadOf(padOf, claim[p])
  <2> HIDE DEF resolved, claim
  <2>1. resolved = ResolveLegacy(Base, BaseLegacy, scan, padOf) /\ claim = LegacyClaims(BaseLegacy, scan, padOf)
    BY DEF resolved, claim
  <2> QED BY <1>0, <1>b, <2>1, ResolveIs
<1>2. OnePad(resolved)
  BY <1>0, <1>b, ResolveApart
<1>3. plan' = Seated(Reconcile(resolved, scan, padOf))
  BY DEF RefreshPlans
<1>4. Greedy(claim, BaseLegacy, scan, padOf)
  BY <1>0, ClaimsAreGreedy DEF Scanned
<1>5. resolved[p].ctl = Base[p].ctl \/ BaseLegacy # NoLegacy
  BY <1>0, <1>b, ResolveNothing
<1> HIDE DEF resolved, claim
<1>6. /\ PadOf(padOf, plan'[p].ctl) = pl[p] /\ plan'[p].kb = resolved[p].kb
      /\ Present(scan, padOf, resolved[p].ctl) => pl[p] = resolved[p].ctl
  <2> HIDE DEF pl
  <2>1. pl = Placed(resolved, scan, padOf)
    BY DEF pl
  <2> QED BY <1>0, <1>1, <1>2, <1>3, <2>1, SeatedIs, PlacedIs
<1> SUFFICES /\ Present(scan, padOf, layout'[p].ctl) => resolved[p].ctl = layout'[p].ctl
             /\ Base[p].kb = layout'[p].kb
  BY <1>1, <1>6
<1>7. CASE requested
  <2>1. BaseLegacy = NoLegacy /\ layout' = SavedLayout(Base)
    BY <1>7 DEF BaseLegacy, RefreshPlans, Adopt
  <2>2. /\ layout'[p].ctl = IF Present(scan, padOf, Base[p].ctl) THEN Base[p].ctl ELSE NoPad
        /\ layout'[p].kb = Base[p].kb
    BY <2>1 DEF SavedLayout
  <2>3. ~Present(scan, padOf, NoPad)
    BY <1>0, PresentIsPad
  <2> QED BY <1>5, <2>1, <2>2, <2>3
<1>8. CASE ~requested
  <2>1. /\ layout' = layout /\ Base = FirstPreferred /\ BaseLegacy = FirstLegacy
        /\ layout # NoLayout
    BY <1>8 DEF RefreshPlans, Adopt, ManualCommitSeen, Base, BaseLegacy
  <2>2. /\ Base[p].kb = layout[p].kb
        /\ \A q \in Ports : BaseLegacy[q] = IF layout[q].ctl = NoPad THEN {} ELSE {layout[q].ctl}
    BY <2>1 DEF FirstPreferred, FirstLegacy, EmptySlot
  <2>3. ASSUME Present(scan, padOf, layout[p].ctl) PROVE resolved[p].ctl = layout[p].ctl
    <3>1. PICK h \in scan : padOf[h] = layout[p].ctl
      BY <2>3 DEF Present
    <3>2. layout[p].ctl # NoPad /\ BaseLegacy[p] = {layout[p].ctl}
      BY <1>0, <2>2, <2>3, PresentIsPad
    <3>3. ASSUME NEW q \in 0 .. p - 1 PROVE claim[q] # h
      <4>1. q \in Ports /\ q # p
        BY SessionAssumption DEF Ports
      <4>2. claim[q] # NoHandle => padOf[claim[q]] \in BaseLegacy[q]
        BY <1>0, <1>4, <4>1, ClaimsApart DEF Scanned
      <4>3. layout[q].ctl # layout[p].ctl
        BY <2>1, <3>2, <4>1 DEF SeatInv, OnePad
      <4>4. h # NoHandle
        BY <1>0, HandlesFinite DEF Scanned
      <4> QED BY <2>2, <3>1, <4>1, <4>2, <4>3, <4>4
    <3>4. h \in Free(claim, BaseLegacy, scan, padOf, p)
      BY <3>1, <3>2, <3>3 DEF Free
    <3>5. claim[p] \in Free(claim, BaseLegacy, scan, padOf, p)
      BY <1>4, <3>4 DEF Greedy
    <3>6. claim[p] \in scan /\ padOf[claim[p]] = layout[p].ctl
      BY <3>2, <3>5 DEF Free
    <3>7. claim[p] # NoHandle
      BY <1>0, <3>6, HandlesFinite DEF Scanned
    <3> QED BY <1>1, <3>2, <3>6, <3>7 DEF PadOf
  <2> QED BY <2>1, <2>2, <2>3
<1> QED BY <1>7, <1>8

LEMMA LayoutInvStep == TypeInv /\ SeatInv /\ LayoutInv /\ [Next]_vars => LayoutInv'
<1> SUFFICES ASSUME TypeInv, SeatInv, LayoutInv, [Next]_vars, ~initialized', layout' # NoLayout,
                    mainAt' \in {"apply", "publish"}
             PROVE  /\ mainAt' = "apply" => LayoutOn(plan)'
                    /\ mainAt' = "publish" => LayoutOn(players)'
  BY DEF LayoutInv
<1>a. assigning \/ uiAt # "idle" => initialized
  BY DEF SeatInv
<1>1. CASE RefreshPlans
  <2>1. mainAt' = "apply" /\ ~initialized /\ UNCHANGED <<scan, padOf>>
    BY <1>1 DEF RefreshPlans, world
  <2>2. LayoutOn(plan)'
    BY <1>1, <2>1, FirstPlan DEF LayoutOn
  <2> QED BY <2>1, <2>2
<1>2. CASE RefreshApplies
  <2>1. /\ mainAt = "apply" /\ mainAt' = "publish" /\ ~initialized
        /\ UNCHANGED <<scan, padOf, layout>>
    BY <1>2 DEF RefreshApplies, world, statics
  <2>2. players' = plan
    BY <1>2, <1>a, <2>1 DEF RefreshApplies
  <2> QED BY <2>1, <2>2 DEF LayoutInv, LayoutOn
<1>3. ASSUME UNCHANGED <<mainAt, plan, players, scan, padOf, layout, initialized>>
      PROVE  /\ mainAt' = "apply" => LayoutOn(plan)'
             /\ mainAt' = "publish" => LayoutOn(players)'
  BY <1>3 DEF LayoutInv, LayoutOn
<1>4. CASE \/ OpenDialog \/ UpdateControls \/ PressButton \/ PressAddKeyboard \/ KeyboardSits
           \/ DialogEvent \/ CommitStop \/ CommitProfiles \/ PressAutoConfigure \/ ChangeProfile
           \/ UNCHANGED vars
  <2>1. UNCHANGED <<mainAt, plan, players, scan, padOf, layout, initialized>>
    BY <1>4 DEF OpenDialog, UpdateControls, PressButton, PressAddKeyboard, KeyboardSits, DialogEvent,
                CommitStop, CommitProfiles, PressAutoConfigure, ChangeProfile, UiOnly, vars, world, statics, seats
  <2> QED BY <1>3, <2>1
<1>5. CASE CommitCopy
  BY <1>5, <1>a DEF CommitCopy, statics
<1>6. CASE (\E pad \in Pads : Plug(pad)) \/ (\E h \in connected : Unplug(h)) \/ Relaunch
           \/ BeginRefresh \/ RefreshWaits \/ RefreshKeeps \/ RefreshPublishes
  BY <1>6 DEF Plug, Unplug, Relaunch, BeginRefresh, RefreshWaits, RefreshKeeps, RefreshPublishes, Returns
<1> QED BY <1>1, <1>2, <1>4, <1>5, <1>6 DEF Next, Commit, Refresh

\* A relaunch seats every saved pad that is there, and the keyboard, where the layout says:
\* each saved port claims its one pad, and no open port can take it first.
THEOREM SavedLayoutReturns ==
    ASSUME ~SessionHotplug
    PROVE  Spec => []LayoutRestored
<1>1. Init => LayoutInv
  BY DEF Init, LayoutInv
<1>2. LayoutInv => LayoutRestored
  BY DEF LayoutInv, LayoutOn, LayoutRestored, LayoutTaken, PadAt, PadOf
<1>3. Spec => [](TypeInv /\ SeatInv)
  BY SeatsAlways
<1> QED BY <1>1, <1>2, <1>3, LayoutInvStep, PTL DEF Spec

(* The seats of the last refresh. *)

\* With no callback between the steps of a refresh, no dialog is open while one runs, and "Add
\* keyboard" is one step.
FrameInv ==
    /\ uiAt # "keyboard"
    /\ mainAt # "events" => uiAt = "idle"
    /\ mainAt \in {"apply", "publish"} => ~assigning

LEMMA FrameInvStep ==
    ASSUME ~Overlap
    PROVE  FrameInv /\ [Next]_vars => FrameInv'
<1> SUFFICES ASSUME FrameInv, [Next]_vars PROVE FrameInv'
  OBVIOUS
<1> USE DEF FrameInv
<1>1. CASE (\E pad \in Pads : Plug(pad)) \/ (\E h \in connected : Unplug(h)) \/ ChangeProfile \/ Relaunch
  BY <1>1 DEF Plug, Unplug, ChangeProfile, Relaunch, session
<1>2. CASE \/ OpenDialog \/ UpdateControls \/ PressButton \/ PressAddKeyboard \/ KeyboardSits
           \/ DialogEvent \/ PressAutoConfigure
  BY <1>2 DEF OpenDialog, UpdateControls, PressButton, PressAddKeyboard, KeyboardSits, DialogEvent,
              PressAutoConfigure, UiIdle, UiOnly, session
<1>3. CASE Commit
  BY <1>3 DEF Commit, CommitStop, CommitCopy, CommitProfiles, UiIdle, UiOnly, Stop, session
<1>4. CASE Refresh
  BY <1>4 DEF Refresh, BeginRefresh, RefreshWaits, RefreshKeeps, RefreshPlans, RefreshApplies,
              RefreshPublishes, Returns, session
<1>5. CASE UNCHANGED vars
  BY <1>5 DEF vars, session
<1> QED BY <1>1, <1>2, <1>3, <1>4, <1>5 DEF Next

\* Each port has the pad its slot is for, and no pad of S is without a port it may take.
Served(S, dev, slots, pads) ==
    /\ \A p \in Ports : Fits(S, dev, pads[p], slots[p])
    /\ Filled(S, dev, slots, pads)

Shown         == [p \in Ports |-> published[p].ctl]
PadsOf(held)  == [p \in Ports |-> PadOf(padOf, held[p].ctl)]

FitInv ==
    /\ initialized /\ mainAt \in {"events", "plan"} =>
          /\ Served(assignedIds, padOf, preferred, Shown)
          /\ \A p \in Ports : preferred[p].kb => published[p].kb
    /\ mainAt = "apply" =>
          /\ Served(scan, padOf, preferred, PadsOf(plan))
          /\ \A p \in Ports : plan[p].kb = preferred[p].kb
    /\ mainAt = "publish" =>
          /\ Served(scan, padOf, preferred, PadsOf(players))
          /\ \A p \in Ports : players[p].kb = preferred[p].kb

\* A pad plugged in changes nothing for the handles there were.
LEMMA ServedMore ==
    ASSUME NEW S, NEW dev, Scanned(S, dev), Len(dev) < MaxPlugs, NEW pad \in Pads,
           NEW slots, NEW pads, Served(S, dev, slots, pads)
    PROVE  Served(S, Append(dev, pad), slots, pads)
<1> DEFINE dev2 == Append(dev, pad)
<1>1. \A h \in S : dev2[h] = dev[h]
  BY ScannedMore DEF Scanned
<1> HIDE DEF dev2
<1>2. Served(S, dev2, slots, pads)
  BY <1>1 DEF Served, Fits, Filled, Present
<1> QED BY <1>2 DEF dev2

\* What a manual commit shows is what it reserves.
LEMMA AdoptedServed ==
    ASSUME TypeInv, SeatInv, mainAt = "plan", NEW show, show = [p \in Ports |-> LiveSlots[p].ctl]
    PROVE  Served(assignedIds, padOf, Adopted, show)
<1>1. Scanned(assignedIds, padOf)
  BY DEF TypeInv, ScansFit
<1>2. ASSUME NEW p \in Ports PROVE Fits(assignedIds, padOf, show[p], Adopted[p])
  <2>1. show[p] = PadOf(padOf, players[p].ctl) /\ Adopted[p].ctl = show[p]
    BY LiveIs DEF Adopted
  <2>2. players[p].ctl \in assignedIds \union {NoHandle}
    BY DEF SeatInv, Apart, Home
  <2>3. ~Present(assignedIds, padOf, NoPad)
    BY <1>1, PresentIsPad
  <2> QED BY <2>1, <2>2, <2>3 DEF Fits, PadOf, Present
<1>3. Filled(assignedIds, padOf, Adopted, show)
  BY DEF Filled, Adopted
<1> QED BY <1>2, <1>3 DEF Served

LEMMA PlansServed ==
    ASSUME TypeInv, SeatInv, RefreshPlans
    PROVE  /\ Served(scan, padOf, preferred', PadsOf(plan'))
           /\ \A p \in Ports : plan'[p].kb = preferred'[p].kb
<1> DEFINE resolved == ResolveLegacy(Base, BaseLegacy, scan, padOf)
           pl == Placed(resolved, scan, padOf)
<1>0. Scanned(scan, padOf)
  BY DEF TypeInv, ScansFit
<1>1. resolved \in [Ports -> Slots] /\ OnePad(resolved)
  BY <1>0, BaseType, BaseApart, ResolveIs, ResolveApart
<1>2. /\ plan' = Seated(Reconcile(resolved, scan, padOf))
      /\ preferred' = Remembered(resolved, scan, padOf)
  BY DEF RefreshPlans
<1> HIDE DEF resolved
<1>3. pl = Placed(resolved, scan, padOf)
  BY DEF pl
<1> HIDE DEF pl
<1>4. \A p \in Ports : PadOf(padOf, plan'[p].ctl) = pl[p] /\ plan'[p].kb = resolved[p].kb
  BY <1>0, <1>1, <1>2, <1>3, SeatedIs
<1>5. /\ \A p \in Ports : preferred'[p].kb = resolved[p].kb /\ Fits(scan, padOf, pl[p], preferred'[p])
      /\ Filled(scan, padOf, preferred', pl)
  BY <1>0, <1>1, <1>2, <1>3, RememberedIs
<1>6. \A p \in Ports : PadsOf(plan')[p] = pl[p]
  BY <1>4 DEF PadsOf
<1>7. Served(scan, padOf, preferred', PadsOf(plan'))
  BY <1>5, <1>6 DEF Served, Fits, Filled
<1> QED BY <1>4, <1>5, <1>7

LEMMA FitInvStep == TypeInv /\ SeatInv /\ FrameInv /\ FitInv /\ [Next]_vars => FitInv'
<1> SUFFICES ASSUME TypeInv, SeatInv, FrameInv, FitInv, [Next]_vars PROVE FitInv'
  OBVIOUS
<1>a. /\ initialized /\ mainAt \in {"events", "plan"} =>
            /\ Served(assignedIds, padOf, preferred, Shown)
            /\ \A p \in Ports : preferred[p].kb => published[p].kb
      /\ mainAt = "apply" =>
            /\ Served(scan, padOf, preferred, PadsOf(plan))
            /\ \A p \in Ports : plan[p].kb = preferred[p].kb
      /\ mainAt = "publish" =>
            /\ Served(scan, padOf, preferred, PadsOf(players))
            /\ \A p \in Ports : players[p].kb = preferred[p].kb
  BY DEF FitInv
<1>1. ASSUME NEW pad \in Pads, Plug(pad) PROVE FitInv'
  <2>1. /\ mainAt = "events" /\ mainAt' = "events" /\ Len(padOf) < MaxPlugs
        /\ padOf' = Append(padOf, pad)
        /\ UNCHANGED <<initialized, assignedIds, preferred, published>>
    BY <1>1 DEF Plug, statics
  <2>2. Scanned(assignedIds, padOf)
    BY DEF TypeInv, ScansFit
  <2>3. initialized => Served(assignedIds, padOf', preferred, Shown)
    BY <1>a, <2>1, <2>2, ServedMore
  <2>4. Shown' = Shown
    BY <2>1 DEF Shown
  <2> QED BY <1>a, <2>1, <2>3, <2>4 DEF FitInv
<1>2. CASE Relaunch
  BY <1>2 DEF Relaunch, FitInv
<1>3. ASSUME UNCHANGED <<mainAt, plan, scan, padOf, initialized, assignedIds, preferred, published>>,
             mainAt = "publish" => UNCHANGED players
      PROVE  FitInv'
  BY <1>3, <1>a DEF FitInv, Shown, PadsOf
<1>4. CASE \/ \E h \in connected : Unplug(h)
           \/ ChangeProfile \/ OpenDialog \/ UpdateControls \/ PressButton \/ PressAddKeyboard
           \/ KeyboardSits \/ DialogEvent \/ PressAutoConfigure \/ CommitStop \/ CommitProfiles
           \/ UNCHANGED vars
  <2>1. UNCHANGED <<mainAt, plan, players, scan, padOf, initialized, assignedIds, preferred, published>>
    BY <1>4 DEF Unplug, OpenDialog, UpdateControls, PressButton, PressAddKeyboard, KeyboardSits,
                DialogEvent, CommitStop, CommitProfiles,
                PressAutoConfigure, ChangeProfile, UiOnly, vars, world, statics, seats
  <2> QED BY <1>3, <2>1
<1>5. CASE CommitCopy
  <2>1. UNCHANGED <<mainAt, plan, scan, padOf, initialized, assignedIds, preferred, published>>
    BY <1>5 DEF CommitCopy, world, statics
  <2>2. mainAt # "publish"
    BY <1>5 DEF CommitCopy, FrameInv
  <2> QED BY <1>3, <2>1, <2>2
<1>6. CASE BeginRefresh \/ RefreshWaits
  <2>1. /\ mainAt \in {"events", "plan"} /\ mainAt' \in {"events", "plan"}
        /\ UNCHANGED <<padOf, initialized, assignedIds, preferred, published>>
    BY <1>6 DEF BeginRefresh, RefreshWaits, Returns, world, statics
  <2> QED BY <1>a, <2>1 DEF FitInv, Shown
<1>7. CASE RefreshKeeps
  <2>1. /\ mainAt = "plan" /\ mainAt' = "events" /\ initialized /\ ~requested
        /\ UNCHANGED <<padOf, initialized, assignedIds>>
        /\ preferred' = Base
        /\ published' = IF ManualCommitSeen THEN LiveSlots ELSE published
    BY <1>7 DEF RefreshKeeps, Returns, Unchanged, Adopt, world
  <2>2. CASE ManualCommitSeen
    <3>1. preferred' = Adopted /\ published' = LiveSlots
      BY <2>1, <2>2 DEF Base
    <3>2. Shown' = [p \in Ports |-> LiveSlots[p].ctl]
      BY <3>1 DEF Shown
    <3>3. Served(assignedIds, padOf, Adopted, Shown')
      BY <2>1, <3>2, AdoptedServed
    <3>4. \A p \in Ports : Adopted[p].kb => LiveSlots[p].kb
      BY DEF Adopted
    <3> QED BY <2>1, <3>1, <3>3, <3>4 DEF FitInv
  <2>3. CASE ~ManualCommitSeen
    <3>1. preferred' = preferred /\ published' = published
      BY <2>1, <2>3 DEF Base
    <3> QED BY <1>a, <2>1, <3>1 DEF FitInv, Shown
  <2> QED BY <2>2, <2>3
<1>8. CASE RefreshPlans
  <2>1. mainAt' = "apply" /\ UNCHANGED <<scan, padOf>>
    BY <1>8 DEF RefreshPlans, world
  <2>2. PadsOf(plan') = PadsOf(plan)'
    BY <2>1 DEF PadsOf
  <2> QED BY <1>8, <2>1, <2>2, PlansServed DEF FitInv
<1>9. CASE RefreshApplies
  <2>1. /\ mainAt = "apply" /\ mainAt' = "publish" /\ ~assigning
        /\ UNCHANGED <<scan, padOf, preferred>>
    BY <1>9 DEF RefreshApplies, world, statics, FrameInv
  <2>2. players' = plan
    BY <1>9, <2>1 DEF RefreshApplies
  <2> QED BY <1>a, <2>1, <2>2 DEF FitInv, PadsOf
<1>10. CASE RefreshPublishes
  <2>1. /\ mainAt = "publish" /\ mainAt' = "events" /\ assignedIds' = scan /\ published' = LiveSlots
        /\ UNCHANGED <<padOf, preferred>>
    BY <1>10 DEF RefreshPublishes, Returns, world
  <2>2. \A p \in Ports : /\ LiveSlots[p].ctl = PadOf(padOf, players[p].ctl)
                         /\ players[p].kb => LiveSlots[p].kb
    BY LiveIs DEF Assigned
  <2>3. Shown' = PadsOf(players)
    BY <2>1, <2>2 DEF Shown, PadsOf
  <2> QED BY <1>a, <2>1, <2>2, <2>3 DEF FitInv
<1> QED BY <1>1, <1>2, <1>4, <1>5, <1>6, <1>7, <1>8, <1>9, <1>10 DEF Next, Commit, Refresh

LEMMA FitAlways ==
    ASSUME ~SessionHotplug, ~Overlap
    PROVE  Spec => [](TypeInv /\ SeatInv /\ FrameInv /\ FitInv)
<1>1. Init => FrameInv /\ FitInv
  BY DEF Init, FrameInv, FitInv
<1> QED BY <1>1, SeatsAlways, FrameInvStep, FitInvStep, PTL DEF Spec

\* What is published at rest is where the pads are.
LEMMA RestIs ==
    ASSUME TypeInv, SeatInv, FitInv, AtRest
    PROVE  /\ Served(connected, padOf, preferred, PadsOf(players))
           /\ \A p \in Ports : preferred[p].kb => players[p].kb \/ players[p].ctl # NoHandle
           /\ \A p \in Ports : PadAt(p) = PadsOf(players)[p]
           /\ Apart(connected, players)
<1>1. /\ connected = assignedIds /\ published = LiveSlots /\ initialized /\ mainAt = "events"
      /\ Home = assignedIds
  BY DEF AtRest, Home
<1>2. \A p \in Ports : /\ LiveSlots[p].ctl = PadOf(padOf, players[p].ctl)
                       /\ LiveSlots[p].kb => players[p].kb \/ players[p].ctl # NoHandle
  BY LiveIs DEF Assigned
<1>3. Shown = PadsOf(players)
  BY <1>1, <1>2 DEF Shown, PadsOf
<1> QED BY <1>1, <1>2, <1>3 DEF FitInv, SeatInv, PadAt, PadOf, PadsOf

\* A reserved port has its pad again as soon as that pad is back and a refresh has seen it.
THEOREM ReservedPadsReturn ==
    ASSUME ~SessionHotplug, ~Overlap
    PROVE  Spec => []ReservedPadsSeated
<1>1. TypeInv /\ SeatInv /\ FitInv => ReservedPadsSeated
  BY RestIs DEF ReservedPadsSeated, Served, Fits
<1> QED BY <1>1, FitAlways, PTL

\* No connected pad is left over while a port may take it.
THEOREM NoPadLeftOver ==
    ASSUME ~SessionHotplug, ~Overlap
    PROVE  Spec => []PadsSeated
<1>1. TypeInv /\ SeatInv /\ FitInv => PadsSeated
  <2> SUFFICES ASSUME TypeInv, SeatInv, FitInv, AtRest, NEW h \in connected,
                      ~(\E p \in Ports : players[p].ctl = h), NEW p \in Ports
               PROVE  \/ preferred[p].reserved \/ players[p].ctl # NoHandle
                      \/ (players[p].kb /\ ~preferred[p].share)
    BY DEF PadsSeated
  <2>1. Scanned(connected, padOf) /\ padOf[h] # NoPad
    BY PolicyAssumption DEF TypeInv, ScansFit, Scanned
  <2>2. ASSUME NEW q \in Ports PROVE PadsOf(players)[q] # padOf[h]
    <3>1. players[q].ctl \in connected \union {NoHandle}
      BY RestIs DEF Apart
    <3> QED BY <2>1, <3>1 DEF PadsOf, PadOf, Scanned
  <2>3. preferred[p].reserved \/ PadsOf(players)[p] # NoPad \/ (preferred[p].kb /\ ~preferred[p].share)
    BY <2>2, RestIs DEF Served, Filled
  <2>4. PadsOf(players)[p] # NoPad => players[p].ctl # NoHandle
    BY DEF PadsOf, PadOf
  <2> QED BY <2>3, <2>4, RestIs
<1> QED BY <1>1, FitAlways, PTL

(* A confirmed seating stays. *)

LiveOf(held, keys, dev) ==
    [p \in Ports |-> [ctl |-> PadOf(dev, held[p].ctl),
                      kb  |-> Assigned(held[p]) /\ (held[p].kb \/ p \in keys)]]

LEMMA LiveShown == TypeInv /\ SeatInv => LiveSlots = LiveOf(players, kbProfile, padOf)
<1> SUFFICES ASSUME TypeInv, SeatInv PROVE LiveSlots = LiveOf(players, kbProfile, padOf)
  OBVIOUS
<1>1. ASSUME NEW p \in Ports
      PROVE  LiveSlot(p) = [ctl |-> PadOf(padOf, players[p].ctl),
                            kb  |-> Assigned(players[p]) /\ (players[p].kb \/ p \in kbProfile)]
  <2>1. LiveSlots[p] = LiveSlot(p)
    BY DEF LiveSlots
  <2>2. LiveSlot(p) = [ctl |-> LiveSlot(p).ctl, kb |-> LiveSlot(p).kb]
    BY DEF LiveSlot
  <2>3. LiveSlot(p).ctl = PadOf(padOf, players[p].ctl)
    BY <2>1, LiveIs
  <2>4. LiveSlot(p).kb = (Assigned(players[p]) /\ (players[p].kb \/ p \in kbProfile))
    BY DEF LiveSlot
  <2> QED BY <2>2, <2>3, <2>4
<1> QED BY <1>1 DEF LiveSlots, LiveOf

LEMMA LiveShownNext ==
    ASSUME TypeInv', SeatInv'
    PROVE  LiveSlots' = LiveOf(players', kbProfile', padOf')
<1>1. (TypeInv /\ SeatInv => LiveSlots = LiveOf(players, kbProfile, padOf))'
  BY LiveShown, PTL
<1> QED BY <1>1 DEF LiveOf, PadOf

\* The seats show the same pads until they change.
LEMMA LiveStays ==
    ASSUME TypeInv, SeatInv, TypeInv', SeatInv', UNCHANGED <<players, kbProfile>>,
           \A h \in DOMAIN padOf : padOf'[h] = padOf[h]
    PROVE  LiveSlots' = LiveSlots
<1>1. ASSUME NEW p \in Ports PROVE PadOf(padOf', players[p].ctl) = PadOf(padOf, players[p].ctl)
  <2>1. players[p].ctl = NoHandle \/ players[p].ctl \in DOMAIN padOf
    BY HomeScanned DEF SeatInv, Apart, Scanned
  <2> QED BY <2>1 DEF PadOf
<1>2. LiveOf(players', kbProfile', padOf') = LiveOf(players, kbProfile, padOf)
  BY <1>1 DEF LiveOf
<1> QED BY <1>2, LiveShown, LiveShownNext

\* Confirmed, and not taken in yet; or taken in, and every port reserved for its pad.
Pending == mainAt \in {"events", "plan"} /\ players = confirmed /\ LiveSlots # published
Taken ==
    /\ legacy = NoLegacy
    /\ \A p \in Ports : preferred[p].reserved /\ preferred[p].ctl = ConfirmedAt(p)

Knows ==
    /\ confirmed \in [Ports -> Players]
    /\ \A p \in Ports : confirmed[p].ctl \in DOMAIN padOf \union {NoHandle}

ConfirmInv ==
    /\ uiAt = "idle" /\ initialized /\ mainAt \in {"events", "plan"} /\ LiveSlots # published
          => changed /\ players = confirmed
    /\ uiAt = "idle" /\ changed => initialized /\ Knows /\ (Pending \/ Taken)
    /\ uiAt \in {"copy", "profiles"} => changed = (Described(temp) # published)
    /\ uiAt = "profiles" => players = temp

LEMMA SeatsKnown ==
    ASSUME TypeInv, SeatInv, NEW p \in Ports
    PROVE  players[p].ctl \in DOMAIN padOf \union {NoHandle}
  BY HomeScanned DEF SeatInv, Apart, Scanned

\* The seats that show what was not published are the confirmed ones: adopting them takes them.
LEMMA AdoptedTaken ==
    ASSUME TypeInv, SeatInv, players = confirmed, NEW p \in Ports
    PROVE  Adopted[p].reserved /\ Adopted[p].ctl = ConfirmedAt(p)
  BY LiveIs DEF Adopted, ConfirmedAt, PadOf

LEMMA BaseTaken ==
    ASSUME TypeInv, SeatInv, ConfirmInv, mainAt = "plan", uiAt = "idle", changed, ~requested
    PROVE  /\ BaseLegacy = NoLegacy
           /\ \A p \in Ports : Base[p].reserved /\ Base[p].ctl = ConfirmedAt(p)
<1>1. initialized /\ (Pending \/ Taken)
  BY DEF ConfirmInv
<1>2. CASE ManualCommitSeen
  <2>1. players = confirmed
    BY <1>2 DEF ConfirmInv, ManualCommitSeen
  <2>2. Base = Adopted /\ BaseLegacy = NoLegacy
    BY <1>1, <1>2 DEF Base, BaseLegacy
  <2> QED BY <2>1, <2>2, AdoptedTaken
<1>3. CASE ~ManualCommitSeen
  <2>1. Base = preferred /\ BaseLegacy = legacy /\ Taken
    BY <1>1, <1>3 DEF Base, BaseLegacy, Pending, ManualCommitSeen
  <2> QED BY <2>1 DEF Taken
<1> QED BY <1>2, <1>3

LEMMA PlanTaken ==
    ASSUME TypeInv, SeatInv, ConfirmInv, RefreshPlans, uiAt = "idle", changed, ~requested
    PROVE  Taken'
<1> DEFINE resolved == ResolveLegacy(Base, BaseLegacy, scan, padOf)
<1>0. Scanned(scan, padOf)
  BY DEF TypeInv, ScansFit
<1>1. /\ BaseLegacy = NoLegacy
      /\ \A p \in Ports : Base[p].reserved /\ Base[p].ctl = ConfirmedAt(p)
  BY BaseTaken DEF RefreshPlans
<1>2. /\ resolved \in [Ports -> Slots] /\ OnePad(resolved)
      /\ \A p \in Ports : resolved[p].reserved = Base[p].reserved
  BY <1>0, BaseType, BaseApart, ResolveIs, ResolveApart
<1>3. \A p \in Ports : resolved[p].ctl = Base[p].ctl
  BY <1>0, <1>1, BaseType, ResolveNothing
<1>4. preferred' = Remembered(resolved, scan, padOf)
  BY DEF RefreshPlans
<1> HIDE DEF resolved
<1>5. \A p \in Ports : /\ preferred'[p].reserved = resolved[p].reserved
                       /\ resolved[p].reserved => preferred'[p].ctl = resolved[p].ctl
  BY <1>0, <1>2, <1>4, RememberedIs
<1>6. legacy' = NoLegacy /\ confirmed' = confirmed /\ padOf' = padOf
  BY <1>1 DEF RefreshPlans, Adopt, world
<1> QED BY <1>1, <1>2, <1>3, <1>5, <1>6 DEF Taken, ConfirmedAt

LEMMA ConfirmInvStep ==
    ASSUME ~SessionHotplug, ~Overlap
    PROVE  TypeInv /\ SeatInv /\ FrameInv /\ ConfirmInv /\ [Next]_vars /\ TypeInv' /\ SeatInv'
             => ConfirmInv'
<1> SUFFICES ASSUME TypeInv, SeatInv, FrameInv, ConfirmInv, [Next]_vars, TypeInv', SeatInv'
             PROVE  ConfirmInv'
  OBVIOUS
<1>a. /\ uiAt = "idle" /\ initialized /\ mainAt \in {"events", "plan"} /\ LiveSlots # published
            => changed /\ players = confirmed
      /\ uiAt = "idle" /\ changed => initialized /\ Knows /\ (Pending \/ Taken)
      /\ uiAt \in {"copy", "profiles"} => changed = (Described(temp) # published)
      /\ uiAt = "profiles" => players = temp
  BY DEF ConfirmInv
<1>b. mainAt # "events" => uiAt = "idle"
  BY DEF FrameInv
<1>1. ASSUME NEW pad \in Pads, Plug(pad) PROVE ConfirmInv'
  <2>1. /\ uiAt = "idle" /\ mainAt = "events" /\ padOf' = Append(padOf, pad)
        /\ UNCHANGED <<players, kbProfile, uiAt, mainAt, initialized, published, changed,
                       confirmed, preferred, legacy>>
    BY <1>1 DEF Plug, Quiet, seats, statics
  <2>2. /\ DOMAIN padOf \subseteq DOMAIN padOf'
        /\ \A h \in DOMAIN padOf : padOf'[h] = padOf[h]
    BY <1>1, <2>1, ScannedMore DEF TypeInv, ScansFit, Plug
  <2>3. LiveSlots' = LiveSlots
    BY <2>1, <2>2, LiveStays
  <2>4. Knows => Knows'
    BY <2>1, <2>2 DEF Knows
  <2>5. Knows => \A p \in Ports : ConfirmedAt(p)' = ConfirmedAt(p)
    BY <2>1, <2>2 DEF Knows, ConfirmedAt
  <2>6. Knows /\ (Pending \/ Taken) => Pending' \/ Taken'
    BY <2>1, <2>3, <2>5 DEF Pending, Taken
  <2> QED BY <1>a, <2>1, <2>3, <2>4, <2>6 DEF ConfirmInv
<1>2. CASE Relaunch
  BY <1>2 DEF Relaunch, ConfirmInv
<1>3. ASSUME UNCHANGED <<padOf, players, kbProfile, initialized, published, changed, confirmed,
                         preferred, legacy, uiAt>>,
             mainAt' \in {"events", "plan"}, mainAt \in {"events", "plan"},
             uiAt # "idle" => temp' = temp
      PROVE  ConfirmInv'
  <2>1. LiveSlots' = LiveSlots
    BY <1>3, LiveStays
  <2>2. (Knows => Knows') /\ (Taken => Taken') /\ (Pending => Pending')
    BY <1>3, <2>1 DEF Knows, Taken, Pending, ConfirmedAt
  <2>3. uiAt # "idle" => Described(temp)' = Described(temp)
    BY <1>3 DEF Described
  <2> QED BY <1>3, <1>a, <2>1, <2>2, <2>3 DEF ConfirmInv
<1>4. CASE (\E h \in connected : Unplug(h)) \/ OpenDialog \/ PressButton \/ DialogEvent
           \/ BeginRefresh \/ RefreshWaits
  <2>1. /\ UNCHANGED <<padOf, players, kbProfile, initialized, published, changed, confirmed,
                       preferred, legacy, uiAt>>
        /\ uiAt # "idle" => temp' = temp
    BY <1>4, <1>b DEF Unplug, OpenDialog, PressButton, DialogEvent, BeginRefresh, RefreshWaits, UiOnly,
                UiIdle, Returns, world, statics, seats, session
  <2>2. CASE mainAt \in {"events", "plan"} /\ mainAt' \in {"events", "plan"}
    BY <1>3, <2>1, <2>2
  <2>3. CASE ~(mainAt \in {"events", "plan"} /\ mainAt' \in {"events", "plan"})
    <3>1. mainAt' = mainAt /\ uiAt = "idle" /\ mainAt \notin {"events", "plan"}
      BY <1>4, <1>b, <2>3 DEF Unplug, OpenDialog, PressButton, DialogEvent, BeginRefresh, RefreshWaits,
                  UiOnly, UiIdle, Returns
    <3>2. (Knows => Knows') /\ (Taken => Taken') /\ ~Pending
      BY <2>1, <3>1 DEF Knows, Taken, Pending, ConfirmedAt
    <3> QED BY <1>a, <2>1, <3>1, <3>2 DEF ConfirmInv
  <2> QED BY <2>2, <2>3
<1>5. CASE ChangeProfile \/ PressAutoConfigure \/ UNCHANGED vars
  <2>1. UNCHANGED <<padOf, players, kbProfile, initialized, published, changed, confirmed,
                    preferred, legacy, uiAt, mainAt, temp>>
    BY <1>5 DEF ChangeProfile, PressAutoConfigure, vars, world, statics, seats, session
  <2>2. LiveSlots' = LiveSlots
    BY <2>1, LiveStays
  <2>3. (Knows => Knows') /\ (Taken => Taken') /\ (Pending => Pending')
    BY <2>1, <2>2 DEF Knows, Taken, Pending, ConfirmedAt
  <2>4. Described(temp)' = Described(temp)
    BY <2>1 DEF Described
  <2> QED BY <1>a, <2>1, <2>2, <2>3, <2>4 DEF ConfirmInv
<1>6. CASE CommitStop
  <2>1. /\ uiAt' = "copy" /\ changed' = (Described(temp) # published)
        /\ UNCHANGED <<padOf, published, temp>>
    BY <1>6 DEF CommitStop, UiOnly, Stop, world, statics
  <2> QED BY <2>1 DEF ConfirmInv, Described
<1>7. CASE CommitCopy
  <2>1. /\ uiAt = "copy" /\ uiAt' = "profiles" /\ players' = temp
        /\ UNCHANGED <<padOf, published, temp, changed>>
    BY <1>7 DEF CommitCopy, world, statics, session
  <2> QED BY <1>a, <2>1 DEF ConfirmInv, Described
<1>8. CASE CommitProfiles
  <2>1. /\ uiAt = "profiles" /\ uiAt' = "idle" /\ confirmed' = temp /\ players = temp
        /\ changed = (Described(temp) # published)
        /\ kbProfile' = {p \in Ports : KeyboardOnly(players[p])}
        /\ UNCHANGED <<padOf, players, published, changed, initialized, mainAt>>
    BY <1>8, <1>a DEF CommitProfiles, world, statics
  <2>2. mainAt = "events" /\ initialized
    BY <1>b, <2>1 DEF SeatInv, TypeInv, PlayersTypeOK
  <2>3. LiveSlots' = Described(temp)
    <3>1. players \in [Ports -> Players]
      BY DEF TypeInv, PlayersTypeOK
    <3>2. ASSUME NEW p \in Ports
          PROVE  (Assigned(temp[p]) /\ (temp[p].kb \/ p \in kbProfile')) = temp[p].kb
      <4>1. temp[p].kb \in BOOLEAN
        BY <2>1, <3>1 DEF Players
      <4>2. p \in kbProfile' <=> KeyboardOnly(temp[p])
        BY <2>1
      <4> QED BY <4>1, <4>2 DEF Assigned, KeyboardOnly
    <3>3. LiveOf(temp, kbProfile', padOf) = Described(temp)
      BY <3>2 DEF LiveOf, Described, PadOf
    <3> QED BY <2>1, <3>3, LiveShownNext
  <2>4. Knows'
    BY <2>1, SeatsKnown DEF Knows, TypeInv, PlayersTypeOK
  <2> QED BY <2>1, <2>2, <2>3, <2>4 DEF ConfirmInv, Pending
<1>9. CASE RefreshKeeps
  <2>1. /\ mainAt = "plan" /\ mainAt' = "events" /\ initialized /\ ~requested /\ uiAt = "idle"
        /\ UNCHANGED <<padOf, players, kbProfile, initialized, uiAt, confirmed>>
        /\ changed' = changed
        /\ preferred' = Base /\ legacy' = BaseLegacy
        /\ published' = IF ManualCommitSeen THEN LiveSlots ELSE published
    BY <1>9, <1>b DEF RefreshKeeps, Returns, Unchanged, Adopt, world, seats, TypeInv, PlayersTypeOK
  <2>2. LiveSlots' = LiveSlots
    BY <2>1, LiveStays
  <2>3. published' = LiveSlots'
    BY <2>1, <2>2 DEF ManualCommitSeen
  <2>4. changed => Taken' /\ Knows'
    BY <1>a, <2>1, BaseTaken DEF Taken, Knows, ConfirmedAt
  <2> QED BY <2>1, <2>3, <2>4 DEF ConfirmInv
<1>10. CASE RefreshPlans
  <2>1. /\ mainAt = "plan" /\ mainAt' = "apply" /\ uiAt = "idle" /\ uiAt' = "idle"
        /\ UNCHANGED <<padOf, initialized>>
        /\ changed' = (changed /\ ~requested)
        /\ ~requested => confirmed' = confirmed
    BY <1>10, <1>b DEF RefreshPlans, Adopt, world
  <2>2. ASSUME changed' PROVE initialized' /\ Knows' /\ Taken'
    <3>1. changed /\ ~requested /\ initialized /\ Knows
      BY <1>a, <2>1, <2>2
    <3> QED BY <1>10, <2>1, <3>1, PlanTaken DEF Knows
  <2> QED BY <2>1, <2>2 DEF ConfirmInv
<1>11. CASE RefreshApplies \/ RefreshPublishes
  <2>1. /\ mainAt \in {"apply", "publish"} /\ uiAt = "idle" /\ uiAt' = "idle"
        /\ UNCHANGED <<padOf, changed, confirmed, preferred, legacy>>
        /\ initialized => initialized'
    BY <1>11, <1>b DEF RefreshApplies, RefreshPublishes, Returns, world, statics
  <2>2. changed' => initialized' /\ Knows' /\ Taken'
    BY <1>a, <2>1 DEF Pending, Taken, Knows, ConfirmedAt
  <2>3. mainAt' \in {"events", "plan"} => LiveSlots' = published'
    <3>1. CASE RefreshApplies
      BY <3>1 DEF RefreshApplies
    <3>2. CASE RefreshPublishes
      <4>1. LiveSlots' = LiveSlots
        BY <2>1, <3>2, LiveStays DEF RefreshPublishes, seats
      <4> QED BY <3>2, <4>1 DEF RefreshPublishes
    <3> QED BY <1>11, <3>1, <3>2
  <2> QED BY <2>1, <2>2, <2>3 DEF ConfirmInv
<1>12. ~(UpdateControls \/ PressAddKeyboard \/ KeyboardSits)
  BY DEF UpdateControls, PressAddKeyboard, KeyboardSits, FrameInv
<1> QED BY <1>1, <1>2, <1>4, <1>5, <1>6, <1>7, <1>8, <1>9, <1>10, <1>11, <1>12 DEF Next, Commit, Refresh

LEMMA ConfirmAlways ==
    ASSUME ~SessionHotplug, ~Overlap
    PROVE  Spec => []ConfirmInv
<1>1. Init => ConfirmInv
  BY DEF Init, ConfirmInv
<1>2. TypeInv /\ SeatInv /\ FrameInv /\ FitInv /\ ConfirmInv /\ [Next]_vars /\ TypeInv' /\ SeatInv'
        => ConfirmInv'
  BY ConfirmInvStep
<1> QED BY <1>1, <1>2, FitAlways, PTL DEF Spec

\* A confirmed seating that changed something reserves every port for what it confirmed.
THEOREM ConfirmedSeatsStay ==
    ASSUME ~SessionHotplug, ~Overlap
    PROVE  Spec => []ChangedSeatsStay
<1>1. TypeInv /\ SeatInv /\ FitInv /\ ConfirmInv => ChangedSeatsStay
  <2> SUFFICES ASSUME TypeInv, SeatInv, FitInv, ConfirmInv, AtRest, changed PROVE ConfirmedHolds
    BY DEF ChangedSeatsStay
  <2>1. Knows /\ Taken
    BY DEF ConfirmInv, AtRest, Pending
  <2>2. \A p \in Ports : Fits(connected, padOf, PadAt(p), preferred[p])
    BY RestIs DEF Served
  <2> QED BY <2>1, <2>2 DEF ConfirmedHolds, Knows, Taken, Fits
<1> QED BY <1>1, FitAlways, ConfirmAlways, PTL

(* Hotplug moves nobody. *)

\* Claims over two scans, the second with only newer handles added.
Newer(S1, S2) == \A g \in S1, h \in S2 \ S1 : g < h

\* While the ports up to q keep their claims, a port claims what it did, or a newcomer it
\* had nothing to prefer to.
LEMMA ClaimsStable ==
    ASSUME NEW S1, NEW S2, S1 \subseteq Handles, S2 \subseteq Handles, Newer(S1, S2),
           NEW dev, NEW leg, NEW C1, NEW C2,
           Greedy(C1, leg, S1, dev), Greedy(C2, leg, S2, dev),
           NEW q \in Ports, \A r \in 0 .. q : C1[r] \in S2 \union {NoHandle}
    PROVE  \A r \in 0 .. q : C2[r] = C1[r] \/ (C1[r] = NoHandle /\ C2[r] \in S2 \ S1)
<1> DEFINE Moved == {r \in 0 .. q : ~(C2[r] = C1[r] \/ (C1[r] = NoHandle /\ C2[r] \in S2 \ S1))}
<1> SUFFICES ASSUME Moved # {} PROVE FALSE
  OBVIOUS
<1>0. /\ S1 \in SUBSET Nat /\ S2 \in SUBSET Nat
      /\ NoHandle \notin S1 /\ NoHandle \notin S2
  BY HandlesFinite
<1>1. PICK r \in Moved : \A s \in Moved : r <= s
  <2>1. Moved \in SUBSET Nat
    OBVIOUS
  <2> HIDE DEF Moved
  <2> QED BY <2>1, LeastNatural
<1>2. r \in Ports /\ q \in Nat /\ r \in Nat /\ r <= q
  BY SessionAssumption DEF Ports
<1>3. ASSUME NEW s \in 0 .. r - 1
      PROVE  s \in Ports /\ (C2[s] = C1[s] \/ (C1[s] = NoHandle /\ C2[s] \in S2 \ S1))
  <2>1. s \in 0 .. q /\ s < r
    BY <1>2
  <2>2. s \notin Moved
    BY <1>1, <2>1
  <2> QED BY <1>2, <2>1, <2>2, SessionAssumption DEF Ports
<1>4. /\ Free(C1, leg, S1, dev, r) = {} => C1[r] = NoHandle
      /\ Free(C1, leg, S1, dev, r) # {} =>
            C1[r] \in Free(C1, leg, S1, dev, r) /\ \A h \in Free(C1, leg, S1, dev, r) : C1[r] <= h
      /\ Free(C2, leg, S2, dev, r) = {} => C2[r] = NoHandle
      /\ Free(C2, leg, S2, dev, r) # {} =>
            C2[r] \in Free(C2, leg, S2, dev, r) /\ \A h \in Free(C2, leg, S2, dev, r) : C2[r] <= h
  BY <1>2 DEF Greedy
<1>5. ASSUME NEW h \in S1, h \in Free(C2, leg, S2, dev, r) PROVE h \in Free(C1, leg, S1, dev, r)
  <2>1. ASSUME NEW s \in 0 .. r - 1 PROVE C1[s] # h
    BY <1>0, <1>3, <1>5 DEF Free
  <2> QED BY <1>5, <2>1 DEF Free
<1>6. ASSUME NEW h \in S2, h \in Free(C1, leg, S1, dev, r) PROVE h \in Free(C2, leg, S2, dev, r)
  <2>1. ASSUME NEW s \in 0 .. r - 1 PROVE C2[s] # h
    BY <1>3, <1>6 DEF Free
  <2> QED BY <1>6, <2>1 DEF Free
<1>7. CASE Free(C1, leg, S1, dev, r) # {}
  <2>1. C1[r] \in S1 /\ C1[r] \in S2 /\ C1[r] \in Free(C2, leg, S2, dev, r)
    <3>1. C1[r] \in S1 /\ C1[r] \in Free(C1, leg, S1, dev, r)
      BY <1>4, <1>7 DEF Free
    <3>2. C1[r] \in S2
      BY <1>0, <1>1, <3>1
    <3> QED BY <1>6, <3>1, <3>2
  <2>2. C2[r] \in S2 /\ C2[r] <= C1[r] /\ C2[r] \in Free(C2, leg, S2, dev, r)
    BY <1>4, <2>1 DEF Free
  <2>3. C1[r] \in Nat /\ C2[r] \in Nat
    BY <1>0, <2>1, <2>2
  <2>4. C2[r] \in S1
    <3>1. ~(C1[r] < C2[r])
      BY <2>2, <2>3
    <3> QED BY <2>1, <2>2, <3>1 DEF Newer
  <2>5. C1[r] <= C2[r]
    BY <1>4, <1>5, <2>2, <2>4
  <2>6. C1[r] = C2[r]
    BY <2>2, <2>3, <2>5
  <2> QED BY <1>1, <2>6
<1>8. CASE Free(C1, leg, S1, dev, r) = {}
  <2>1. C1[r] = NoHandle /\ C2[r] # NoHandle
    BY <1>1, <1>4, <1>8
  <2>2. C2[r] \in Free(C2, leg, S2, dev, r) /\ C2[r] \in S2
    BY <1>4, <2>1 DEF Free
  <2>3. C2[r] \notin S1
    BY <1>5, <1>8, <2>2
  <2> QED BY <1>1, <2>1, <2>2, <2>3
<1> QED BY <1>7, <1>8

\* A claimed handle that is still there is claimed again, by its port or a lower one.
LEMMA ClaimsKept ==
    ASSUME NEW S1, NEW S2, S1 \subseteq Handles, S2 \subseteq Handles, Newer(S1, S2),
           NEW dev, NEW leg, NEW C1, NEW C2,
           Greedy(C1, leg, S1, dev), Greedy(C2, leg, S2, dev),
           NEW p \in Ports, C1[p] # NoHandle, C1[p] \in S2
    PROVE  \E q \in 0 .. p : C2[q] = C1[p]
<1> DEFINE Lost == {s \in Ports : C1[s] # NoHandle /\ C1[s] \in S2 /\ \A q \in 0 .. s : C2[q] # C1[s]}
<1> SUFFICES ASSUME Lost # {} PROVE FALSE
  OBVIOUS
<1>0. S1 \in SUBSET Nat /\ S2 \in SUBSET Nat /\ NoHandle \notin S2
  BY HandlesFinite
<1>1. PICK r \in Lost : \A s \in Lost : r <= s
  <2>1. Lost \in SUBSET Nat
    BY DEF Ports
  <2> HIDE DEF Lost
  <2> QED BY <2>1, LeastNatural
<1>2. r \in Ports /\ r \in Nat
  BY DEF Ports
<1>3. C1[r] \in Free(C1, leg, S1, dev, r) /\ \A h \in Free(C1, leg, S1, dev, r) : C1[r] <= h
  BY <1>1, <1>2 DEF Greedy
<1>4. C1[r] \in S1 /\ C1[r] \in S2 /\ dev[C1[r]] \in leg[r]
  BY <1>1, <1>3 DEF Free
<1>5. C1[r] \in Free(C2, leg, S2, dev, r)
  <2>1. \A q \in 0 .. r - 1 : C2[q] # C1[r]
    BY <1>1, <1>2
  <2> QED BY <1>4, <2>1 DEF Free
<1>6. C2[r] \in Free(C2, leg, S2, dev, r) /\ C2[r] <= C1[r]
  BY <1>2, <1>5 DEF Greedy
<1>7. C2[r] # C1[r] /\ C2[r] \in S2 /\ C2[r] \in Nat /\ C1[r] \in Nat
  <2>1. C2[r] \in S2
    BY <1>6 DEF Free
  <2>2. r \in 0 .. r
    BY <1>2
  <2>3. C2[r] # C1[r]
    BY <1>1, <2>2
  <2> QED BY <1>0, <1>4, <2>1, <2>3
<1>8. C2[r] \in S1
  BY <1>4, <1>6, <1>7 DEF Newer
<1>9. C2[r] \notin Free(C1, leg, S1, dev, r)
  BY <1>3, <1>6, <1>7
<1>10. PICK s \in 0 .. r - 1 : C1[s] = C2[r]
  BY <1>6, <1>8, <1>9 DEF Free
<1>11. s \in Ports /\ s < r /\ s \notin Lost
  <2>1. s \in Ports /\ s < r
    BY <1>2, SessionAssumption DEF Ports
  <2>2. s \in Nat
    BY <1>2
  <2> QED BY <1>1, <1>2, <2>1, <2>2
<1>12. PICK q \in 0 .. s : C2[q] = C1[s]
  BY <1>0, <1>7, <1>10, <1>11
<1>13. q \in 0 .. r - 1
  BY <1>2, <1>11
<1> QED BY <1>6, <1>10, <1>12, <1>13 DEF Free

\* The claims are settled by the pads of the scan.
LEMMA ClaimsSame ==
    ASSUME NEW S \in SUBSET Handles, NEW leg, NEW dev, NEW dev2, \A h \in S : dev2[h] = dev[h]
    PROVE  LegacyClaims(leg, S, dev2) = LegacyClaims(leg, S, dev)
<1> DEFINE C1 == LegacyClaims(leg, S, dev)
           C2 == LegacyClaims(leg, S, dev2)
<1>1. Greedy(C1, leg, S, dev) /\ Greedy(C2, leg, S, dev2)
  BY ClaimsAreGreedy
<1> HIDE DEF C1, C2
<1>2. \A p \in Ports : Free(C2, leg, S, dev, p) = Free(C2, leg, S, dev2, p)
  BY DEF Free
<1>3. Greedy(C2, leg, S, dev)
  BY <1>1, <1>2 DEF Greedy
<1>4. Newer(S, S)
  BY DEF Newer
<1>5. ASSUME NEW p \in Ports PROVE C2[p] = C1[p]
  <2>1. p \in 0 .. p /\ 0 .. p \subseteq Ports
    BY SessionAssumption DEF Ports
  <2>2. \A r \in 0 .. p : C1[r] \in S \union {NoHandle}
    BY <1>1, <2>1 DEF Greedy
  <2>3. \A r \in 0 .. p : C2[r] = C1[r] \/ (C1[r] = NoHandle /\ C2[r] \in S \ S)
    BY <1>1, <1>3, <1>4, <2>2, ClaimsStable
  <2> QED BY <2>1, <2>3
<1>6. C1 = [p \in Ports |-> C1[p]] /\ C2 = [p \in Ports |-> C2[p]]
  BY <1>1 DEF Greedy
<1>7. C2 = C1
  BY <1>5, <1>6
<1> QED BY <1>7 DEF C1, C2

\* The named ports have the pads of their claims, and are reserved.
Claimed(S, pads) ==
    \A p \in Ports : legacy[p] # {} => pads[p] = PadOf(padOf, LegacyClaims(legacy, S, padOf)[p])

ClaimInv ==
    /\ Newer(assignedIds, connected)
    /\ \A p \in Ports : legacy[p] # {} => preferred[p].reserved
    /\ initialized /\ mainAt \in {"events", "plan"} => Claimed(assignedIds, Shown)
    /\ mainAt = "apply" => Claimed(scan, PadsOf(plan))
    /\ mainAt = "publish" => Claimed(scan, PadsOf(players))

LEMMA NamedReserved ==
    ASSUME TypeInv, ClaimInv, NEW p \in Ports, BaseLegacy[p] # {}
    PROVE  Base[p].reserved
<1>1. CASE requested
  BY <1>1 DEF BaseLegacy, NoLegacy
<1>2. CASE ~requested /\ ~initialized
  <2>1. Base = FirstPreferred /\ BaseLegacy = FirstLegacy
    BY <1>2 DEF Base, BaseLegacy, ManualCommitSeen
  <2>2. CASE layout # NoLayout
    BY <2>1, <2>2 DEF FirstPreferred, EmptySlot
  <2>3. CASE layout = NoLayout /\ imported # NoImport
    <3>1. imported \in [Ports -> ImportedPorts] /\ imported[p].pads # {}
      BY <2>1, <2>3, AssignmentAssumption DEF TypeInv, FirstLegacy
    <3>2. imported[p].used
      BY <3>1 DEF ImportedPorts
    <3> QED BY <2>1, <2>3, <3>2 DEF FirstPreferred, EmptySlot
  <2>4. CASE layout = NoLayout /\ imported = NoImport
    BY <2>1, <2>4 DEF FirstLegacy, NoLegacy
  <2> QED BY <2>2, <2>3, <2>4
<1>3. CASE ~requested /\ initialized /\ ManualCommitSeen
  BY <1>3 DEF Base, Adopted
<1>4. CASE ~requested /\ initialized /\ ~ManualCommitSeen
  BY <1>4 DEF Base, BaseLegacy, ClaimInv
<1> QED BY <1>1, <1>2, <1>3, <1>4

\* A refresh seats each named port's claim.
LEMMA PlansClaimed ==
    ASSUME TypeInv, SeatInv, ClaimInv, RefreshPlans, NEW p \in Ports, BaseLegacy[p] # {}
    PROVE  /\ PadOf(padOf, plan'[p].ctl) = PadOf(padOf, LegacyClaims(BaseLegacy, scan, padOf)[p])
           /\ preferred'[p].reserved
<1> DEFINE resolved == ResolveLegacy(Base, BaseLegacy, scan, padOf)
           pl == Placed(resolved, scan, padOf)
           claim == LegacyClaims(BaseLegacy, scan, padOf)
<1>0. Scanned(scan, padOf)
  BY DEF TypeInv, ScansFit
<1>b. /\ Base \in [Ports -> Slots] /\ BaseLegacy \in [Ports -> SUBSET Pads] /\ OnePad(Base)
      /\ Base[p].reserved
  BY BaseType, BaseApart, NamedReserved
<1>1. /\ resolved \in [Ports -> Slots]
      /\ resolved[p].reserved = Base[p].reserved
      /\ resolved[p].ctl = PadOf(padOf, claim[p])
  <2> HIDE DEF resolved, claim
  <2>1. resolved = ResolveLegacy(Base, BaseLegacy, scan, padOf) /\ claim = LegacyClaims(BaseLegacy, scan, padOf)
    BY DEF resolved, claim
  <2>2. /\ resolved \in [Ports -> Slots]
        /\ \A q \in Ports : resolved[q].reserved = Base[q].reserved
        /\ \A q \in Ports : BaseLegacy[q] # {} => resolved[q].ctl = PadOf(padOf, claim[q])
    BY <1>0, <1>b, <2>1, ResolveIs
  <2> QED BY <2>2
<1>2. OnePad(resolved)
  BY <1>0, <1>b, ResolveApart
<1>3. /\ plan' = Seated(Reconcile(resolved, scan, padOf))
      /\ preferred' = Remembered(resolved, scan, padOf)
  BY DEF RefreshPlans
<1>4. claim[p] # NoHandle => claim[p] \in scan
  <2>1. Greedy(claim, BaseLegacy, scan, padOf)
    BY <1>0, ClaimsAreGreedy DEF Scanned
  <2> HIDE DEF claim
  <2> QED BY <2>1 DEF Greedy
<1> HIDE DEF resolved, claim
<1>5. pl = Placed(resolved, scan, padOf)
  BY DEF pl
<1> HIDE DEF pl
<1>6. /\ PadOf(padOf, plan'[p].ctl) = pl[p]
      /\ preferred'[p].reserved = resolved[p].reserved
      /\ Present(scan, padOf, resolved[p].ctl) => pl[p] = resolved[p].ctl
      /\ resolved[p].reserved /\ ~Present(scan, padOf, resolved[p].ctl) => pl[p] = NoPad
  BY <1>0, <1>1, <1>2, <1>3, <1>5, SeatedIs, RememberedIs, PlacedIs
<1>7. pl[p] = PadOf(padOf, claim[p])
  <2>1. CASE claim[p] = NoHandle
    <3>1. resolved[p].ctl = NoPad /\ ~Present(scan, padOf, NoPad)
      BY <1>0, <1>1, <2>1, PresentIsPad DEF PadOf
    <3> QED BY <1>1, <1>6, <1>b, <2>1, <3>1 DEF PadOf
  <2>2. CASE claim[p] # NoHandle
    BY <1>1, <1>4, <1>6, <2>2 DEF PadOf, Present
  <2> QED BY <2>1, <2>2
<1> QED BY <1>1, <1>6, <1>7, <1>b DEF claim

\* The claims of the pads there were, once a pad is plugged in.
LEMMA ClaimedMore ==
    ASSUME TypeInv, Len(padOf) < MaxPlugs, NEW pad \in Pads, NEW dev2, dev2 = Append(padOf, pad),
           NEW pads, Claimed(assignedIds, pads)
    PROVE  \A p \in Ports : legacy[p] # {} =>
                pads[p] = PadOf(dev2, LegacyClaims(legacy, assignedIds, dev2)[p])
<1> SUFFICES ASSUME NEW p \in Ports, legacy[p] # {}
             PROVE  pads[p] = PadOf(dev2, LegacyClaims(legacy, assignedIds, dev2)[p])
  OBVIOUS
<1> DEFINE C1 == LegacyClaims(legacy, assignedIds, padOf)
           C2 == LegacyClaims(legacy, assignedIds, dev2)
<1>1. Scanned(assignedIds, padOf)
  BY DEF TypeInv, ScansFit
<1>2. \A h \in assignedIds : dev2[h] = padOf[h]
  BY <1>1, ScannedMore DEF Scanned
<1>3. C2[p] = C1[p]
  <2>1. assignedIds \in SUBSET Handles
    BY <1>1 DEF Scanned
  <2>2. LegacyClaims(legacy, assignedIds, dev2)[p] = LegacyClaims(legacy, assignedIds, padOf)[p]
    BY <1>2, <2>1, ClaimsSame
  <2> QED BY <2>2
<1>4. C1[p] \in assignedIds \union {NoHandle}
  <2>1. Greedy(C1, legacy, assignedIds, padOf)
    BY <1>1, ClaimsAreGreedy DEF Scanned
  <2> HIDE DEF C1
  <2> QED BY <2>1 DEF Greedy
<1>5. pads[p] = PadOf(padOf, C1[p])
  BY DEF Claimed
<1> HIDE DEF C1, C2
<1>6. pads[p] = PadOf(dev2, C2[p])
  BY <1>2, <1>3, <1>4, <1>5 DEF PadOf
<1> QED BY <1>6 DEF C2

LEMMA ClaimInvStep == TypeInv /\ SeatInv /\ FrameInv /\ ClaimInv /\ [Next]_vars => ClaimInv'
<1> SUFFICES ASSUME TypeInv, SeatInv, FrameInv, ClaimInv, [Next]_vars PROVE ClaimInv'
  OBVIOUS
<1>a. /\ Newer(assignedIds, connected)
      /\ \A p \in Ports : legacy[p] # {} => preferred[p].reserved
      /\ initialized /\ mainAt \in {"events", "plan"} => Claimed(assignedIds, Shown)
      /\ mainAt = "apply" => Claimed(scan, PadsOf(plan))
      /\ mainAt = "publish" => Claimed(scan, PadsOf(players))
  BY DEF ClaimInv
<1>1. ASSUME NEW pad \in Pads, Plug(pad) PROVE ClaimInv'
  <2>1. /\ mainAt = "events" /\ mainAt' = "events" /\ Len(padOf) < MaxPlugs
        /\ padOf' = Append(padOf, pad) /\ connected' = connected \union {Len(padOf) + 1}
        /\ UNCHANGED <<initialized, assignedIds, preferred, published, legacy>>
    BY <1>1 DEF Plug, statics
  <2>2. Newer(assignedIds', connected')
    <3>1. padOf \in Seq(Pads) /\ \A g \in assignedIds : g \in DOMAIN padOf
      BY DEF TypeInv, ScansFit, Scanned
    <3>2. \A g \in assignedIds : g < Len(padOf) + 1
      BY <3>1
    <3> QED BY <1>a, <2>1, <3>2 DEF Newer
  <2>3. Shown' = Shown
    BY <2>1 DEF Shown
  <2>4. initialized' => Claimed(assignedIds, Shown)'
    <3>1. initialized => Claimed(assignedIds, Shown)
      BY <1>a, <2>1
    <3>2. initialized => \A p \in Ports : legacy'[p] # {} =>
                Shown[p] = PadOf(padOf', LegacyClaims(legacy', assignedIds, padOf')[p])
      <4> DEFINE dev2 == Append(padOf, pad)
      <4>1. dev2 = Append(padOf, pad)
        OBVIOUS
      <4> HIDE DEF dev2
      <4>2. initialized => \A p \in Ports : legacy[p] # {} =>
                Shown[p] = PadOf(dev2, LegacyClaims(legacy, assignedIds, dev2)[p])
        BY <2>1, <3>1, <4>1, ClaimedMore
      <4> QED BY <2>1, <4>1, <4>2
    <3>3. initialized' => \A p \in Ports : legacy'[p] # {} =>
                Shown'[p] = PadOf(padOf', LegacyClaims(legacy', assignedIds', padOf')[p])
      BY <2>1, <2>3, <3>2
    <3> QED BY <3>3 DEF Claimed
  <2> QED BY <1>a, <2>1, <2>2, <2>4 DEF ClaimInv
<1>2. ASSUME NEW h \in connected, Unplug(h) PROVE ClaimInv'
  <2>1. /\ mainAt = "events" /\ mainAt' = "events" /\ connected' = connected \ {h}
        /\ UNCHANGED <<padOf, initialized, assignedIds, preferred, published, legacy>>
    BY <1>2 DEF Unplug, statics
  <2> QED BY <1>a, <2>1 DEF ClaimInv, Newer, Claimed, Shown
<1>3. CASE Relaunch
  BY <1>3 DEF Relaunch, ClaimInv, Newer, NoLegacy
<1>4. ASSUME UNCHANGED <<mainAt, plan, scan, padOf, connected, initialized, assignedIds, preferred,
                         published, legacy>>,
             mainAt = "publish" => UNCHANGED players
      PROVE  ClaimInv'
  BY <1>4, <1>a DEF ClaimInv, Newer, Claimed, Shown, PadsOf
<1>5. CASE \/ ChangeProfile \/ OpenDialog \/ UpdateControls \/ PressButton \/ PressAddKeyboard
           \/ KeyboardSits \/ DialogEvent \/ PressAutoConfigure \/ CommitStop \/ CommitProfiles
           \/ UNCHANGED vars
  <2>1. UNCHANGED <<mainAt, plan, players, scan, padOf, connected, initialized, assignedIds, preferred,
                    published, legacy>>
    BY <1>5 DEF OpenDialog, UpdateControls, PressButton, PressAddKeyboard, KeyboardSits, DialogEvent,
                CommitStop, CommitProfiles,
                PressAutoConfigure, ChangeProfile, UiOnly, vars, world, statics, seats
  <2> QED BY <1>4, <2>1
<1>6. CASE CommitCopy
  <2>1. UNCHANGED <<mainAt, plan, scan, padOf, connected, initialized, assignedIds, preferred,
                    published, legacy>>
    BY <1>6 DEF CommitCopy, world, statics
  <2>2. mainAt # "publish"
    BY <1>6 DEF CommitCopy, FrameInv
  <2> QED BY <1>4, <2>1, <2>2
<1>7. CASE BeginRefresh \/ RefreshWaits
  <2>1. /\ mainAt \in {"events", "plan"} /\ mainAt' \in {"events", "plan"}
        /\ UNCHANGED <<padOf, connected, initialized, assignedIds, preferred, published, legacy>>
    BY <1>7 DEF BeginRefresh, RefreshWaits, Returns, world, statics
  <2> QED BY <1>a, <2>1 DEF ClaimInv, Newer, Claimed, Shown
<1>8. CASE RefreshKeeps
  <2>1. /\ mainAt = "plan" /\ mainAt' = "events" /\ initialized
        /\ UNCHANGED <<padOf, connected, initialized, assignedIds>>
        /\ preferred' = Base /\ legacy' = BaseLegacy
        /\ published' = IF ManualCommitSeen THEN LiveSlots ELSE published
    BY <1>8 DEF RefreshKeeps, Returns, Unchanged, Adopt, world
  <2>2. \A p \in Ports : legacy'[p] # {} => preferred'[p].reserved
    BY <2>1, NamedReserved
  <2>3. Claimed(assignedIds, Shown)'
    <3>1. CASE BaseLegacy = NoLegacy
      BY <2>1, <3>1 DEF Claimed, NoLegacy
    <3>2. CASE BaseLegacy # NoLegacy
      <4>1. legacy' = legacy /\ published' = published
        BY <2>1, <3>2 DEF BaseLegacy
      <4> QED BY <1>a, <2>1, <4>1 DEF Claimed, Shown
    <3> QED BY <3>1, <3>2
  <2> QED BY <1>a, <2>1, <2>2, <2>3 DEF ClaimInv, Newer
<1>9. CASE RefreshPlans
  <2>1. /\ mainAt' = "apply" /\ UNCHANGED <<padOf, connected, scan, assignedIds>>
        /\ legacy' = BaseLegacy
    BY <1>9 DEF RefreshPlans, Adopt, world
  <2>2. \A p \in Ports : legacy'[p] # {} =>
            /\ PadOf(padOf, plan'[p].ctl) = PadOf(padOf, LegacyClaims(BaseLegacy, scan, padOf)[p])
            /\ preferred'[p].reserved
    BY <1>9, <2>1, PlansClaimed
  <2>3. Claimed(scan, PadsOf(plan))'
    BY <2>1, <2>2 DEF Claimed, PadsOf
  <2> QED BY <1>a, <2>1, <2>2, <2>3 DEF ClaimInv, Newer
<1>10. CASE RefreshApplies
  <2>1. /\ mainAt = "apply" /\ mainAt' = "publish" /\ ~assigning
        /\ UNCHANGED <<padOf, connected, scan, assignedIds, preferred, legacy>>
    BY <1>10 DEF RefreshApplies, world, statics, FrameInv
  <2>2. players' = plan
    BY <1>10, <2>1 DEF RefreshApplies
  <2> QED BY <1>a, <2>1, <2>2 DEF ClaimInv, Newer, Claimed, PadsOf
<1>11. CASE RefreshPublishes
  <2>1. /\ mainAt = "publish" /\ mainAt' = "events" /\ assignedIds' = scan /\ published' = LiveSlots
        /\ UNCHANGED <<padOf, connected, preferred, legacy>>
    BY <1>11 DEF RefreshPublishes, Returns, world
  <2>2. scan = connected
    BY <2>1 DEF SeatInv
  <2>3. Shown' = PadsOf(players)
    BY <2>1, LiveIs DEF Shown, PadsOf
  <2> QED BY <1>a, <2>1, <2>2, <2>3 DEF ClaimInv, Newer, Claimed
<1> QED BY <1>1, <1>2, <1>3, <1>5, <1>6, <1>7, <1>8, <1>9, <1>10, <1>11 DEF Next, Commit, Refresh

\* What the live seats of the ports are, unless a confirmed dialog has just changed them.
LEMMA SeatClaims ==
    ASSUME TypeInv, SeatInv, FitInv, ClaimInv, mainAt = "plan", initialized, ~ManualCommitSeen, NEW p \in Ports
    PROVE  /\ players[p].ctl \in assignedIds \union {NoHandle}
           /\ players[p].ctl # NoHandle => preferred[p].ctl = padOf[players[p].ctl]
           /\ legacy[p] # {} => players[p].ctl = LegacyClaims(legacy, assignedIds, padOf)[p]
<1> DEFINE C == LegacyClaims(legacy, assignedIds, padOf)
<1>1. Scanned(assignedIds, padOf)
  BY DEF TypeInv, ScansFit
<1>2. players[p].ctl \in assignedIds \union {NoHandle}
  BY DEF SeatInv, Apart, Home
<1>3. Shown[p] = PadOf(padOf, players[p].ctl)
  BY LiveIs DEF ManualCommitSeen, Shown
<1>4. ~Present(assignedIds, padOf, NoPad) /\ \A h \in assignedIds : padOf[h] # NoPad
  BY <1>1, PolicyAssumption DEF Scanned, Present
<1>5. players[p].ctl # NoHandle => preferred[p].ctl = padOf[players[p].ctl]
  <2>1. Fits(assignedIds, padOf, Shown[p], preferred[p])
    BY DEF FitInv, Served
  <2> QED BY <1>2, <1>3, <1>4, <2>1 DEF Fits, PadOf
<1>6. C[p] \in assignedIds \union {NoHandle}
  <2>1. Greedy(C, legacy, assignedIds, padOf)
    BY <1>1, ClaimsAreGreedy DEF Scanned
  <2> HIDE DEF C
  <2> QED BY <2>1 DEF Greedy
<1>7. legacy[p] # {} => Shown[p] = PadOf(padOf, C[p])
  BY DEF ClaimInv, Claimed
<1> HIDE DEF C
<1>8. legacy[p] # {} => players[p].ctl = C[p]
  BY <1>1, <1>2, <1>3, <1>4, <1>6, <1>7 DEF PadOf, Scanned
<1> QED BY <1>2, <1>5, <1>8 DEF C

\* A survivor that a port claims, and did not before, is claimed because a pad is gone.
LEMMA ClaimMeansLost ==
    ASSUME TypeInv, SeatInv, FitInv, ClaimInv, mainAt = "plan", initialized, ~ManualCommitSeen,
           NEW h \in assignedIds, NEW q \in Ports, LegacyClaims(legacy, scan, padOf)[q] = h,
           LegacyClaims(legacy, assignedIds, padOf)[q] # h
    PROVE  NamedPortLost(q)
<1> DEFINE C1 == LegacyClaims(legacy, assignedIds, padOf)
           C2 == LegacyClaims(legacy, scan, padOf)
<1>0. assignedIds \subseteq Handles /\ scan \subseteq Handles /\ NoHandle \notin assignedIds
  BY HandlesFinite DEF TypeInv, ScansFit, Scanned
<1>1. Greedy(C1, legacy, assignedIds, padOf) /\ Greedy(C2, legacy, scan, padOf)
  BY <1>0, ClaimsAreGreedy
<1>2. Newer(assignedIds, scan)
  BY DEF SeatInv, ClaimInv
<1> SUFFICES ASSUME ~NamedPortLost(q) PROVE FALSE
  OBVIOUS
<1>3. ASSUME NEW r \in 0 .. q PROVE C1[r] \in scan \union {NoHandle}
  <2>1. r \in Ports
    BY SessionAssumption DEF Ports
  <2>2. CASE legacy[r] # {}
    <3>1. players[r].ctl \in scan \union {NoHandle}
      BY <2>2 DEF NamedPortLost
    <3>2. players[r].ctl = C1[r]
      BY <2>1, <2>2, SeatClaims
    <3> QED BY <3>1, <3>2
  <2>3. CASE legacy[r] = {}
    <3> HIDE DEF C1
    <3>1. C1[r] # NoHandle => padOf[C1[r]] \in legacy[r]
      BY <1>0, <1>1, <2>1, ClaimsApart
    <3> QED BY <2>3, <3>1
  <2> QED BY <2>2, <2>3
<1>4. C1[q] # h /\ C2[q] = h
  OBVIOUS
<1> HIDE DEF C1, C2
<1>5. \A r \in 0 .. q : C2[r] = C1[r] \/ (C1[r] = NoHandle /\ C2[r] \in scan \ assignedIds)
  BY <1>0, <1>1, <1>2, <1>3, ClaimsStable
<1>6. q \in 0 .. q
  BY SessionAssumption DEF Ports
<1> QED BY <1>4, <1>5, <1>6

LEMMA PlanKeeps ==
    ASSUME TypeInv, SeatInv, FitInv, ClaimInv, RefreshPlans, initialized, ~requested,
           NEW p \in Ports, players[p].ctl \in scan
    PROVE  \E q \in Ports :
                /\ plan'[q].ctl = players[p].ctl
                /\ q = p \/ (padOf[players[p].ctl] \in legacy[q] /\ NamedPortLost(q))
<1> DEFINE resolved == ResolveLegacy(Base, BaseLegacy, scan, padOf)
           pl == Placed(resolved, scan, padOf)
           h == players[p].ctl
<1>0. Scanned(scan, padOf) /\ Scanned(assignedIds, padOf) /\ mainAt = "plan"
  BY DEF TypeInv, ScansFit, RefreshPlans
<1>b. Base \in [Ports -> Slots] /\ BaseLegacy \in [Ports -> SUBSET Pads] /\ OnePad(Base)
  BY BaseType, BaseApart
<1>1. resolved \in [Ports -> Slots] /\ OnePad(resolved)
  BY <1>0, <1>b, ResolveIs, ResolveApart
<1>2. plan' = Seated(Reconcile(resolved, scan, padOf))
  BY DEF RefreshPlans
\* A port the pad is resolved to gets it.
<1>3. ASSUME NEW q \in Ports, resolved[q].ctl = padOf[h] PROVE plan'[q].ctl = h
  <2>1. Present(scan, padOf, resolved[q].ctl)
    BY <1>3 DEF Present
  <2> HIDE DEF resolved
  <2>2. pl = Placed(resolved, scan, padOf)
    BY DEF pl
  <2> HIDE DEF pl
  <2>3. pl[q] = resolved[q].ctl
    BY <1>0, <1>1, <2>1, <2>2, PlacedIs
  <2> QED BY <1>0, <1>1, <1>2, <1>3, <2>2, <2>3, SeatedIs
<1>h. h # NoHandle
  BY <1>0, HandlesFinite DEF Scanned
<1>4. CASE ManualCommitSeen
  <2>1. Base = Adopted /\ BaseLegacy = NoLegacy
    BY <1>4 DEF Base, BaseLegacy
  <2>2. Base[p].ctl = padOf[h]
    BY <1>h, <2>1, LiveIs DEF Adopted, PadOf
  <2>3. resolved[p].ctl = Base[p].ctl
    BY <1>0, <1>b, <2>1, ResolveNothing
  <2> QED BY <1>3, <2>2, <2>3
<1>5. CASE ~ManualCommitSeen
  <2> DEFINE C1 == LegacyClaims(legacy, assignedIds, padOf)
             C2 == LegacyClaims(legacy, scan, padOf)
  <2>1. Base = preferred /\ BaseLegacy = legacy
    BY <1>5 DEF Base, BaseLegacy
  <2>2. /\ h \in assignedIds /\ preferred[p].ctl = padOf[h]
        /\ legacy[p] # {} => C1[p] = h
    BY <1>0, <1>5, <1>h, SeatClaims
  <2>3. Greedy(C1, legacy, assignedIds, padOf) /\ Greedy(C2, legacy, scan, padOf)
    BY <1>0, ClaimsAreGreedy DEF Scanned
  <2>4. /\ \A q \in Ports : legacy[q] # {} => resolved[q].ctl = PadOf(padOf, C2[q])
        /\ legacy[p] = {} => \/ resolved[p].ctl = preferred[p].ctl
                             \/ \E q \in Ports : C2[q] # NoHandle /\ padOf[C2[q]] = preferred[p].ctl
    <3> HIDE DEF resolved, C2
    <3>1. resolved = ResolveLegacy(Base, BaseLegacy, scan, padOf) /\ C2 = LegacyClaims(BaseLegacy, scan, padOf)
      BY <2>1 DEF resolved, C2
    <3>2. /\ \A q \in Ports : BaseLegacy[q] # {} => resolved[q].ctl = PadOf(padOf, C2[q])
          /\ \A q \in Ports : BaseLegacy[q] = {} =>
                \/ resolved[q].ctl = Base[q].ctl
                \/ \E r \in Ports : C2[r] # NoHandle /\ padOf[C2[r]] = Base[q].ctl
      BY <1>0, <1>b, <3>1, ResolveIs
    <3> QED BY <2>1, <3>2
  <2>5. \A q \in Ports : C2[q] # NoHandle => C2[q] \in scan /\ padOf[C2[q]] \in legacy[q]
    <3> HIDE DEF C2
    <3> QED BY <1>0, <2>3, ClaimsApart DEF Scanned
  \* A port that claims the pad is the one.
  <2>6. ASSUME NEW q \in Ports, C2[q] = h, C1[q] # h \/ q = p
        PROVE  /\ plan'[q].ctl = h
               /\ q = p \/ (padOf[h] \in legacy[q] /\ NamedPortLost(q))
    <3>1. padOf[h] \in legacy[q]
      BY <1>h, <2>5, <2>6
    <3>2. resolved[q].ctl = padOf[h]
      <4> HIDE DEF resolved, C2
      <4> QED BY <1>h, <2>4, <2>6, <3>1 DEF PadOf
    <3>3. q # p => NamedPortLost(q)
      BY <1>0, <1>5, <2>2, <2>6, ClaimMeansLost
    <3> QED BY <1>3, <3>1, <3>2, <3>3
  <2>7. CASE legacy[p] # {}
    <3>1. C1[p] = h
      BY <2>2, <2>7
    <3>2. Newer(assignedIds, scan)
      BY <1>0 DEF SeatInv, ClaimInv
    <3> HIDE DEF C1, C2, h
    <3>3. PICK q \in 0 .. p : C2[q] = C1[p]
      <4>1. C1[p] # NoHandle /\ C1[p] \in scan
        BY <1>h, <3>1 DEF h
      <4> QED BY <1>0, <2>3, <3>2, <4>1, ClaimsKept DEF Scanned
    <3>4. q \in Ports
      BY SessionAssumption DEF Ports
    <3>5. q # p => C1[q] # C1[p]
      BY <1>0, <1>h, <2>3, <3>1, <3>4, ClaimsApart DEF Scanned
    <3> QED BY <2>6, <3>1, <3>3, <3>4, <3>5 DEF h
  <2>8. CASE legacy[p] = {}
    <3>1. CASE resolved[p].ctl = preferred[p].ctl
      BY <1>3, <2>2, <3>1
    <3>2. CASE resolved[p].ctl # preferred[p].ctl
      <4>1. PICK q \in Ports : C2[q] # NoHandle /\ padOf[C2[q]] = padOf[h]
        BY <2>2, <2>4, <2>8, <3>2
      <4>2. C2[q] = h /\ q # p
        BY <1>0, <2>5, <2>8, <4>1 DEF Scanned
      <4>3. legacy[q] # {}
        BY <2>5, <4>1
      <4>4. C1[q] # h
        <5>1. players[q].ctl = C1[q]
          BY <1>0, <1>5, <4>3, SeatClaims
        <5>2. players[q].ctl # players[p].ctl
          BY <1>h, <4>2 DEF SeatInv, Apart
        <5> QED BY <5>1, <5>2
      <4> QED BY <2>6, <4>2, <4>4
    <3> QED BY <3>1, <3>2
  <2> QED BY <2>7, <2>8
<1> QED BY <1>4, <1>5

LEMMA ClaimAlways ==
    ASSUME ~SessionHotplug, ~Overlap
    PROVE  Spec => []ClaimInv
<1>1. Init => ClaimInv
  BY DEF Init, ClaimInv, Newer, NoLegacy
<1> QED BY <1>1, FitAlways, ClaimInvStep, PTL DEF Spec

\* A refresh nobody asked for moves no pad that is still there, but to a port that input.json
\* names it for and that a lost pad has left to it: the claims of the ports below a loss,
\* and the handles SDL gives out later, change nothing above.
THEOREM HotplugMovesNobody ==
    ASSUME ~SessionHotplug, ~Overlap
    PROVE  Spec => SurvivorsStay
<1>1. TypeInv /\ SeatInv /\ FitInv /\ ClaimInv /\ [Next]_vars => [SurvivorKept]_vars
  <2> SUFFICES ASSUME TypeInv, SeatInv, FitInv, ClaimInv, Next,
                      mainAt = "plan", mainAt' = "apply", initialized, ~requested
               PROVE  SurvivorKept
    BY DEF SurvivorKept
  <2>1. RefreshPlans
    BY DEF Next, Plug, Unplug, ChangeProfile, Relaunch, OpenDialog, UpdateControls, PressButton,
           PressAddKeyboard, KeyboardSits, DialogEvent, Returns, PressAutoConfigure, Commit, CommitStop, CommitCopy, CommitProfiles, UiOnly, Refresh,
           BeginRefresh, RefreshWaits, RefreshKeeps, RefreshApplies, RefreshPublishes
  <2> QED BY <2>1, PlanKeeps DEF SurvivorKept
<1> QED BY <1>1, FitAlways, ClaimAlways, PTL DEF Spec, SurvivorsStay

(* The dialog in the game. *)

\* In the game too a player who joined in the dialog shares neither pad nor keyboard, whatever
\* seats input.json, hotplug and the refreshes had made: as long as the keyboard is not added by
\* a key and by the button at once.
THEOREM JoinersSoundInGame ==
    ASSUME ~Overlap
    PROVE  Spec => []JoinersSound
<1>1. Init => FrameInv /\ JoinersSound
  BY DEF Init, FrameInv, JoinersSound
<1>2. TypeInv /\ FrameInv /\ JoinersSound /\ [Next]_vars => JoinersSound'
  <2> SUFFICES ASSUME TypeInv, FrameInv, JoinersSound, [Next]_vars PROVE JoinersSound'
    OBVIOUS
  <2>0. SessionInv /\ players \in [Ports -> Players] /\ connected \subseteq Handles
    BY DEF TypeInv, PlayersTypeOK, SessionInv, SessionOrder, ScansFit, Scanned
  <2>1. CASE [SessionNext]_session
    BY <2>0, <2>1, JoinersStep
  <2>2. CASE Relaunch
    BY <2>2 DEF Relaunch, JoinersSound
  <2>3. CASE OpenDialog \/ PressButton \/ DialogEvent \/ CommitStop
    <3>1. [SessionNext]_session
      BY <2>0, <2>3 DEF OpenDialog, PressButton, DialogEvent, CommitStop, SessionNext, Edit
    <3> QED BY <2>1, <3>1
  <2>4. ~KeyboardSits
    BY DEF KeyboardSits, FrameInv
  <2>5. CASE UNCHANGED session
    BY <2>1, <2>5
  <2> QED
    BY <2>2, <2>3, <2>4, <2>5
    DEF Next, vars, Commit, Refresh, Plug, Unplug, ChangeProfile, PressAutoConfigure, CommitCopy,
        UpdateControls, PressAddKeyboard, CommitProfiles, BeginRefresh, RefreshWaits, RefreshKeeps,
        RefreshPlans, RefreshApplies, RefreshPublishes
<1> QED BY <1>1, <1>2, TypeAlways, FrameInvStep, PTL DEF Spec

\* Undo follows the player in the game too, whatever the refresh and hotplug do meanwhile.
THEOREM UndoFollowsInGame == Spec => []JoinOrderFollows
  BY TypeAlways, PTL DEF TypeInv
=================================================================================
