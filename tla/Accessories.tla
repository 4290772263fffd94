---------------------------- MODULE Accessories ----------------------------
(***************************************************************************)
(* What the emulated serial bus promises the game: a transaction addressed *)
(* to a port is carried out there, once and as a whole, by an accessory    *)
(* that was present, or it is refused, or it is lost and changes nothing.  *)
(***************************************************************************)
EXTENDS Naturals

CONSTANTS Ports, Bytes, NoOp

Kinds   == {"none", "controller", "rumble"}   \* what the settings put into a port
HasPak  == {"controller", "rumble"}
Spaces  == {"data", "identify", "gap", "motor"}

Pak    == [kind : {"read"}, port : Ports, space : Spaces, byte : {0}] \union
          [kind : {"write"}, port : Ports, space : Spaces, byte : Bytes]
Status == [kind : {"status"}, port : Ports, space : {"gap"}, byte : {0}]
Poll   == [kind : {"detect", "buttons"}, port : {0}, space : {"gap"}, byte : {0}]
Ops    == Pak \union Status \union Poll

Answer  == [kind : {"placeholder", "none", "error", "status", "data", "ack", "buttons"},
            byte : Bytes \union {0, 1, 128}]
Unanswered == [kind |-> "placeholder", byte |-> 0]
Say(k, b)  == [kind |-> k, byte |-> b]

VARIABLES
    connected, \* a pad is assigned to each port
    pak,       \* the accessory each port has in the settings
    bank,      \* the identify register of each port, as last written
    motor,     \* whether each port's motor was last told to run
    save,      \* a block of each port's save pak
    op,        \* the transaction the game is in
    seen,      \* how much of each port the transaction has seen
    answers    \* what the game will read for each port

avars    == <<connected, pak, bank, motor, save, op, seen, answers>>
settings == <<connected, pak>>
stores   == <<bank, motor, save>>

\* A port is found plugged in, its transaction is admitted, and the accessory that is to
\* perform it is looked up: three looks, between which the player may change anything.
Unseen == [p \in Ports |-> "unknown"]
Seen   == {"unknown", "plugged", "admitted"} \union Kinds

Init ==
    /\ connected \in [Ports -> BOOLEAN]
    /\ pak \in [Ports -> Kinds]
    /\ bank = [p \in Ports |-> 0]
    /\ motor = [p \in Ports |-> FALSE]
    /\ save \in [Ports -> Bytes \union {0}]
    /\ op = NoOp /\ seen = Unseen
    /\ answers = [p \in Ports |-> Unanswered]

-----------------------------------------------------------------------------
(* The player.                                                             *)

Assign(p) ==
    /\ connected' = [connected EXCEPT ![p] = ~@]
    /\ UNCHANGED <<pak, stores, op, seen, answers>>

SetPak(p, a) ==
    /\ pak' = [pak EXCEPT ![p] = a]
    /\ UNCHANGED <<connected, stores, op, seen, answers>>

-----------------------------------------------------------------------------
(* The game, and how a port takes its transaction.                         *)

Ask(o) ==
    /\ op = NoOp
    /\ op' = o
    /\ answers' = [p \in Ports |-> Unanswered]
    /\ UNCHANGED <<settings, stores, seen>>

Finish ==
    /\ op # NoOp /\ seen = Unseen
    /\ op' = NoOp
    /\ answers' = [p \in Ports |-> Unanswered]
    /\ UNCHANGED <<settings, stores, seen>>

Asks(o) == IF o \in Poll THEN Ports ELSE {o.port}

\* A port that is asked and has not answered, as far as it has been looked at.
Waits(p, s) == op # NoOp /\ p \in Asks(op) /\ answers[p] = Unanswered /\ seen[p] = s

\* What a look at a port's accessory finds: an unplugged one may show none.
Accessory(p) == {pak[p]} \union {a \in {"none"} : ~connected[p]}

Look(p, s) ==
    /\ seen' = [seen EXCEPT ![p] = s]
    /\ UNCHANGED <<settings, stores, op, answers>>

Tell(p, k, b) ==
    /\ answers' = [answers EXCEPT ![p] = Say(k, b)]
    /\ seen' = [seen EXCEPT ![p] = "unknown"]
    /\ UNCHANGED <<settings, op>>

Notice(p) == Waits(p, "unknown") /\ connected[p] /\ Look(p, "plugged")

Absent(p) ==
    /\ Waits(p, "unknown") /\ ~connected[p]
    /\ Tell(p, "none", 0)
    /\ UNCHANGED stores

\* The two looks are not one: a pad taken away between them is "there, without a pak".
TellStatus(p) == \E a \in Accessory(p) :
    /\ Waits(p, "plugged") /\ op.kind \in {"status", "detect"}
    /\ Tell(p, "status", IF a = "none" THEN 0 ELSE 1)
    /\ UNCHANGED stores

TellButtons(p) ==
    /\ Waits(p, "unknown") /\ op.kind = "buttons" /\ connected[p]
    /\ Tell(p, "buttons", 0)
    /\ UNCHANGED stores

Admit(p) ==
    /\ Waits(p, "plugged") /\ op \in Pak
    /\ Accessory(p) \intersect HasPak # {}
    /\ Look(p, "admitted")

Refuse(p) ==
    /\ Waits(p, "plugged") /\ op \in Pak
    /\ "none" \in Accessory(p)
    /\ Tell(p, "none", 0)
    /\ UNCHANGED stores

Lookup(p) == \E a \in Accessory(p) : Waits(p, "admitted") /\ Look(p, a)

-----------------------------------------------------------------------------
(* The accessory.                                                          *)

Perform(k, b) ==
    /\ op \in Pak /\ seen[op.port] \in Kinds
    /\ op.kind = "write" => k \in {"ack", "error"}
    /\ op.kind = "read" => k \in {"data", "error"}
    /\ Tell(op.port, k, b)

\* A failing save is an error that changes nothing; only a controller pak has a save.
DataRead == \E b \in Bytes \union {0} :
    /\ op.space = "data" /\ op.kind = "read"
    /\ b = IF seen[op.port] = "controller" THEN save[op.port] ELSE 0
    /\ Perform("data", b)
    /\ UNCHANGED stores

DataWrite ==
    /\ op.space = "data" /\ op.kind = "write"
    /\ Perform("ack", 0)
    /\ save' = [save EXCEPT ![op.port] = IF seen[op.port] = "controller" THEN op.byte ELSE @]
    /\ UNCHANGED <<bank, motor>>

DataError ==
    /\ op.space = "data" /\ seen[op.port] = "controller"
    /\ Perform("error", 0)
    /\ UNCHANGED stores

\* Large values read back as a rumble pak's 0x80, bank numbers as themselves.
IdentifyRead ==
    /\ op.space = "identify" /\ op.kind = "read"
    /\ Perform("data", IF bank[op.port] >= 128 THEN 128 ELSE bank[op.port])
    /\ UNCHANGED stores

IdentifyWrite ==
    /\ op.space = "identify" /\ op.kind = "write"
    /\ Perform("ack", 0)
    /\ bank' = [bank EXCEPT ![op.port] = op.byte]
    /\ UNCHANGED <<motor, save>>

MotorWrite ==
    /\ op.space = "motor" /\ op.kind = "write"
    /\ Perform("ack", 0)
    /\ motor' = [motor EXCEPT ![op.port] = op.byte # 0]
    /\ UNCHANGED <<bank, save>>

\* Blocks without a register read as zero and ignore writes.
Ignored ==
    /\ op.space = "gap" \/ (op.space = "motor" /\ op.kind = "read")
    /\ Perform(IF op.kind = "read" THEN "data" ELSE "ack", 0)
    /\ UNCHANGED stores

Next ==
    \/ \E p \in Ports : Assign(p) \/ \E a \in Kinds : SetPak(p, a)
    \/ \E o \in Ops : Ask(o)
    \/ \E p \in Ports : \/ Notice(p) \/ Absent(p) \/ TellStatus(p) \/ TellButtons(p)
                       \/ Admit(p) \/ Refuse(p) \/ Lookup(p)
    \/ Finish
    \/ DataRead \/ DataWrite \/ DataError
    \/ IdentifyRead \/ IdentifyWrite \/ MotorWrite \/ Ignored

Spec == Init /\ [][Next]_avars
=============================================================================
