------------------------------- MODULE JoyBus -------------------------------
(***************************************************************************)
(* The serial bus of src/src/main/os_unimpl_stubs.cpp: the game packs a    *)
(* frame into PIF RAM, starts a write DMA, waits for the SI event, starts  *)
(* a read DMA, which recognises the frame by its bytes and answers it      *)
(* there, and waits again.  Whether a port has a pad and which accessory   *)
(* the settings give it are looked up one after the other, twice for a pak *)
(* frame and port by port for a poll, and the player may change both       *)
(* between any two steps.  Data blocks are one byte, since the game fills  *)
(* the ones told apart here with one value.                                *)
(***************************************************************************)
EXTENDS Sequences, FiniteSets, Integers

CONSTANTS
    Bytes,       \* values the game writes into a block
    NoOp,        \* the game is in no transaction
    GamePorts,   \* ports the game addresses: all in the code
    PlayerPorts, \* ports the player changes: all in the code
    SiCapacity   \* messages the game's SI queue holds: 3 in the game

Ports == 0 .. 3

ASSUME JoyBusAssumption ==
    /\ Bytes \subseteq 0 .. 255
    /\ GamePorts \subseteq Ports /\ PlayerPorts \subseteq Ports
    /\ SiCapacity \in Nat \ {0}

VARIABLES
    connected, \* bar_port_connected of each port
    pak,       \* the accessory each port has in the settings
    bank,      \* g_detect_cell
    motor,     \* the on flag of bar::rumble's motor
    save,      \* what bar::input holds in a block of each save pak
    op,        \* the transaction the game is in
    frame,     \* PIF RAM as packed
    answers,   \* PIF RAM as the game will parse it, per port
    stage,     \* where the game thread is
    route,     \* the port being served, where its command is, and the accessory found
    lost,      \* the read DMA came with a corrupt address
    siQueue,   \* messages in the game's SI queue
    maxControllers   \* __osMaxControllers

\* What the read DMA has seen of the port it is serving, as Accessories puts it.
Knows == CASE stage \in {"connected", "checked"} -> "plugged"
           [] stage \in {"routed", "reached"}    -> "admitted"
           [] stage = "handling"                 -> route.pak
           [] OTHER                              -> "unknown"

SeenOf == [p \in Ports |-> IF p = route.port THEN Knows ELSE "unknown"]

A == INSTANCE Accessories WITH seen <- SeenOf

ASSUME NoOpAssumption == NoOp \notin A!Ops

settings == <<connected, pak>>
stores   == <<bank, motor, save>>
game     == <<op, frame>>
vars     == <<settings, stores, game, answers, stage, route, lost, siQueue, maxControllers>>

Stages  == {"idle", "packed", "sent", "ready", "polling", "connected", "checked",
            "routed", "reached", "handling", "served", "parsed"}
NoFrame == [head |-> <<>>, fill |-> 0, blocks |-> 0]
NoRoute == [port |-> 0, base |-> 0, pak |-> "none"]

Init ==
    /\ connected \in [Ports -> BOOLEAN]
    /\ pak \in [Ports -> A!Kinds]
    /\ \A p \in Ports \ PlayerPorts : connected[p] /\ pak[p] = "controller"
    /\ bank = [p \in Ports |-> 0]
    /\ motor = [p \in Ports |-> FALSE]
    /\ save = [p \in Ports |-> 0]
    /\ op = NoOp
    /\ frame = NoFrame
    /\ answers = [p \in Ports |-> A!Unanswered]
    /\ stage = "idle" /\ route = NoRoute /\ lost = FALSE
    /\ siQueue = 0 /\ maxControllers = 0

-----------------------------------------------------------------------------
(* Frames.  A poll has an eight-byte block per port; any other frame skips *)
(* to its channel with zero bytes and may put a dummy byte first.          *)

Skips(n) == [i \in 1 .. n |-> 0]

Address(space) == CASE space = "data"     -> <<0, 0>>
                    [] space = "identify" -> <<128, 0>>
                    [] space = "gap"      -> <<160, 0>>
                    [] space = "motor"    -> <<192, 0>>

Command(o) == CASE o.kind \in {"status", "detect"} -> <<1, 3, 0>>
                [] o.kind = "buttons" -> <<1, 4, 1>>
                [] o.kind = "read"    -> <<3, 33, 2>> \o Address(o.space)
                [] o.kind = "write"   -> <<35, 1, 3>> \o Address(o.space)

Encode(o, dummy) ==
    IF o \in A!Poll
    THEN [head |-> IF maxControllers = 0 THEN <<254>> \o [i \in 1 .. 7 |-> 255]
                   ELSE <<255>> \o Command(o) \o <<255, 255, 255, 255>>,
          fill |-> 255, blocks |-> maxControllers]
    ELSE [head |-> Skips(o.port) \o (IF dummy THEN <<255>> ELSE <<>>) \o Command(o),
          fill |-> IF o.kind = "write" THEN o.byte ELSE 255, blocks |-> 0]

Byte(k) ==
    LET n == IF frame.blocks > 0 THEN k % 8 ELSE k
    IN IF n < Len(frame.head) THEN frame.head[n + 1] ELSE frame.fill

Triple(k, tx, rx, cmd) == Byte(k) = tx /\ Byte(k + 1) = rx /\ Byte(k + 2) = cmd
PakCommand(k) == Triple(k, 3, 33, 2) \/ Triple(k, 35, 1, 3)
Zero(k)       == \A i \in 0 .. k - 1 : Byte(i) = 0

\* Mutant of ShortChannel: only the first port is recognised.
ShortChannelFirst == 0

\* The skip bytes, counted up to three.
ShortChannel == CHOOSE n \in Ports : Zero(n) /\ (n = 3 \/ Byte(n) # 0)

ShortStatus == Triple(ShortChannel, 1, 3, 0)
ShortPak    == PakCommand(ShortChannel)
DummyPak(ch) == PakCommand(ch + 1) /\ Zero(ch) /\ \A c \in 0 .. ch - 1 : ~PakCommand(c + 1) \/ ~Zero(c)

\* The three recognisers, in their order; base is where a dummy byte is, or would be.
IsPoll == ~ShortStatus /\ ~ShortPak /\ \A ch \in Ports : ~DummyPak(ch)

Addressed(port, base) ==
    \/ (ShortStatus \/ ShortPak) /\ port = ShortChannel /\ base = port - 1
    \/ ~ShortStatus /\ ~ShortPak /\ DummyPak(port) /\ base = port

PollCommand == Byte(8 * route.port + 3)

-----------------------------------------------------------------------------
(* The game thread: one transaction after the other.                       *)

Pack(o, dummy) ==
    /\ stage = "idle" /\ (o \in A!Poll \/ o.port \in GamePorts)
    /\ dummy => o \in A!Pak
    /\ op' = o
    /\ frame' = Encode(o, dummy)
    /\ answers' = [p \in Ports |-> A!Unanswered]
    /\ stage' = "packed"
    /\ UNCHANGED <<settings, stores, route, lost, siQueue, maxControllers>>

\* Mutant of Post: a full queue is not checked.
PostAlways == siQueue' = siQueue + 1 /\ maxControllers' = 4

\* send_si_message: what does not fit is dropped.  Every DMA also forces the count.
Post ==
    /\ siQueue' = IF siQueue < SiCapacity THEN siQueue + 1 ELSE siQueue
    /\ maxControllers' = 4

WriteDma ==
    /\ stage = "packed"
    /\ stage' = "sent"
    /\ Post
    /\ UNCHANGED <<settings, stores, game, answers, route, lost>>

Receive(from, to) ==
    /\ stage = from /\ siQueue > 0
    /\ siQueue' = siQueue - 1
    /\ stage' = to
    /\ UNCHANGED <<settings, stores, game, answers, route, lost, maxControllers>>

\* The game may go on without draining the queue.
Skip ==
    /\ stage = "served"
    /\ stage' = "parsed"
    /\ UNCHANGED <<settings, stores, game, answers, route, lost, siQueue, maxControllers>>

\* What is in PIF RAM no longer matters: the next frame is packed over it.
Parse ==
    /\ stage = "parsed"
    /\ op' = NoOp /\ frame' = NoFrame
    /\ answers' = [p \in Ports |-> A!Unanswered]
    /\ stage' = "idle" /\ lost' = FALSE
    /\ UNCHANGED <<settings, stores, route, siQueue, maxControllers>>

-----------------------------------------------------------------------------
(* __osSiRawStartDma, reading.  First it asks whether the port is there.   *)

Served == stage' = "served" /\ route' = NoRoute /\ Post

\* A corrupt buffer address: the event is posted and nothing is touched.
ReadLost ==
    /\ stage = "ready"
    /\ lost' = TRUE
    /\ Served
    /\ UNCHANGED <<settings, stores, game, answers>>

Connected == \E port \in Ports, base \in -1 .. 3 :
    /\ stage = "ready" /\ Addressed(port, base) /\ connected[port]
    /\ stage' = "connected"
    /\ route' = [port |-> port, base |-> base, pak |-> "none"]
    /\ UNCHANGED <<settings, stores, game, answers, lost, siQueue, maxControllers>>

NotConnected == \E port \in Ports, base \in -1 .. 3 :
    /\ stage = "ready" /\ Addressed(port, base) /\ ~connected[port]
    /\ answers' = [answers EXCEPT ![port] = A!Say("none", 0)]
    /\ Served
    /\ UNCHANGED <<settings, stores, game, lost>>

\* A poll serves its ports in turn.
BeginPoll ==
    /\ stage = "ready" /\ IsPoll
    /\ stage' = "polling"
    /\ UNCHANGED <<settings, stores, game, answers, route, lost, siQueue, maxControllers>>

NextPort ==
    /\ IF route.port < 3
       THEN /\ stage' = "polling"
            /\ route' = [NoRoute EXCEPT !.port = route.port + 1]
            /\ UNCHANGED <<siQueue, maxControllers>>
       ELSE Served
    /\ UNCHANGED <<settings, stores, game, lost>>

PassOver ==
    /\ stage = "polling" /\ PollCommand \notin {0, 1}
    /\ NextPort
    /\ UNCHANGED answers

PollAbsent ==
    /\ stage = "polling" /\ PollCommand \in {0, 1} /\ ~connected[route.port]
    /\ answers' = [answers EXCEPT ![route.port] = A!Say("none", 0)]
    /\ NextPort

PollConnected ==
    /\ stage = "polling" /\ PollCommand = 0 /\ connected[route.port]
    /\ stage' = "connected"
    /\ UNCHANGED <<settings, stores, game, answers, route, lost, siQueue, maxControllers>>

\* Which buttons are held is left out.
PollButtons ==
    /\ stage = "polling" /\ PollCommand = 1 /\ connected[route.port]
    /\ answers' = [answers EXCEPT ![route.port] = A!Say("buttons", 0)]
    /\ NextPort

-----------------------------------------------------------------------------
(* bar_port_pak, of the frontend and of the headless build.  It asks for   *)
(* the connection itself, then for the setting; the headless build asks    *)
(* for the connection once more with the setting.                          *)

CheckPort ==
    /\ stage \in {"connected", "routed"} /\ connected[route.port]
    /\ stage' = IF stage = "connected" THEN "checked" ELSE "reached"
    /\ UNCHANGED <<settings, stores, game, answers, route, lost, siQueue, maxControllers>>

\* The accessory it returns to the read DMA, or to bar_handle_pak.
Returns(a, asked, checked) ==
    \/ stage = asked /\ a = "none" /\ ~connected[route.port]
    \/ stage = checked /\ a \in {pak[route.port]} \union {b \in {"none"} : ~connected[route.port]}

\* Mutant of TellStatus: the early return comes before the event is posted.
TellStatusSilent(a) ==
    /\ Returns(a, "connected", "checked") /\ ShortStatus
    /\ answers' = [answers EXCEPT ![route.port] = A!Say("status", IF a = "none" THEN 0 ELSE 1)]
    /\ stage' = "served" /\ route' = NoRoute
    /\ UNCHANGED <<settings, stores, game, lost, siQueue, maxControllers>>

TellStatus(a) ==
    /\ Returns(a, "connected", "checked") /\ ShortStatus
    /\ answers' = [answers EXCEPT ![route.port] = A!Say("status", IF a = "none" THEN 0 ELSE 1)]
    /\ Served
    /\ UNCHANGED <<settings, stores, game, lost>>

PollStatus(a) ==
    /\ Returns(a, "connected", "checked") /\ IsPoll
    /\ answers' = [answers EXCEPT ![route.port] = A!Say("status", IF a = "none" THEN 0 ELSE 1)]
    /\ NextPort

Route(a) ==
    /\ Returns(a, "connected", "checked") /\ ~ShortStatus /\ ~IsPoll
    /\ a # "none"
    /\ stage' = "routed"
    /\ UNCHANGED <<settings, stores, game, answers, route, lost, siQueue, maxControllers>>

Refuse(a) ==
    /\ Returns(a, "connected", "checked") /\ ~ShortStatus /\ ~IsPoll
    /\ a = "none"
    /\ answers' = [answers EXCEPT ![route.port] = A!Say("none", 0)]
    /\ Served
    /\ UNCHANGED <<settings, stores, game, lost>>

-----------------------------------------------------------------------------
(* bar_handle_pak.  It looks the accessory up again, once, for all it does. *)

FindPak(a) ==
    /\ Returns(a, "routed", "reached")
    /\ stage' = "handling"
    /\ route' = [route EXCEPT !.pak = a]
    /\ UNCHANGED <<settings, stores, game, answers, lost, siQueue, maxControllers>>

IsWrite == Byte(route.base + 3) = 3
Block   == (Byte(route.base + 4) * 256 + Byte(route.base + 5)) \div 32
Written == Byte(route.base + 6)

\* Reads return the block and writes acknowledge it.
Reply(b) ==
    /\ stage = "handling"
    /\ answers' = [answers EXCEPT ![route.port] =
                     IF IsWrite THEN A!Say("ack", 0) ELSE A!Say("data", b)]
    /\ Served
    /\ UNCHANGED <<settings, game, lost>>

\* Mutant of HandleIdentify: a plain echo.
HandleIdentifyEcho ==
    /\ stage = "handling" /\ Block = 1024
    /\ bank' = [bank EXCEPT ![route.port] = IF IsWrite THEN Written ELSE @]
    /\ Reply(bank[route.port])
    /\ UNCHANGED <<motor, save>>

HandleIdentify ==
    /\ stage = "handling" /\ Block = 1024
    /\ bank' = [bank EXCEPT ![route.port] = IF IsWrite THEN Written ELSE @]
    /\ Reply(IF bank[route.port] >= 128 THEN 128 ELSE bank[route.port])
    /\ UNCHANGED <<motor, save>>

HandleData ==
    /\ stage = "handling" /\ Block < 1024
    /\ route.pak = "controller"
    /\ save' = [save EXCEPT ![route.port] = IF IsWrite THEN Written ELSE @]
    /\ Reply(save[route.port])
    /\ UNCHANGED <<bank, motor>>

\* mempak_read or mempak_write fails: a channel error, not an acknowledgement.
HandleDataFails ==
    /\ stage = "handling" /\ Block < 1024
    /\ route.pak = "controller"
    /\ answers' = [answers EXCEPT ![route.port] = A!Say("error", 0)]
    /\ Served
    /\ UNCHANGED <<settings, stores, game, lost>>

HandleNoData ==
    /\ stage = "handling" /\ Block < 1024
    /\ route.pak # "controller"
    /\ Reply(0)
    /\ UNCHANGED stores

HandleMotor ==
    /\ stage = "handling" /\ Block = 1536
    /\ motor' = [motor EXCEPT ![route.port] = IF IsWrite THEN Written # 0 ELSE @]
    /\ Reply(0)
    /\ UNCHANGED <<bank, save>>

HandleGap ==
    /\ stage = "handling" /\ Block > 1024 /\ Block # 1536
    /\ Reply(0)
    /\ UNCHANGED stores

-----------------------------------------------------------------------------
\* The player assigns a pad to a port or takes it away, and picks an accessory.
Assign(p) ==
    /\ connected' = [connected EXCEPT ![p] = ~@]
    /\ UNCHANGED <<pak, stores, game, answers, stage, route, lost, siQueue, maxControllers>>

SetPak(p, a) ==
    /\ a # pak[p]
    /\ pak' = [pak EXCEPT ![p] = a]
    /\ UNCHANGED <<connected, stores, game, answers, stage, route, lost, siQueue, maxControllers>>

Handle ==
    \/ HandleIdentify \/ HandleData \/ HandleDataFails \/ HandleNoData
    \/ HandleMotor \/ HandleGap

ReadDma ==
    \/ ReadLost \/ Connected \/ NotConnected
    \/ BeginPoll \/ PassOver \/ PollAbsent \/ PollConnected \/ PollButtons
    \/ CheckPort
    \/ \E a \in A!Kinds : TellStatus(a) \/ PollStatus(a) \/ Route(a) \/ Refuse(a) \/ FindPak(a)
    \/ Handle

Step ==
    \/ WriteDma \/ Receive("sent", "ready")
    \/ ReadDma \/ Receive("served", "parsed") \/ Skip \/ Parse

Next ==
    \/ \E o \in A!Ops, dummy \in BOOLEAN : Pack(o, dummy)
    \/ Step
    \/ \E p \in PlayerPorts : Assign(p) \/ \E a \in A!Kinds : SetPak(p, a)

Spec == Init /\ [][Next]_vars

-----------------------------------------------------------------------------
\* Each variable has its type; the SI queue never holds more than it can.
TypeOK ==
    /\ connected \in [Ports -> BOOLEAN]
    /\ pak \in [Ports -> A!Kinds]
    /\ bank \in [Ports -> 0 .. 255]
    /\ motor \in [Ports -> BOOLEAN]
    /\ save \in [Ports -> 0 .. 255]
    /\ op \in A!Ops \union {NoOp}
    /\ answers \in [Ports -> A!Answer]
    /\ stage \in Stages
    /\ route \in [port : Ports, base : -1 .. 3, pak : A!Kinds]
    /\ lost \in BOOLEAN
    /\ siQueue \in 0 .. SiCapacity
    /\ maxControllers \in {0, 4}

\* Whatever layout a frame has and whatever the player changes between the looks at a
\* port, a transaction acts on the port the game addressed, once and wholly, as the
\* accessory found there does it, or not at all (Accessories).
ImplementsAccessories == A!Spec

\* The ports a transaction asks about; a poll packed before any DMA asks about none.
Asked == IF op \in A!Poll THEN {p \in Ports : frame.blocks > 0} ELSE {op.port}

\* The 0xFF bytes the game packs where a response goes mean "every button held" or a
\* controller failure to it: no frame comes back with them unless its address was corrupt.
NoPlaceholders ==
    stage = "parsed" /\ ~lost => \A p \in Asked : answers[p] # A!Unanswered

\* osRecvMesg on the SI queue never blocks: every DMA posts on every path, and dropping
\* events that do not fit never takes the one the game is about to wait for.
ReceiveNeverBlocks == stage \in {"sent", "served"} => siQueue > 0
=============================================================================
