---------------------------- MODULE JoyBusProofs ----------------------------
(***************************************************************************)
(* For every queue capacity, set of ports, value and frame: the game never *)
(* waits for an SI event that no DMA posted, and the bus carries out what  *)
(* Accessories promises.  Four parts: the SI queue; the bytes of a frame   *)
(* say which transaction it is; BusInv says what holds between the steps   *)
(* of a transaction; and each step keeps it and is a step of Accessories   *)
(* or one it does not see.                                                 *)
(***************************************************************************)
EXTENDS JoyBus, SequenceTheorems, TLAPS

-----------------------------------------------------------------------------
(* The SI queue.                                                           *)

\* The queue's bounds are what lets a dropped event count as an event in the queue.
Waiting ==
    /\ siQueue \in 0 .. SiCapacity
    /\ ReceiveNeverBlocks

\* Starting a DMA, on any of its paths, leaves the game at least one event.
LEMMA PostLeavesOne ==
    ASSUME siQueue \in 0 .. SiCapacity, Post
    PROVE  siQueue' \in 0 .. SiCapacity /\ siQueue' > 0
  BY JoyBusAssumption DEF Post

\* A step that leaves both alone, or goes where the game does not wait, keeps the rest.
LEMMA WaitingKept ==
    ASSUME Waiting, siQueue' = siQueue,
           stage' = stage \/ stage' \notin {"sent", "served"}
    PROVE  Waiting'
  BY DEF Waiting, ReceiveNeverBlocks

LEMMA ServedKeeps == ASSUME Waiting, Served PROVE Waiting'
  BY PostLeavesOne DEF Waiting, ReceiveNeverBlocks, Served

LEMMA NextPortKeeps == ASSUME Waiting, NextPort PROVE Waiting'
<1>1. CASE route.port < 3
  BY <1>1, WaitingKept DEF NextPort
<1>2. CASE ~(route.port < 3)
  BY <1>2, ServedKeeps DEF NextPort
<1> QED BY <1>1, <1>2

LEMMA ReplyKeeps == ASSUME Waiting, NEW b, Reply(b) PROVE Waiting'
  BY ServedKeeps DEF Reply

LEMMA HandleKeeps == ASSUME Waiting, Handle PROVE Waiting'
<1>1. CASE HandleIdentify  BY <1>1, ReplyKeeps DEF HandleIdentify
<1>2. CASE HandleData      BY <1>2, ReplyKeeps DEF HandleData
<1>3. CASE HandleDataFails BY <1>3, ServedKeeps DEF HandleDataFails
<1>4. CASE HandleNoData    BY <1>4, ReplyKeeps DEF HandleNoData
<1>5. CASE HandleMotor     BY <1>5, ReplyKeeps DEF HandleMotor
<1>6. CASE HandleGap       BY <1>6, ReplyKeeps DEF HandleGap
<1> QED BY <1>1, <1>2, <1>3, <1>4, <1>5, <1>6 DEF Handle

\* bar_port_pak's result, used.
LEMMA FoundKeeps ==
    ASSUME Waiting, NEW a, TellStatus(a) \/ PollStatus(a) \/ Route(a) \/ Refuse(a) \/ FindPak(a)
    PROVE  Waiting'
<1>1. CASE TellStatus(a) BY <1>1, ServedKeeps DEF TellStatus
<1>2. CASE PollStatus(a) BY <1>2, NextPortKeeps DEF PollStatus
<1>3. CASE Route(a)      BY <1>3, WaitingKept DEF Route
<1>4. CASE Refuse(a)     BY <1>4, ServedKeeps DEF Refuse
<1>5. CASE FindPak(a)    BY <1>5, WaitingKept DEF FindPak
<1> QED BY <1>1, <1>2, <1>3, <1>4, <1>5

LEMMA ReadDmaKeeps == ASSUME Waiting, ReadDma PROVE Waiting'
<1>1. CASE ReadLost      BY <1>1, ServedKeeps DEF ReadLost
<1>2. CASE Connected     BY <1>2, WaitingKept DEF Connected
<1>3. CASE NotConnected  BY <1>3, ServedKeeps DEF NotConnected
<1>4. CASE BeginPoll     BY <1>4, WaitingKept DEF BeginPoll
<1>5. CASE PassOver      BY <1>5, NextPortKeeps DEF PassOver
<1>6. CASE PollAbsent    BY <1>6, NextPortKeeps DEF PollAbsent
<1>7. CASE PollConnected BY <1>7, WaitingKept DEF PollConnected
<1>8. CASE PollButtons   BY <1>8, NextPortKeeps DEF PollButtons
<1>9. CASE CheckPort     BY <1>9, WaitingKept DEF CheckPort
<1>10. CASE \E a \in A!Kinds : TellStatus(a) \/ PollStatus(a) \/ Route(a) \/ Refuse(a) \/ FindPak(a)
  BY <1>10, FoundKeeps
<1>11. CASE Handle       BY <1>11, HandleKeeps
<1> QED BY <1>1, <1>2, <1>3, <1>4, <1>5, <1>6, <1>7, <1>8, <1>9, <1>10, <1>11 DEF ReadDma

LEMMA ReceiveKeeps ==
    ASSUME Waiting, NEW from, NEW to, to \notin {"sent", "served"}, Receive(from, to)
    PROVE  Waiting'
  BY JoyBusAssumption DEF Waiting, ReceiveNeverBlocks, Receive

LEMMA NextKeeps == ASSUME Waiting, [Next]_vars PROVE Waiting'
<1>1. CASE \E o \in A!Ops, dummy \in BOOLEAN : Pack(o, dummy)
  BY <1>1, WaitingKept DEF Pack
<1>2. CASE WriteDma
  BY <1>2, PostLeavesOne DEF WriteDma, Waiting, ReceiveNeverBlocks
<1>3. CASE Receive("sent", "ready")
  BY <1>3, ReceiveKeeps
<1>4. CASE ReadDma
  BY <1>4, ReadDmaKeeps
<1>5. CASE Receive("served", "parsed")
  BY <1>5, ReceiveKeeps
<1>6. CASE Skip \/ Parse
  BY <1>6, WaitingKept DEF Skip, Parse
<1>7. CASE \E p \in PlayerPorts : Assign(p) \/ \E a \in A!Kinds : SetPak(p, a)
  BY <1>7, WaitingKept DEF Assign, SetPak
<1>8. CASE UNCHANGED vars
  BY <1>8, WaitingKept DEF vars
<1> QED BY <1>1, <1>2, <1>3, <1>4, <1>5, <1>6, <1>7, <1>8 DEF Next, Step

\* Whenever the game waits for the SI event there is one in its queue, so osRecvMesg
\* returns: every path of __osSiRawStartDma posts, and what is dropped was not needed.
THEOREM ReceiveReturns == Spec => []ReceiveNeverBlocks
<1>1. Init => Waiting
  BY JoyBusAssumption DEF Init, Waiting, ReceiveNeverBlocks
<1>2. Waiting /\ [Next]_vars => Waiting'
  BY NextKeeps
<1>3. Waiting => ReceiveNeverBlocks
  BY DEF Waiting
<1> QED BY <1>1, <1>2, <1>3, PTL DEF Spec


-----------------------------------------------------------------------------
(* The bytes of a frame.                                                   *)

Octets == 0 .. 255

\* Where the bytes of two joined pieces are.
LEMMA Joined ==
    ASSUME NEW s \in Seq(Octets), NEW t \in Seq(Octets)
    PROVE  /\ s \o t \in Seq(Octets) /\ Len(s \o t) = Len(s) + Len(t)
           /\ \A i \in 1 .. Len(s) : (s \o t)[i] = s[i]
           /\ \A i \in 1 .. Len(t) : (s \o t)[Len(s) + i] = t[i]
<1>1. s \o t \in Seq(Octets) /\ Len(s \o t) = Len(s) + Len(t)
  OBVIOUS
<1>2. ASSUME NEW i \in 1 .. Len(s) PROVE (s \o t)[i] = s[i]
  OBVIOUS
<1>3. ASSUME NEW i \in 1 .. Len(t) PROVE (s \o t)[Len(s) + i] = t[i]
  OBVIOUS
<1> QED BY <1>1, <1>2, <1>3

LEMMA Associative ==
    ASSUME NEW s \in Seq(Octets), NEW t \in Seq(Octets), NEW u \in Seq(Octets)
    PROVE  (s \o t) \o u = s \o (t \o u)
  BY ConcatAssociative

\* A channel's bytes come after as many zero bytes as its port has before it.
LEMMA SkipBytes ==
    ASSUME NEW p \in Ports, NEW s \in Seq(Octets), NEW k \in Nat
    PROVE  /\ Skips(p) \in Seq(Octets)
           /\ Skips(p) \o s \in Seq(Octets) /\ Len(Skips(p) \o s) = p + Len(s)
           /\ k < p => (Skips(p) \o s)[k + 1] = 0
           /\ k < Len(s) => (Skips(p) \o s)[p + k + 1] = s[k + 1]
<1>1. Skips(p) \in Seq(Octets) /\ Len(Skips(p)) = p
  BY DEF Skips, Ports, Octets
<1>2. k < p => Skips(p)[k + 1] = 0
  BY DEF Skips, Ports
<1> HIDE DEF Skips
<1>3. Skips(p) \o s \in Seq(Octets) /\ Len(Skips(p) \o s) = p + Len(s)
  BY <1>1 DEF Ports
<1>4. k < p => (Skips(p) \o s)[k + 1] = 0
  BY <1>1, <1>2 DEF Ports
<1>5. k < Len(s) => (Skips(p) \o s)[p + k + 1] = s[k + 1]
  BY <1>1 DEF Ports
<1> QED BY <1>1, <1>3, <1>4, <1>5

\* The bytes of a frame that is no poll.
LEMMA SkipFrame ==
    ASSUME NEW p \in Ports, NEW s \in Seq(Octets), NEW fill,
           frame = [head |-> Skips(p) \o s, fill |-> fill, blocks |-> 0]
    PROVE  /\ Zero(p)
           /\ \A k \in 0 .. Len(s) - 1 : Byte(p + k) = s[k + 1]
           /\ Byte(p + Len(s)) = fill
<1>1. frame.head = Skips(p) \o s /\ frame.fill = fill /\ frame.blocks = 0
  OBVIOUS
<1>2. Len(s) \in Nat /\ p \in Nat
  BY DEF Ports
<1>3. Len(frame.head) = p + Len(s)
  BY <1>1, SkipBytes
<1>4. ASSUME NEW k \in 0 .. p - 1 PROVE Byte(k) = 0
  BY <1>1, <1>2, <1>3, SkipBytes DEF Byte
<1>5. ASSUME NEW k \in 0 .. Len(s) - 1 PROVE Byte(p + k) = s[k + 1]
  BY <1>1, <1>2, <1>3, SkipBytes DEF Byte
<1>6. Byte(p + Len(s)) = fill
  BY <1>1, <1>2, <1>3 DEF Byte
<1> QED BY <1>4, <1>5, <1>6 DEF Zero

\* The three bytes before the address, and what follows the last byte packed.
Opcode(o) == IF o.kind = "write" THEN <<35, 1, 3>> ELSE <<3, 33, 2>>
Filler(o) == IF o.kind = "write" THEN o.byte ELSE 255

\* The dummy byte.
Mark == <<255>>

\* A frame with one channel, as Encode lays it out whatever maxControllers is.
Channel(o, mark) ==
    [head |-> Skips(o.port) \o mark \o Command(o),
     fill |-> Filler(o), blocks |-> 0]

\* An accessory's command is in the frame from byte c on.
CommandAt(c, o) ==
    /\ Triple(c, Opcode(o)[1], Opcode(o)[2], Opcode(o)[3])
    /\ <<Byte(c + 3), Byte(c + 4)>> = Address(o.space)
    /\ o.kind = "write" => Byte(c + 5) = o.byte

LEMMA KindsOf ==
    /\ \A o \in A!Pak : o.kind \in {"read", "write"} /\ o.port \in Ports /\ o.space \in A!Spaces
    /\ \A o \in A!Status : o.kind = "status" /\ o.port \in Ports
    /\ \A o \in A!Poll : o.kind \in {"detect", "buttons"}
  BY DEF A!Pak, A!Status, A!Poll

LEMMA AddressBytes ==
    ASSUME NEW space \in A!Spaces
    PROVE  Address(space) \in Seq(Octets) /\ Len(Address(space)) = 2
<1>1. Address("data") = <<0, 0>> /\ Address("identify") = <<128, 0>>
      /\ Address("gap") = <<160, 0>> /\ Address("motor") = <<192, 0>>
  BY DEF Address
<1>2. <<0, 0>> \in Seq(Octets) /\ <<128, 0>> \in Seq(Octets)
      /\ <<160, 0>> \in Seq(Octets) /\ <<192, 0>> \in Seq(Octets)
  BY DEF Octets
<1>3. space \in {"data", "identify", "gap", "motor"}
  BY DEF A!Spaces
<1>4. CASE space = "data"     BY <1>1, <1>2, <1>4
<1>5. CASE space = "identify" BY <1>1, <1>2, <1>5
<1>6. CASE space = "gap"      BY <1>1, <1>2, <1>6
<1>7. CASE space = "motor"    BY <1>1, <1>2, <1>7
<1> QED BY <1>3, <1>4, <1>5, <1>6, <1>7

LEMMA PairOf == ASSUME NEW S, NEW s \in Seq(S), Len(s) = 2 PROVE s = <<s[1], s[2]>>
  OBVIOUS

LEMMA PakCommandBytes ==
    ASSUME NEW o \in A!Pak
    PROVE  /\ Command(o) \in Seq(Octets) /\ Len(Command(o)) = 5
           /\ Command(o)[1] = Opcode(o)[1] /\ Command(o)[2] = Opcode(o)[2]
           /\ Command(o)[3] = Opcode(o)[3]
           /\ <<Command(o)[4], Command(o)[5]>> = Address(o.space)
<1>1. PICK a : a = Opcode(o)
  OBVIOUS
<1>2. PICK b : b = Address(o.space)
  OBVIOUS
<1>3. Command(o) = a \o b
  BY <1>1, <1>2, KindsOf DEF Command, Opcode
<1>4. a \in Seq(Octets) /\ b \in Seq(Octets)
  <2>1. <<35, 1, 3>> \in Seq(Octets) /\ <<3, 33, 2>> \in Seq(Octets)
    BY DEF Octets
  <2> QED BY <1>1, <1>2, <2>1, KindsOf, AddressBytes DEF Opcode
<1>5. /\ Command(o) \in Seq(Octets) /\ Len(Command(o)) = 5
      /\ \A i \in 1 .. 3 : Command(o)[i] = a[i]
      /\ \A i \in 1 .. 2 : Command(o)[3 + i] = b[i]
  <2>1. /\ Command(o) \in Seq(Octets) /\ Len(Command(o)) = Len(a) + Len(b)
        /\ \A i \in 1 .. Len(a) : Command(o)[i] = a[i]
        /\ \A i \in 1 .. Len(b) : Command(o)[Len(a) + i] = b[i]
    BY <1>3, <1>4, Joined
  <2>2. Len(a) = 3 /\ Len(b) = 2
    BY <1>1, <1>2, KindsOf, AddressBytes DEF Opcode
  <2> QED BY <2>1, <2>2
<1>6. Command(o)[3 + 1] = b[1] /\ Command(o)[3 + 2] = b[2]
  BY <1>5
<1>7. b = <<b[1], b[2]>>
  BY <1>2, KindsOf, AddressBytes, PairOf
<1> QED BY <1>1, <1>2, <1>5, <1>6, <1>7

LEMMA StatusCommand == ASSUME NEW o \in A!Status PROVE Command(o) = <<1, 3, 0>>
  BY KindsOf DEF Command

\* ShortChannel is the first byte of the frame that is not zero.
LEMMA FirstByte ==
    ASSUME NEW p \in Ports, Zero(p), Byte(p) # 0
    PROVE  ShortChannel = p
<1>2. ASSUME NEW n \in Ports, Zero(n), n = 3 \/ Byte(n) # 0 PROVE n = p
  BY <1>2 DEF Zero, Ports
<1> QED BY <1>2 DEF ShortChannel

\* Without a dummy byte the frame's first byte that is not zero opens the command.
LEMMA PlainFrame ==
    ASSUME NEW o \in A!Pak, frame = Channel(o, <<>>)
    PROVE  ShortChannel = o.port /\ CommandAt(o.port, o)
<1>1. PICK c : c = Command(o)
  OBVIOUS
<1>2. PICK f : f = Filler(o)
  OBVIOUS
<1>3. o.port \in Ports /\ o.port \in Nat /\ c \in Seq(Octets) /\ Len(c) = 5
  BY <1>1, KindsOf, PakCommandBytes DEF Ports
<1>4. frame = [head |-> Skips(o.port) \o c, fill |-> f, blocks |-> 0]
  BY <1>1, <1>2, <1>3, SkipBytes, ConcatEmptySeq DEF Channel
<1>5. /\ Zero(o.port)
      /\ \A k \in 0 .. Len(c) - 1 : Byte(o.port + k) = c[k + 1]
      /\ Byte(o.port + Len(c)) = f
  BY <1>3, <1>4, SkipFrame
<1>6. /\ Byte(o.port + 0) = c[0 + 1] /\ Byte(o.port + 1) = c[1 + 1] /\ Byte(o.port + 2) = c[2 + 1]
      /\ Byte(o.port + 3) = c[3 + 1] /\ Byte(o.port + 4) = c[4 + 1] /\ Byte(o.port + 5) = f
  BY <1>3, <1>5
<1>7. /\ Byte(o.port) = c[1] /\ Byte(o.port + 1) = c[2] /\ Byte(o.port + 2) = c[3]
      /\ Byte(o.port + 3) = c[4] /\ Byte(o.port + 4) = c[5] /\ Byte(o.port + 5) = f
  BY <1>3, <1>6
<1>8. c[1] # 0
  BY <1>1, PakCommandBytes DEF Opcode
<1>9. ShortChannel = o.port
  BY <1>3, <1>5, <1>7, <1>8, FirstByte
<1> QED BY <1>1, <1>2, <1>7, <1>9, PakCommandBytes DEF CommandAt, Triple, Filler

\* With one it comes after it.
LEMMA DummyFrame ==
    ASSUME NEW o \in A!Pak, frame = Channel(o, Mark)
    PROVE  /\ ShortChannel = o.port /\ CommandAt(o.port + 1, o)
           /\ Byte(o.port) = 255 /\ Zero(o.port)
<1>1. PICK c : c = Command(o)
  OBVIOUS
<1>2. PICK f : f = Filler(o)
  OBVIOUS
<1>3. o.port \in Ports /\ o.port \in Nat /\ c \in Seq(Octets) /\ Len(c) = 5
  BY <1>1, KindsOf, PakCommandBytes DEF Ports
<1>4. PICK d : d = <<255>>
  OBVIOUS
<1>5. d \in Seq(Octets) /\ Len(d) = 1 /\ d[1] = 255
  BY <1>4 DEF Octets
<1>6. PICK s : s = d \o c
  OBVIOUS
<1>7. c \in Seq(Octets) /\ d \in Seq(Octets)
  BY <1>3, <1>5
<1>8. s \in Seq(Octets)
  BY <1>6, <1>7, Joined
<1>9. Len(s) = 6 /\ (\A i \in 1 .. 1 : s[i] = d[i]) /\ (\A i \in 1 .. 5 : s[1 + i] = c[i])
  <2>1. /\ Len(s) = Len(d) + Len(c)
        /\ \A i \in 1 .. Len(d) : s[i] = d[i]
        /\ \A i \in 1 .. Len(c) : s[Len(d) + i] = c[i]
    BY <1>6, <1>7, Joined
  <2> QED BY <1>3, <1>5, <2>1
<1>10. s[1] = 255 /\ s[2] = c[1] /\ s[3] = c[2] /\ s[4] = c[3] /\ s[5] = c[4] /\ s[6] = c[5]
  <2>1. /\ s[1] = d[1] /\ s[1 + 1] = c[1] /\ s[1 + 2] = c[2] /\ s[1 + 3] = c[3]
        /\ s[1 + 4] = c[4] /\ s[1 + 5] = c[5]
    BY <1>9
  <2> QED BY <1>5, <2>1
<1>11. frame = [head |-> Skips(o.port) \o s, fill |-> f, blocks |-> 0]
  <2>1. (Skips(o.port) \o d) \o c = Skips(o.port) \o s
    <3>1. Skips(o.port) \in Seq(Octets)
      BY <1>3, <1>7, SkipBytes
    <3>2. (Skips(o.port) \o d) \o c = Skips(o.port) \o (d \o c)
      BY <1>7, <3>1, Associative, Zenon
    <3> QED BY <1>6, <3>2
  <2> QED BY <1>1, <1>2, <1>4, <2>1 DEF Channel, Mark
<1>12. /\ Zero(o.port)
       /\ \A k \in 0 .. Len(s) - 1 : Byte(o.port + k) = s[k + 1]
       /\ Byte(o.port + Len(s)) = f
  <2>1. o.port \in Ports
    BY <1>3
  <2> QED BY <1>8, <1>11, <2>1, SkipFrame
<1>13. /\ Byte(o.port + 0) = s[0 + 1] /\ Byte(o.port + 1) = s[1 + 1] /\ Byte(o.port + 2) = s[2 + 1]
       /\ Byte(o.port + 3) = s[3 + 1] /\ Byte(o.port + 4) = s[4 + 1] /\ Byte(o.port + 5) = s[5 + 1]
       /\ Byte(o.port + 6) = f
  BY <1>9, <1>12
<1>14. /\ Byte(o.port) = 255 /\ Byte(o.port + 1) = c[1] /\ Byte((o.port + 1) + 1) = c[2]
       /\ Byte((o.port + 1) + 2) = c[3] /\ Byte((o.port + 1) + 3) = c[4]
       /\ Byte((o.port + 1) + 4) = c[5] /\ Byte((o.port + 1) + 5) = f
  <2>1. /\ o.port + 0 = o.port /\ (o.port + 1) + 1 = o.port + 2 /\ (o.port + 1) + 2 = o.port + 3
        /\ (o.port + 1) + 3 = o.port + 4 /\ (o.port + 1) + 4 = o.port + 5
        /\ (o.port + 1) + 5 = o.port + 6
    BY <1>3
  <2>2. /\ Byte(o.port + 0) = 255 /\ Byte(o.port + 1) = c[1] /\ Byte(o.port + 2) = c[2]
        /\ Byte(o.port + 3) = c[3] /\ Byte(o.port + 4) = c[4] /\ Byte(o.port + 5) = c[5]
        /\ Byte(o.port + 6) = f
    BY <1>10, <1>13
  <2> QED BY <2>1, <2>2
<1>15. ShortChannel = o.port
  BY <1>3, <1>12, <1>14, FirstByte
<1> QED BY <1>1, <1>2, <1>12, <1>14, <1>15, PakCommandBytes DEF CommandAt, Triple, Filler

\* A query for a port's status opens at its first byte that is not zero.
LEMMA StatusFrame ==
    ASSUME NEW o \in A!Status, frame = Channel(o, <<>>)
    PROVE  ShortChannel = o.port /\ ShortStatus
<1>1. PICK c : c = Command(o)
  OBVIOUS
<1>2. PICK f : f = Filler(o)
  OBVIOUS
<1>3. o.port \in Ports /\ o.port \in Nat /\ c = <<1, 3, 0>>
  BY <1>1, KindsOf, StatusCommand DEF Ports
<1>4. c \in Seq(Octets)
  BY <1>3 DEF Octets
<1>5. frame = [head |-> Skips(o.port) \o c, fill |-> f, blocks |-> 0]
  BY <1>1, <1>2, <1>3, <1>4, SkipBytes, ConcatEmptySeq DEF Channel
<1>6. /\ Zero(o.port)
      /\ \A k \in 0 .. Len(c) - 1 : Byte(o.port + k) = c[k + 1]
  BY <1>3, <1>4, <1>5, SkipFrame
<1>7. Byte(o.port + 0) = c[0 + 1] /\ Byte(o.port + 1) = c[1 + 1] /\ Byte(o.port + 2) = c[2 + 1]
  BY <1>3, <1>6
<1>8. Byte(o.port) = 1 /\ Byte(o.port + 1) = 3 /\ Byte(o.port + 2) = 0
  BY <1>3, <1>7
<1>9. ShortChannel = o.port
  BY <1>3, <1>6, <1>8, FirstByte
<1> QED BY <1>8, <1>9 DEF ShortStatus, Triple

\* How the read DMA sees an accessory's frame: as one, at the port it is for.
LEMMA PlainRoute ==
    ASSUME NEW o \in A!Pak, frame = Channel(o, <<>>)
    PROVE  ~ShortStatus /\ ShortPak
<1>1. ShortChannel = o.port /\ CommandAt(o.port, o)
  BY PlainFrame, Zenon
<1> QED BY <1>1, KindsOf DEF ShortStatus, ShortPak, PakCommand, CommandAt, Triple, Opcode

LEMMA DummyRoute ==
    ASSUME NEW o \in A!Pak, frame = Channel(o, Mark)
    PROVE  ~ShortStatus /\ ~ShortPak /\ \A ch \in Ports : DummyPak(ch) <=> ch = o.port
<1>1. /\ ShortChannel = o.port /\ CommandAt(o.port + 1, o)
      /\ Byte(o.port) = 255 /\ Zero(o.port)
  BY DummyFrame, Zenon
<1>2. ~ShortStatus /\ ~ShortPak
  BY <1>1 DEF ShortStatus, ShortPak, PakCommand, Triple
<1>3. ASSUME NEW ch \in Ports, Zero(ch) PROVE ch <= o.port
  BY <1>1, <1>3, KindsOf DEF Zero, Ports
<1>4. ASSUME NEW ch \in Ports, ch < o.port PROVE ~PakCommand(ch + 1)
  <2>1. Byte(ch + 1) \in {0, 255}
    BY <1>1, <1>4, KindsOf DEF Ports, Zero
  <2> QED BY <2>1 DEF PakCommand, Triple
<1>5. PakCommand(o.port + 1) /\ Zero(o.port)
  BY <1>1 DEF PakCommand, CommandAt, Opcode
<1>6. ASSUME NEW ch \in Ports, DummyPak(ch) PROVE ch = o.port
  BY <1>3, <1>4, <1>6, KindsOf DEF DummyPak, Ports
<1>7. DummyPak(o.port)
  BY <1>4, <1>5, KindsOf DEF DummyPak, Ports
<1> QED BY <1>2, <1>6, <1>7

\* A poll, before and after the first DMA sets __osMaxControllers.
PollFrame(o, n) ==
    [head |-> IF n = 4 THEN <<255>> \o Command(o) \o <<255, 255, 255, 255>>
              ELSE <<254>> \o [i \in 1 .. 7 |-> 255],
     fill |-> 255, blocks |-> n]

\* A poll's block is the same for each port.
LEMMA ByteOf ==
    ASSUME NEW k \in Nat
    PROVE  /\ frame.blocks = 0 => Byte(k) = IF k < Len(frame.head) THEN frame.head[k + 1] ELSE frame.fill
           /\ frame.blocks = 4 =>
                Byte(k) = IF k % 8 < Len(frame.head) THEN frame.head[(k % 8) + 1] ELSE frame.fill
<1>1. CASE frame.blocks = 0
  <2>1. ~(frame.blocks > 0)
    BY <1>1
  <2> QED BY <1>1, <2>1 DEF Byte
<1>2. CASE frame.blocks = 4
  <2>1. frame.blocks > 0
    BY <1>2
  <2> QED BY <1>2, <2>1 DEF Byte
<1> QED BY <1>1, <1>2

\* Before the first DMA the game packs no block, and every command byte is 255.
LEMMA NotYetPolled ==
    ASSUME NEW o, frame = PollFrame(o, 0)
    PROVE  Byte(0) = 254 /\ \A k \in Nat \ {0} : Byte(k) = 255
<1>1. PICK s : s = [i \in 1 .. 7 |-> 255]
  OBVIOUS
<1>2. PICK d : d = <<254>>
  OBVIOUS
<1>3. s \in Seq(Octets) /\ Len(s) = 7 /\ \A i \in 1 .. 7 : s[i] = 255
  BY <1>1 DEF Octets
<1>4. d \in Seq(Octets) /\ Len(d) = 1 /\ d[1] = 254
  BY <1>2 DEF Octets
<1>5. PICK h : h = d \o s
  OBVIOUS
<1>6. frame.head = h /\ frame.fill = 255 /\ frame.blocks = 0
  BY <1>1, <1>2, <1>5 DEF PollFrame
<1>7. /\ Len(h) = Len(d) + Len(s)
      /\ \A i \in 1 .. Len(d) : h[i] = d[i]
      /\ \A i \in 1 .. Len(s) : h[Len(d) + i] = s[i]
  <2>1. d \in Seq(Octets) /\ s \in Seq(Octets)
    BY <1>3, <1>4
  <2> QED BY <1>5, <2>1, Joined
<1>8. Len(h) = 8 /\ h[1] = 254
  BY <1>3, <1>4, <1>7
<1>9. ASSUME NEW i \in 1 .. 7 PROVE h[1 + i] = 255
  <2>1. h[1 + i] = s[i] /\ s[i] = 255
    BY <1>3, <1>4, <1>7
  <2> QED BY <2>1
<1>10. Len(frame.head) = 8 /\ frame.head[1] = 254
  BY <1>6, <1>8
<1>11. Byte(0) = 254
  <2>1. Byte(0) = IF 0 < Len(frame.head) THEN frame.head[0 + 1] ELSE frame.fill
    BY <1>6, ByteOf
  <2> QED BY <1>10, <2>1
<1>12. ASSUME NEW k \in Nat \ {0} PROVE Byte(k) = 255
  <2>1. Byte(k) = IF k < Len(frame.head) THEN frame.head[k + 1] ELSE frame.fill
    BY <1>6, ByteOf
  <2>2. CASE k < 8
    <3>1. h[1 + k] = 255
      BY <1>9, <2>2
    <3> QED BY <1>6, <1>10, <2>1, <2>2, <3>1
  <2>3. CASE ~(k < 8)
    BY <1>6, <1>10, <2>1, <2>3
  <2> QED BY <2>2, <2>3
<1> QED BY <1>11, <1>12

\* After it each port's block holds the poll's command.
LEMMA Polled ==
    ASSUME NEW o \in A!Poll, frame = PollFrame(o, 4)
    PROVE  /\ Byte(0) = 255 /\ Byte(1) = 1
           /\ \A p \in Ports : Byte(8 * p + 3) = (IF o.kind = "detect" THEN 0 ELSE 1)
<1>1. PICK c : c = Command(o)
  OBVIOUS
<1>2. PICK d : d = <<255>>
  OBVIOUS
<1>3. PICK e : e = <<255, 255, 255, 255>>
  OBVIOUS
<1>4. PICK b \in {0, 1} : b = IF o.kind = "detect" THEN 0 ELSE 1
  OBVIOUS
<1>5. c \in Seq(Octets) /\ Len(c) = 3 /\ c[1] = 1 /\ c[3] = b
  <2>1. c = IF o.kind = "detect" THEN <<1, 3, 0>> ELSE <<1, 4, 1>>
    BY <1>1, KindsOf DEF Command
  <2>2. <<1, 3, 0>> \in Seq(Octets) /\ <<1, 4, 1>> \in Seq(Octets)
    BY DEF Octets
  <2>3. CASE o.kind = "detect"
    BY <1>4, <2>1, <2>2, <2>3
  <2>4. CASE o.kind # "detect"
    BY <1>4, <2>1, <2>2, <2>4
  <2> QED BY <2>3, <2>4
<1>6. d \in Seq(Octets) /\ Len(d) = 1 /\ d[1] = 255
  BY <1>2 DEF Octets
<1>7. e \in Seq(Octets) /\ Len(e) = 4
  BY <1>3 DEF Octets
<1>8. PICK dc : dc = d \o c
  OBVIOUS
<1>9. d \in Seq(Octets) /\ c \in Seq(Octets) /\ e \in Seq(Octets)
  BY <1>5, <1>6, <1>7
<1>10. /\ dc \in Seq(Octets) /\ Len(dc) = Len(d) + Len(c)
       /\ \A i \in 1 .. Len(d) : dc[i] = d[i]
       /\ \A i \in 1 .. Len(c) : dc[Len(d) + i] = c[i]
  BY <1>8, <1>9, Joined
<1>11. Len(dc) = 4 /\ dc[1] = 255 /\ dc[1 + 1] = 1 /\ dc[1 + 3] = b
  BY <1>5, <1>6, <1>10
<1>12. PICK h : h = dc \o e
  OBVIOUS
<1>13. frame.head = h /\ frame.fill = 255 /\ frame.blocks = 4
  <2>1. (d \o c) \o e = d \o (c \o e)
    BY <1>9, Associative, Zenon
  <2> QED BY <1>1, <1>2, <1>3, <1>8, <1>12, <2>1 DEF PollFrame
<1>14. Len(h) = Len(dc) + Len(e) /\ \A i \in 1 .. Len(dc) : h[i] = dc[i]
  <2>1. dc \in Seq(Octets)
    BY <1>10
  <2> QED BY <1>9, <1>12, <2>1, Joined
<1>15. Len(h) = 8 /\ h[1] = 255 /\ h[2] = 1 /\ h[4] = b
  <2>1. Len(h) = 8
    BY <1>7, <1>11, <1>14
  <2>2. h[1] = dc[1] /\ h[2] = dc[1 + 1] /\ h[4] = dc[1 + 3]
    BY <1>11, <1>14
  <2> QED BY <1>11, <2>1, <2>2
<1>16. /\ Len(frame.head) = 8 /\ frame.head[1] = 255 /\ frame.head[2] = 1 /\ frame.head[4] = b
       /\ frame.blocks = 4
  BY <1>13, <1>15
<1>17. ASSUME NEW k \in Nat, NEW n \in 0 .. 7, k % 8 = n PROVE Byte(k) = frame.head[n + 1]
  <2>1. Byte(k) = IF k % 8 < Len(frame.head) THEN frame.head[(k % 8) + 1] ELSE frame.fill
    BY <1>16, ByteOf
  <2> QED BY <1>16, <1>17, <2>1
<1>18. Byte(0) = 255 /\ Byte(1) = 1
  <2>1. Byte(0) = frame.head[0 + 1] /\ Byte(1) = frame.head[1 + 1]
    BY <1>17
  <2> QED BY <1>16, <2>1
<1>19. ASSUME NEW p \in Ports PROVE Byte(8 * p + 3) = b
  <2>1. 8 * p + 3 \in Nat /\ (8 * p + 3) % 8 = 3
    BY DEF Ports
  <2>2. Byte(8 * p + 3) = frame.head[3 + 1]
    BY <1>17, <2>1
  <2> QED BY <1>16, <2>2
<1> QED BY <1>4, <1>18, <1>19

\* Neither kind of poll looks like a command for one port.
LEMMA PollRoute ==
    ASSUME NEW o \in A!Poll, NEW n \in {0, 4}, frame = PollFrame(o, n)
    PROVE  ~ShortStatus /\ ~ShortPak /\ \A ch \in Ports : ~DummyPak(ch)
<1>1. Byte(0) \in {254, 255} /\ Byte(1) \in {1, 255}
  <2>1. CASE n = 4
    <3>1. Byte(0) = 255 /\ Byte(1) = 1
      BY <2>1, Polled, Zenon
    <3> QED BY <3>1
  <2>2. CASE n = 0
    <3>1. frame = PollFrame(o, 0)
      BY <2>2
    <3>2. Byte(0) = 254 /\ \A k \in Nat \ {0} : Byte(k) = 255
      BY <3>1, NotYetPolled, Zenon
    <3> QED BY <3>2
  <2> QED BY <2>1, <2>2
<1>2. ShortChannel = 0
  BY <1>1, FirstByte DEF Ports, Zero
<1>3. ~ShortStatus /\ ~ShortPak
  BY <1>1, <1>2 DEF ShortStatus, ShortPak, PakCommand, Triple
<1>4. ASSUME NEW ch \in Ports, DummyPak(ch) PROVE FALSE
  <2>1. ch = 0
    BY <1>1, <1>4 DEF DummyPak, Zero, Ports
  <2> QED BY <1>1, <1>4, <2>1 DEF DummyPak, PakCommand, Triple
<1> QED BY <1>3, <1>4

\* bar_handle_pak reads back what the game asked for.
LEMMA Decoded ==
    ASSUME NEW o \in A!Pak, route.base \in Int, CommandAt(route.base + 1, o)
    PROVE  /\ IsWrite <=> o.kind = "write"
           /\ Block = (CASE o.space = "data" -> 0 [] o.space = "identify" -> 1024
                         [] o.space = "gap" -> 1280 [] o.space = "motor" -> 1536)
           /\ o.kind = "write" => Written = o.byte
<1>1. /\ (route.base + 1) + 2 = route.base + 3 /\ (route.base + 1) + 3 = route.base + 4
      /\ (route.base + 1) + 4 = route.base + 5 /\ (route.base + 1) + 5 = route.base + 6
  OBVIOUS
<1>2. IsWrite <=> o.kind = "write"
  BY <1>1 DEF IsWrite, CommandAt, Triple, Opcode
<1>3. <<Byte(route.base + 4), Byte(route.base + 5)>> = Address(o.space)
  BY <1>1 DEF CommandAt
<1>4. Block = (CASE o.space = "data" -> 0 [] o.space = "identify" -> 1024
                 [] o.space = "gap" -> 1280 [] o.space = "motor" -> 1536)
  <2>1. o.space \in {"data", "identify", "gap", "motor"}
    BY KindsOf DEF A!Spaces
  <2>2. CASE o.space = "data"
    BY <1>3, <2>2 DEF Address, Block
  <2>3. CASE o.space = "identify"
    BY <1>3, <2>3 DEF Address, Block
  <2>4. CASE o.space = "gap"
    BY <1>3, <2>4 DEF Address, Block
  <2>5. CASE o.space = "motor"
    BY <1>3, <2>5 DEF Address, Block
  <2> QED BY <2>1, <2>2, <2>3, <2>4, <2>5
<1>5. o.kind = "write" => Written = o.byte
  BY <1>1 DEF Written, CommandAt
<1> QED BY <1>2, <1>4, <1>5

-----------------------------------------------------------------------------
(* What holds between the steps of a transaction.                          *)

\* Each variable has its type, save for the queue, which Waiting bounds.
Typed ==
    /\ connected \in [Ports -> BOOLEAN]
    /\ pak \in [Ports -> A!Kinds]
    /\ bank \in [Ports -> Bytes \union {0}]
    /\ motor \in [Ports -> BOOLEAN]
    /\ save \in [Ports -> Bytes \union {0}]
    /\ op \in A!Ops \union {NoOp}
    /\ answers \in [Ports -> A!Answer]
    /\ stage \in Stages
    /\ route \in [port : Ports, base : -1 .. 3, pak : A!Kinds]
    /\ lost \in BOOLEAN
    /\ maxControllers \in {0, 4}

\* PIF RAM holds the transaction's frame until the game has parsed it.
Framed ==
    /\ stage = "idle" <=> op = NoOp
    /\ op \in A!Pak => frame \in {Channel(op, <<>>), Channel(op, Mark)}
    /\ op \in A!Status => frame = Channel(op, <<>>)
    /\ op \in A!Poll => frame \in {PollFrame(op, 0), PollFrame(op, 4)}

\* Looking at a port's accessory, and in bar_handle_pak.
Looking  == {"connected", "checked"}
Inside   == {"routed", "reached", "handling"}

\* Nothing is answered before the read DMA serves it; a poll serves its ports in turn.
Fresh ==
    stage \notin {"served", "parsed"} =>
        \A p \in Ports : (op \in A!Poll => p >= route.port) => answers[p] = A!Unanswered

Behind ==
    op \in A!Poll /\ frame.blocks > 0 =>
        \A p \in Ports : p < route.port => answers[p] # A!Unanswered

\* The port being served is the one the game addressed, and has its command at base + 1.
RightPort ==
    /\ stage \notin Looking \union Inside \union {"polling"} => route = NoRoute
    /\ stage = "polling" => op \in A!Poll
    /\ stage \in Inside => op \in A!Pak
    /\ stage \in Looking /\ op \in A!Poll => op.kind = "detect"
    /\ stage \in Looking \union Inside /\ op \notin A!Poll => route.port = op.port
    /\ stage \in Looking \union Inside /\ op \in A!Pak => CommandAt(route.base + 1, op)

Told ==
    stage \in {"served", "parsed"} /\ ~lost => \A p \in Asked : answers[p] # A!Unanswered

\* The inductive invariant.
BusInv == Typed /\ Framed /\ Fresh /\ Behind /\ RightPort /\ Told

\* A step as Accessories sees it.
Promised == A!Next \/ UNCHANGED <<connected, pak, bank, motor, save, op, SeenOf, answers>>

LEMMA Disjoint ==
    /\ A!Pak \intersect A!Status = {} /\ A!Pak \intersect A!Poll = {}
    /\ A!Status \intersect A!Poll = {} /\ A!Ops = A!Pak \union A!Status \union A!Poll
<1>1. A!Ops = A!Pak \union A!Status \union A!Poll
  BY DEF A!Ops
<1> QED BY <1>1, KindsOf

LEMMA BusInit == Init => BusInv
<1> SUFFICES ASSUME Init PROVE BusInv
  OBVIOUS
<1>1. Typed
  <2>1. route \in [port : Ports, base : -1 .. 3, pak : A!Kinds]
    BY DEF Init, NoRoute, A!Kinds, Ports
  <2>2. A!Unanswered \in A!Answer
    BY DEF A!Answer, A!Unanswered
  <2> QED BY <2>1, <2>2 DEF Init, Typed, Stages
<1>2. op \notin A!Pak /\ op \notin A!Status /\ op \notin A!Poll
  BY NoOpAssumption DEF Init, A!Ops
<1>3. Framed /\ Fresh /\ Behind /\ RightPort /\ Told
  BY <1>2 DEF Init, Framed, Fresh, Behind, RightPort, Told, Looking, Inside
<1> QED BY <1>1, <1>3 DEF BusInv

LEMMA BusInitMeets == Init => A!Init
<1> SUFFICES ASSUME Init PROVE A!Init
  OBVIOUS
<1>1. SeenOf = A!Unseen
  BY DEF Init, SeenOf, Knows, A!Unseen
<1> QED BY <1>1, JoyBusAssumption DEF Init, A!Init

\* What is packed is one of the three layouts.
LEMMA Encoded ==
    ASSUME NEW o \in A!Ops, NEW dummy \in BOOLEAN, dummy => o \in A!Pak, maxControllers \in {0, 4}
    PROVE  /\ o \in A!Pak => Encode(o, dummy) \in {Channel(o, <<>>), Channel(o, Mark)}
           /\ o \in A!Status => Encode(o, dummy) = Channel(o, <<>>)
           /\ o \in A!Poll => Encode(o, dummy) \in {PollFrame(o, 0), PollFrame(o, 4)}
<1>1. CASE o \in A!Pak /\ dummy
  BY <1>1, Disjoint DEF Encode, Channel, Mark, Filler
<1>2. CASE o \notin A!Poll /\ ~dummy
  BY <1>2, Disjoint DEF Encode, Channel, Mark, Filler
<1>3. CASE o \in A!Poll
  <2>1. o \notin A!Pak /\ o \notin A!Status
    BY <1>3, Disjoint
  <2>2. CASE maxControllers = 0
    <3>1. PICK h : h = <<254>> \o [i \in 1 .. 7 |-> 255]
      OBVIOUS
    <3>2. Encode(o, dummy) = [head |-> h, fill |-> 255, blocks |-> 0]
      BY <1>3, <2>2, <3>1 DEF Encode
    <3>3. PollFrame(o, 0) = [head |-> h, fill |-> 255, blocks |-> 0]
      BY <3>1 DEF PollFrame
    <3> QED BY <2>1, <3>2, <3>3
  <2>3. CASE maxControllers = 4
    <3>1. PICK h : h = <<255>> \o Command(o) \o <<255, 255, 255, 255>>
      OBVIOUS
    <3>2. Encode(o, dummy) = [head |-> h, fill |-> 255, blocks |-> 4]
      BY <1>3, <2>3, <3>1 DEF Encode
    <3>3. PollFrame(o, 4) = [head |-> h, fill |-> 255, blocks |-> 4]
      BY <3>1 DEF PollFrame
    <3> QED BY <2>1, <3>2, <3>3
  <2> QED BY <2>1, <2>2, <2>3
<1> QED BY <1>1, <1>2, <1>3, Disjoint

\* What the player does leaves the transaction alone.
LEMMA Same ==
    ASSUME BusInv, UNCHANGED <<op, frame, answers, stage, route, lost>>, Typed'
    PROVE  BusInv' /\ SeenOf' = SeenOf
<1>1. \A k : Byte(k)' = Byte(k)
  BY DEF Byte
<1>2. \A c : CommandAt(c, op)' <=> CommandAt(c, op)
  BY <1>1 DEF CommandAt, Triple
<1>3. CommandAt(route.base + 1, op)' <=> CommandAt(route.base + 1, op)
  BY <1>2
<1>4. Framed' /\ Fresh' /\ Behind' /\ RightPort' /\ Told'
  BY <1>3 DEF BusInv, Framed, Fresh, Behind, RightPort, Told, Asked, Looking, Inside
<1>5. SeenOf' = SeenOf
  BY DEF SeenOf, Knows
<1> QED BY <1>4, <1>5 DEF BusInv

\* A stage in which nothing of the transaction but its stage moves.
LEMMA Moved ==
    ASSUME BusInv, UNCHANGED <<settings, stores, game, answers, route, lost>>, stage # "idle",
           maxControllers' \in {0, 4},
           \/ stage \in {"packed", "sent"} /\ stage' \in {"sent", "ready"}
           \/ stage = "served" /\ stage' = "parsed"
    PROVE  BusInv' /\ Promised
<1>1. Typed'
  BY DEF BusInv, Typed, settings, stores, game, Stages
<1>2. Framed' /\ Fresh' /\ Behind' /\ RightPort' /\ Told'
  BY DEF BusInv, Framed, Fresh, Behind, RightPort, Told, Asked, Looking, Inside, game
<1>3. SeenOf' = SeenOf
  BY DEF SeenOf, Knows
<1>4. Promised
  BY <1>3 DEF Promised, settings, stores, game
<1> QED BY <1>1, <1>2, <1>4 DEF BusInv

LEMMA PostKnows == Post => maxControllers' \in {0, 4}
  BY DEF Post

\* Where the read DMA may be.
Reading == {"ready", "polling"} \union Looking \union Inside

\* The read DMA's end: it forgets the port, and has answered every port asked about.
LEMMA Ends ==
    ASSUME BusInv, stage \in Reading, Served, UNCHANGED <<settings, game>>, lost' \in BOOLEAN,
           bank' \in [Ports -> Bytes \union {0}], motor' \in [Ports -> BOOLEAN],
           save' \in [Ports -> Bytes \union {0}], answers' \in [Ports -> A!Answer],
           lost' \/ \A p \in Asked : answers'[p] # A!Unanswered
    PROVE  BusInv' /\ SeenOf' = A!Unseen
<1>1. stage' = "served" /\ route' = NoRoute /\ maxControllers' \in {0, 4}
  BY PostKnows DEF Served
<1>2. NoRoute.port = 0 /\ NoRoute \in [port : Ports, base : -1 .. 3, pak : A!Kinds]
  BY DEF NoRoute, Ports, A!Kinds
<1>3. Typed'
  BY <1>1, <1>2 DEF BusInv, Typed, settings, game, Stages
<1>4. Framed' /\ Fresh' /\ RightPort'
  BY <1>1 DEF BusInv, Framed, Fresh, RightPort, game, Reading, Looking, Inside
<1>5. Behind'
  BY <1>1, <1>2 DEF Behind, Ports
<1>6. Asked' = Asked
  BY DEF Asked, game
<1>7. Told'
  BY <1>6 DEF Told
<1>8. SeenOf' = A!Unseen
  BY <1>1 DEF SeenOf, Knows, A!Unseen
<1> QED BY <1>3, <1>4, <1>5, <1>7, <1>8 DEF BusInv

\* The read DMA takes a frame for what it is, whenever it looks at its bytes.
LEMMA Recognised ==
    ASSUME BusInv, op \in A!Ops
    PROVE  /\ ShortStatus <=> op \in A!Status
           /\ IsPoll <=> op \in A!Poll
           /\ \A port \in Ports : \A base : Addressed(port, base) =>
                /\ op \notin A!Poll /\ port = op.port
                /\ op \in A!Pak => CommandAt(base + 1, op)
<1>1. CASE op \in A!Pak /\ frame = Channel(op, <<>>)
  <2>1. ~ShortStatus /\ ShortPak /\ ShortChannel = op.port /\ CommandAt(op.port, op)
    BY <1>1, PlainRoute, PlainFrame, Zenon
  <2>2. op.port \in Nat
    BY <1>1, KindsOf DEF Ports
  <2>3. ASSUME NEW port \in Ports, NEW base, Addressed(port, base)
        PROVE  port = op.port /\ CommandAt(base + 1, op)
    <3>1. port = op.port /\ base = op.port - 1
      BY <2>1, <2>3 DEF Addressed
    <3>2. base + 1 = op.port
      BY <2>2, <3>1
    <3> QED BY <2>1, <3>1, <3>2
  <2> QED BY <1>1, <2>1, <2>3, Disjoint DEF IsPoll
<1>2. CASE op \in A!Pak /\ frame = Channel(op, Mark)
  <2>1. ~ShortStatus /\ ~ShortPak /\ \A ch \in Ports : DummyPak(ch) <=> ch = op.port
    BY <1>2, DummyRoute, Zenon
  <2>2. CommandAt(op.port + 1, op)
    BY <1>2, DummyFrame, Zenon
  <2>3. op.port \in Ports
    BY <1>2, KindsOf
  <2>4. ASSUME NEW port \in Ports, NEW base, Addressed(port, base)
        PROVE  port = op.port /\ CommandAt(base + 1, op)
    <3>1. port = op.port /\ base = op.port
      BY <2>1, <2>4 DEF Addressed
    <3> QED BY <2>2, <3>1
  <2> QED BY <1>2, <2>1, <2>3, <2>4, Disjoint DEF IsPoll
<1>3. CASE op \in A!Status
  <2>1. frame = Channel(op, <<>>)
    BY <1>3 DEF BusInv, Framed
  <2>2. ShortChannel = op.port /\ ShortStatus
    BY <1>3, <2>1, StatusFrame, Zenon
  <2> QED BY <1>3, <2>2, Disjoint DEF IsPoll, Addressed
<1>4. CASE op \in A!Poll
  <2>1. PICK n \in {0, 4} : frame = PollFrame(op, n)
    BY <1>4 DEF BusInv, Framed
  <2>2. ~ShortStatus /\ ~ShortPak /\ \A ch \in Ports : ~DummyPak(ch)
    BY <1>4, <2>1, PollRoute
  <2> QED BY <1>4, <2>2, Disjoint DEF IsPoll, Addressed
<1> QED BY <1>1, <1>2, <1>3, <1>4, Disjoint DEF BusInv, Framed

-----------------------------------------------------------------------------
(* The player and the game thread.                                         *)

\* What a port is told is an answer, and never the bytes packed in its place.
LEMMA Says ==
    /\ \A k \in {"none", "error", "ack", "buttons"} : A!Say(k, 0) \in A!Answer /\ A!Say(k, 0) # A!Unanswered
    /\ \A b \in Bytes \union {0, 128} : A!Say("data", b) \in A!Answer /\ A!Say("data", b) # A!Unanswered
    /\ \A b \in {0, 1} : A!Say("status", b) \in A!Answer /\ A!Say("status", b) # A!Unanswered
<1>1. \A k, b : k # "placeholder" => A!Say(k, b) # A!Unanswered
  BY DEF A!Say, A!Unanswered
<1>2. \A k \in {"none", "error", "ack", "buttons"} : A!Say(k, 0) \in A!Answer
  BY DEF A!Say, A!Answer
<1>3. \A b \in Bytes \union {0, 128} : A!Say("data", b) \in A!Answer
  BY DEF A!Say, A!Answer
<1>4. \A b \in {0, 1} : A!Say("status", b) \in A!Answer
  BY DEF A!Say, A!Answer
<1>5. \A k \in {"none", "error", "ack", "buttons", "data", "status"} : k # "placeholder"
  OBVIOUS
<1> QED BY <1>1, <1>2, <1>3, <1>4, <1>5

\* The player.
LEMMA PlayerMeets ==
    ASSUME BusInv, NEW p \in PlayerPorts, Assign(p) \/ \E a \in A!Kinds : SetPak(p, a)
    PROVE  BusInv' /\ Promised
<1>1. p \in Ports
  BY JoyBusAssumption
<1>2. CASE Assign(p)
  <2>1. Typed'
    BY <1>1, <1>2 DEF Assign, BusInv, Typed, stores, game
  <2>2. BusInv' /\ SeenOf' = SeenOf
    BY <1>2, <2>1, Same DEF Assign, game
  <2>3. A!Assign(p)
    BY <1>2, <2>2 DEF Assign, A!Assign, A!stores, stores, game
  <2> QED BY <1>1, <2>2, <2>3 DEF Promised, A!Next
<1>3. ASSUME NEW a \in A!Kinds, SetPak(p, a) PROVE BusInv' /\ Promised
  <2>1. Typed'
    BY <1>1, <1>3 DEF SetPak, BusInv, Typed, stores, game
  <2>2. BusInv' /\ SeenOf' = SeenOf
    BY <1>3, <2>1, Same DEF SetPak, game
  <2>3. A!SetPak(p, a)
    BY <1>3, <2>2 DEF SetPak, A!SetPak, A!stores, stores, game
  <2> QED BY <1>1, <2>2, <2>3 DEF Promised, A!Next
<1> QED BY <1>2, <1>3

LEMMA PackMeets ==
    ASSUME BusInv, NEW o \in A!Ops, NEW dummy \in BOOLEAN, Pack(o, dummy)
    PROVE  BusInv' /\ Promised
<1>1. /\ op = NoOp /\ op' = o /\ stage = "idle" /\ stage' = "packed" /\ frame' = Encode(o, dummy)
      /\ answers' = [p \in Ports |-> A!Unanswered] /\ (dummy => o \in A!Pak)
      /\ UNCHANGED <<settings, stores, route, lost, siQueue, maxControllers>>
  BY DEF Pack, BusInv, Framed
<1>2. Typed'
  BY <1>1 DEF BusInv, Typed, settings, stores, Stages, A!Answer, A!Unanswered
<1>3. Framed'
  BY <1>1, Encoded, NoOpAssumption DEF BusInv, Typed, Framed
<1>4. route' = NoRoute
  BY <1>1 DEF BusInv, RightPort, Looking, Inside
<1>5. Fresh' /\ Behind' /\ RightPort' /\ Told'
  BY <1>1, <1>4 DEF Fresh, Behind, RightPort, Told, Looking, Inside, NoRoute, Ports
<1>6. SeenOf' = SeenOf
  BY <1>1 DEF SeenOf, Knows
<1>7. A!Ask(o)
  BY <1>1, <1>6 DEF A!Ask, A!stores, A!settings, stores, settings
<1> QED BY <1>2, <1>3, <1>5, <1>7 DEF BusInv, Promised, A!Next

LEMMA ParseMeets == ASSUME BusInv, Parse PROVE BusInv' /\ Promised
<1>1. /\ op # NoOp /\ op' = NoOp /\ stage = "parsed" /\ stage' = "idle" /\ lost' = FALSE
      /\ answers' = [p \in Ports |-> A!Unanswered]
      /\ UNCHANGED <<settings, stores, route, siQueue, maxControllers>>
  BY DEF Parse, BusInv, Framed
<1>2. Typed'
  BY <1>1 DEF BusInv, Typed, settings, stores, Stages, A!Answer, A!Unanswered
<1>3. op' \notin A!Pak /\ op' \notin A!Status /\ op' \notin A!Poll
  BY <1>1, NoOpAssumption, Disjoint
<1>4. route' = NoRoute
  BY <1>1 DEF BusInv, RightPort, Looking, Inside
<1>5. Framed' /\ Fresh' /\ Behind' /\ RightPort' /\ Told'
  BY <1>1, <1>3, <1>4 DEF Framed, Fresh, Behind, RightPort, Told, Looking, Inside
<1>6. SeenOf = A!Unseen /\ SeenOf' = A!Unseen
  BY <1>1 DEF SeenOf, Knows, A!Unseen
<1>7. A!Finish
  BY <1>1, <1>6 DEF A!Finish, A!stores, A!settings, stores, settings
<1> QED BY <1>2, <1>5, <1>7 DEF BusInv, Promised, A!Next

LEMMA DmaMeets ==
    ASSUME BusInv, WriteDma \/ Receive("sent", "ready") \/ Receive("served", "parsed") \/ Skip
    PROVE  BusInv' /\ Promised
<1>1. maxControllers' \in {0, 4}
  BY DEF BusInv, Typed, WriteDma, Receive, Skip, Post
<1>2. CASE WriteDma
  BY <1>1, <1>2, Moved DEF WriteDma, settings, stores, game
<1>3. CASE Receive("sent", "ready")
  BY <1>1, <1>3, Moved DEF Receive, settings, stores, game
<1>4. CASE Receive("served", "parsed") \/ Skip
  BY <1>1, <1>4, Moved DEF Receive, Skip, settings, stores, game
<1> QED BY <1>2, <1>3, <1>4

-----------------------------------------------------------------------------
(* The read DMA.                                                           *)

\* What Accessories sees of the port being served.
LEMMA SeenAs ==
    ASSUME BusInv
    PROVE  /\ route.port \in Ports
           /\ SeenOf[route.port] = Knows
           /\ \A p \in Ports : p # route.port => SeenOf[p] = "unknown"
           /\ A!Unseen = [SeenOf EXCEPT ![route.port] = "unknown"]
<1>1. route.port \in Ports
  BY DEF BusInv, Typed
<1> QED BY <1>1 DEF SeenOf, A!Unseen

\* A look at the port being served.
LEMMA SeenMore ==
    ASSUME BusInv, route'.port \in Ports, Knows = "unknown" \/ route'.port = route.port
    PROVE  SeenOf' = [SeenOf EXCEPT ![route'.port] = Knows']
<1>1. route.port \in Ports
  BY DEF BusInv, Typed
<1> QED BY <1>1 DEF SeenOf

\* The port being served waits for an answer.
LEMMA Unserved ==
    ASSUME BusInv, stage \in Reading \ {"ready"}
    PROVE  /\ op # NoOp /\ op \in A!Ops /\ route.port \in Ports
           /\ route.port \in A!Asks(op) /\ answers[route.port] = A!Unanswered
           /\ (op \notin A!Poll => Asked = {route.port})
<1>1. op # NoOp /\ op \in A!Ops /\ route.port \in Ports
  BY DEF BusInv, Typed, Framed, Reading, Looking, Inside
<1>2. op \notin A!Poll => route.port = op.port
  <2>1. stage = "polling" \/ stage \in Looking \union Inside
    BY DEF Reading
  <2> QED BY <2>1 DEF BusInv, RightPort
<1>3. answers[route.port] = A!Unanswered
  <2>1. stage \notin {"served", "parsed"} /\ route.port >= route.port
    BY <1>1 DEF Reading, Looking, Inside, Ports
  <2> QED BY <1>1, <2>1 DEF BusInv, Fresh
<1> QED BY <1>1, <1>2, <1>3 DEF A!Asks, Asked

\* The address was corrupt: nothing but the event.
LEMMA LostMeets == ASSUME BusInv, ReadLost PROVE BusInv' /\ Promised
<1>1. stage = "ready" /\ lost' = TRUE /\ Served /\ UNCHANGED <<settings, stores, game, answers>>
  BY DEF ReadLost
<1>2. BusInv' /\ SeenOf' = A!Unseen
  BY <1>1, Ends DEF BusInv, Typed, settings, stores, game, Reading
<1>3. SeenOf = A!Unseen
  BY <1>1 DEF SeenOf, Knows, A!Unseen
<1> QED BY <1>1, <1>2, <1>3 DEF Promised, settings, stores, game

\* A look that finds more: the transaction goes on with what it has seen.
LEMMA LooksOn ==
    ASSUME BusInv, UNCHANGED <<settings, stores, game, answers, lost, siQueue, maxControllers>>,
           stage \in Reading, stage' \in Looking \union Inside,
           route' \in [port : Ports, base : -1 .. 3, pak : A!Kinds],
           op \in A!Poll => route'.port = route.port /\ stage' \in Looking /\ op.kind = "detect",
           op \notin A!Poll => route'.port = op.port,
           op \in A!Pak => CommandAt(route'.base + 1, op),
           stage' \in Inside => op \in A!Pak
    PROVE  BusInv'
<1>1. Typed'
  BY DEF BusInv, Typed, settings, stores, game, Stages, Looking, Inside
<1>2. Framed' /\ Told'
  BY DEF BusInv, Framed, Told, game, Reading, Looking, Inside
<1>3. RightPort'
  <2>1. \A k : Byte(k)' = Byte(k)
    BY DEF Byte, game
  <2>2. CommandAt(route.base + 1, op)' <=> CommandAt(route'.base + 1, op)
    BY <2>1 DEF CommandAt, Triple, game
  <2> QED BY <2>2 DEF RightPort, game, Looking, Inside
<1>4. Fresh' /\ Behind'
  BY DEF BusInv, Fresh, Behind, game, Reading, Looking, Inside
<1> QED BY <1>1, <1>2, <1>3, <1>4 DEF BusInv

\* The frame's port is there.
LEMMA ConnectedMeets == ASSUME BusInv, Connected PROVE BusInv' /\ Promised
<1>1. PICK port \in Ports, base \in -1 .. 3 :
        /\ stage = "ready" /\ Addressed(port, base) /\ connected[port]
        /\ stage' = "connected"
        /\ route' = [port |-> port, base |-> base, pak |-> "none"]
        /\ UNCHANGED <<settings, stores, game, answers, lost, siQueue, maxControllers>>
  BY DEF Connected
<1>2. op # NoOp /\ op \in A!Ops
  BY <1>1 DEF BusInv, Typed, Framed
<1>3. op \notin A!Poll /\ port = op.port /\ (op \in A!Pak => CommandAt(base + 1, op))
  BY <1>1, <1>2, Recognised
<1>4. route' \in [port : Ports, base : -1 .. 3, pak : A!Kinds] /\ route'.port = port /\ route'.base = base
  BY <1>1 DEF A!Kinds
<1>5. BusInv'
  BY <1>1, <1>3, <1>4, LooksOn DEF Reading, Looking, Inside
<1>6. Knows = "unknown" /\ Knows' = "plugged" /\ SeenOf[port] = "unknown"
  BY <1>1 DEF Knows, SeenOf
<1>7. SeenOf' = [SeenOf EXCEPT ![port] = "plugged"]
  BY <1>4, <1>6, SeenMore
<1>8. answers[port] = A!Unanswered
  BY <1>1, <1>3 DEF BusInv, Fresh
<1>9. A!Notice(port)
  BY <1>1, <1>2, <1>3, <1>6, <1>7, <1>8
     DEF A!Notice, A!Waits, A!Asks, A!Look, A!stores, A!settings, settings, stores, game
<1> QED BY <1>5, <1>9 DEF Promised, A!Next

\* One port is answered, and the read DMA ends.
LEMMA Answered ==
    ASSUME BusInv, stage \in Reading, op \in A!Ops, op \notin A!Poll, NEW a \in A!Answer, a # A!Unanswered,
           answers' = [answers EXCEPT ![op.port] = a],
           Served, UNCHANGED <<settings, game, lost>>,
           bank' \in [Ports -> Bytes \union {0}], motor' \in [Ports -> BOOLEAN],
           save' \in [Ports -> Bytes \union {0}]
    PROVE  BusInv' /\ SeenOf' = A!Unseen
<1>1. op.port \in Ports /\ Asked = {op.port}
  BY KindsOf, Disjoint DEF Asked
<1>2. answers \in [Ports -> A!Answer] /\ lost \in BOOLEAN
  BY DEF BusInv, Typed
<1>3. answers' \in [Ports -> A!Answer] /\ \A p \in Asked : answers'[p] # A!Unanswered
  BY <1>1, <1>2
<1> QED BY <1>2, <1>3, Ends

\* The frame's port is not there.
LEMMA NotConnectedMeets == ASSUME BusInv, NotConnected PROVE BusInv' /\ Promised
<1>1. PICK port \in Ports, base \in -1 .. 3 :
        /\ stage = "ready" /\ Addressed(port, base) /\ ~connected[port]
        /\ answers' = [answers EXCEPT ![port] = A!Say("none", 0)]
        /\ Served /\ UNCHANGED <<settings, stores, game, lost>>
  BY DEF NotConnected
<1>2. op # NoOp /\ op \in A!Ops
  BY <1>1 DEF BusInv, Typed, Framed
<1>3. op \notin A!Poll /\ port = op.port
  BY <1>1, <1>2, Recognised
<1>4. BusInv' /\ SeenOf' = A!Unseen
  BY <1>1, <1>2, <1>3, Says, Answered DEF Reading, BusInv, Typed, stores
<1>5. SeenOf = A!Unseen /\ A!Unseen[port] = "unknown" /\ A!Unseen = [A!Unseen EXCEPT ![port] = "unknown"]
  BY <1>1 DEF SeenOf, Knows, A!Unseen
<1>6. answers[port] = A!Unanswered
  BY <1>1, <1>3 DEF BusInv, Fresh
<1>7. A!Absent(port)
  BY <1>1, <1>2, <1>3, <1>4, <1>5, <1>6
     DEF A!Absent, A!Waits, A!Asks, A!Tell, A!stores, A!settings, settings, stores, game
<1> QED BY <1>4, <1>7 DEF Promised, A!Next

\* The loop over the ports begins.
LEMMA BeginMeets == ASSUME BusInv, BeginPoll PROVE BusInv' /\ Promised
<1>1. /\ stage = "ready" /\ IsPoll /\ stage' = "polling"
      /\ UNCHANGED <<settings, stores, game, answers, route, lost, siQueue, maxControllers>>
  BY DEF BeginPoll
<1>2. op \in A!Poll
  <2>1. op \in A!Ops
    BY <1>1 DEF BusInv, Typed, Framed
  <2> QED BY <1>1, <2>1, Recognised
<1>3. Typed' /\ Framed' /\ Fresh' /\ Behind' /\ RightPort' /\ Told'
  BY <1>1, <1>2 DEF BusInv, Typed, Framed, Fresh, Behind, RightPort, Told, settings, stores, game,
     Stages, Looking, Inside
<1>4. SeenOf' = SeenOf
  BY <1>1 DEF SeenOf, Knows
<1> QED BY <1>1, <1>3, <1>4 DEF BusInv, Promised, settings, stores, game

\* One port of a poll is done.
LEMMA NextPortMeets ==
    ASSUME BusInv, op \in A!Poll, stage \in Looking \union {"polling"}, NextPort,
           answers' \in [Ports -> A!Answer],
           \A p \in Ports \ {route.port} : answers'[p] = answers[p],
           frame.blocks > 0 => answers'[route.port] # A!Unanswered
    PROVE  BusInv' /\ SeenOf' = A!Unseen /\ UNCHANGED <<settings, stores, op>>
<1>1. UNCHANGED <<settings, stores, game, lost>> /\ UNCHANGED op
  BY DEF NextPort, game
<1>2. route.port \in 0 .. 3
  BY DEF BusInv, Typed, Ports
<1>3. \A p \in Ports : p < route.port \/ p = route.port \/ p > route.port
  BY <1>2 DEF Ports
<1>4. ASSUME NEW p \in Ports, frame.blocks > 0, p <= route.port PROVE answers'[p] # A!Unanswered
  <2>1. CASE p = route.port
    BY <1>4, <2>1
  <2>2. CASE p < route.port
    BY <1>4, <2>2 DEF BusInv, Behind
  <2> QED BY <1>2, <1>4, <2>1, <2>2 DEF Ports
<1>5. CASE route.port < 3
  <2>1. stage' = "polling" /\ route' = [NoRoute EXCEPT !.port = route.port + 1]
        /\ UNCHANGED <<siQueue, maxControllers>>
    BY <1>5 DEF NextPort
  <2>2. route' \in [port : Ports, base : -1 .. 3, pak : A!Kinds] /\ route'.port = route.port + 1
    BY <1>2, <1>5, <2>1 DEF NoRoute, Ports, A!Kinds
  <2>3. Typed'
    BY <1>1, <2>1, <2>2 DEF BusInv, Typed, settings, stores, game, Stages
  <2>4. Framed' /\ RightPort' /\ Told'
    BY <1>1, <2>1 DEF BusInv, Framed, RightPort, Told, game, Looking, Inside
  <2>5. Fresh'
    <3>1. ASSUME NEW p \in Ports, p >= route.port + 1 PROVE answers'[p] = A!Unanswered
      <4>1. p # route.port /\ p >= route.port
        BY <1>2, <3>1 DEF Ports
      <4>2. answers[p] = A!Unanswered
        BY <4>1 DEF BusInv, Fresh, Looking
      <4> QED BY <4>1, <4>2
    <3> QED BY <1>1, <2>2, <3>1 DEF Fresh
  <2>6. Behind'
    <3>1. ASSUME NEW p \in Ports, frame.blocks > 0, p < route.port + 1 PROVE answers'[p] # A!Unanswered
      BY <1>2, <1>4, <3>1 DEF Ports
    <3> QED BY <1>1, <2>2, <3>1 DEF Behind, game
  <2>7. SeenOf' = A!Unseen
    BY <2>1 DEF SeenOf, Knows, A!Unseen
  <2> QED BY <1>1, <2>3, <2>4, <2>5, <2>6, <2>7 DEF BusInv
<1>6. CASE ~(route.port < 3)
  <2>1. Served
    BY <1>6 DEF NextPort
  <2>2. Asked = {p \in Ports : frame.blocks > 0}
    BY DEF Asked
  <2>3. \A p \in Asked : answers'[p] # A!Unanswered
    BY <1>2, <1>4, <1>6, <2>2 DEF Ports
  <2>4. BusInv' /\ SeenOf' = A!Unseen
    BY <1>1, <2>1, <2>3, Ends DEF BusInv, Typed, settings, stores, game, Reading, Looking
  <2> QED BY <1>1, <2>4
<1> QED BY <1>5, <1>6

\* What a poll's block asks its port.
LEMMA PollAsks ==
    ASSUME BusInv, op \in A!Poll
    PROVE  /\ frame.blocks > 0 => PollCommand = IF op.kind = "detect" THEN 0 ELSE 1
           /\ PollCommand \in {0, 1} => PollCommand = IF op.kind = "detect" THEN 0 ELSE 1
           /\ op.kind \in {"detect", "buttons"}
<1>1. route.port \in Ports
  BY DEF BusInv, Typed
<1>2. CASE frame = PollFrame(op, 4)
  <2>1. Byte(8 * route.port + 3) = IF op.kind = "detect" THEN 0 ELSE 1
    BY <1>1, <1>2, Polled
  <2> QED BY <2>1, KindsOf DEF PollCommand
<1>3. CASE frame = PollFrame(op, 0)
  <2>1. 8 * route.port + 3 \in Nat \ {0}
    BY <1>1 DEF Ports
  <2>2. Byte(8 * route.port + 3) = 255
    BY <1>3, <2>1, NotYetPolled
  <2>3. frame.blocks = 0
    BY <1>3 DEF PollFrame
  <2> QED BY <2>2, <2>3, KindsOf DEF PollCommand
<1> QED BY <1>2, <1>3 DEF BusInv, Framed

\* A port of a poll answers: the loop goes on, and Accessories is told.
LEMMA PollTells ==
    ASSUME BusInv, op \in A!Poll, stage \in Looking \union {"polling"}, NextPort,
           NEW k, NEW b, A!Say(k, b) \in A!Answer, A!Say(k, b) # A!Unanswered,
           answers' = [answers EXCEPT ![route.port] = A!Say(k, b)]
    PROVE  BusInv' /\ A!Tell(route.port, k, b) /\ UNCHANGED stores
<1>1. route.port \in Ports /\ answers \in [Ports -> A!Answer]
  BY DEF BusInv, Typed
<1>2. /\ answers' \in [Ports -> A!Answer] /\ answers'[route.port] # A!Unanswered
      /\ \A p \in Ports \ {route.port} : answers'[p] = answers[p]
  BY <1>1
<1>3. BusInv' /\ SeenOf' = A!Unseen /\ UNCHANGED <<settings, stores, op>>
  BY <1>2, NextPortMeets
<1>4. SeenOf' = [SeenOf EXCEPT ![route.port] = "unknown"]
  BY <1>3, SeenAs
<1> QED BY <1>3, <1>4 DEF A!Tell, A!settings, settings

LEMMA PollMeets ==
    ASSUME BusInv, PassOver \/ PollAbsent \/ PollConnected \/ PollButtons
    PROVE  BusInv' /\ Promised
<1>1. stage = "polling" /\ op \in A!Poll
  BY DEF PassOver, PollAbsent, PollConnected, PollButtons, BusInv, RightPort
<1>2. /\ op # NoOp /\ route.port \in Ports /\ route.port \in A!Asks(op)
      /\ answers[route.port] = A!Unanswered
  BY <1>1, Unserved DEF Reading
<1>3. Knows = "unknown" /\ SeenOf[route.port] = "unknown"
  BY <1>1, SeenAs DEF Knows
<1>4. CASE PassOver
  <2>1. ~(frame.blocks > 0)
    BY <1>1, <1>4, PollAsks DEF PassOver
  <2>2. NextPort /\ answers' = answers
    BY <1>4 DEF PassOver
  <2>3. answers \in [Ports -> A!Answer]
    BY DEF BusInv, Typed
  <2>4. BusInv' /\ SeenOf' = A!Unseen /\ UNCHANGED <<settings, stores, op>>
    BY <1>1, <2>1, <2>2, <2>3, NextPortMeets
  <2>5. SeenOf = A!Unseen
    BY <1>1 DEF SeenOf, Knows, A!Unseen
  <2> QED BY <2>2, <2>4, <2>5 DEF Promised, settings, stores
<1>5. CASE PollAbsent
  <2>1. BusInv' /\ A!Tell(route.port, "none", 0) /\ UNCHANGED stores
    BY <1>1, <1>5, Says, PollTells DEF PollAbsent
  <2>2. A!Absent(route.port)
    BY <1>2, <1>3, <1>5, <2>1 DEF PollAbsent, A!Absent, A!Waits, A!stores, stores
  <2> QED BY <1>2, <2>1, <2>2 DEF Promised, A!Next
<1>6. CASE PollButtons
  <2>1. BusInv' /\ A!Tell(route.port, "buttons", 0) /\ UNCHANGED stores
    BY <1>1, <1>6, Says, PollTells DEF PollButtons
  <2>2. op.kind = "buttons"
    BY <1>1, <1>6, PollAsks DEF PollButtons
  <2>3. A!TellButtons(route.port)
    BY <1>2, <1>3, <1>6, <2>1, <2>2 DEF PollButtons, A!TellButtons, A!Waits, A!stores, stores
  <2> QED BY <1>2, <2>1, <2>3 DEF Promised, A!Next
<1>7. CASE PollConnected
  <2>1. /\ PollCommand = 0 /\ connected[route.port] /\ stage' = "connected"
        /\ UNCHANGED <<settings, stores, game, answers, route, lost, siQueue, maxControllers>>
    BY <1>7 DEF PollConnected
  <2>2. op.kind = "detect"
    BY <1>1, <2>1, PollAsks
  <2>3. BusInv'
    BY <1>1, <2>1, <2>2, LooksOn, Disjoint DEF BusInv, Typed, Reading, Looking, Inside
  <2>4. SeenOf' = [SeenOf EXCEPT ![route.port] = "plugged"]
    <3>1. Knows' = "plugged" /\ route'.port = route.port
      BY <2>1 DEF Knows
    <3> QED BY <1>2, <3>1, SeenMore
  <2>5. A!Notice(route.port)
    BY <1>2, <1>3, <2>1, <2>4 DEF A!Notice, A!Waits, A!Look, A!stores, A!settings, settings, stores, game
  <2> QED BY <1>2, <2>3, <2>5 DEF Promised, A!Next
<1> QED BY <1>4, <1>5, <1>6, <1>7

-----------------------------------------------------------------------------
(* bar_port_pak.                                                           *)

\* The second look at the connection shows Accessories nothing new.
LEMMA CheckMeets == ASSUME BusInv, CheckPort PROVE BusInv' /\ Promised
<1>1. /\ stage \in {"connected", "routed"}
      /\ stage' = IF stage = "connected" THEN "checked" ELSE "reached"
      /\ UNCHANGED <<settings, stores, game, answers, route, lost, siQueue, maxControllers>>
  BY DEF CheckPort
<1>2. BusInv'
  BY <1>1, LooksOn, Disjoint DEF BusInv, Typed, RightPort, Reading, Looking, Inside
<1>3. SeenOf' = SeenOf
  BY <1>1 DEF SeenOf, Knows
<1> QED BY <1>1, <1>2, <1>3 DEF Promised, settings, stores, game

\* What it returns is what a look at the port's accessory may find.
LEMMA Found ==
    ASSUME BusInv, NEW a \in A!Kinds, NEW asked, NEW checked, Returns(a, asked, checked)
    PROVE  stage \in {asked, checked} /\ a \in A!Accessory(route.port)
  BY DEF Returns, A!Accessory

LEMMA TellStatusMeets ==
    ASSUME BusInv, NEW a \in A!Kinds, TellStatus(a) \/ PollStatus(a)
    PROVE  BusInv' /\ Promised
<1>1. stage \in {"connected", "checked"} /\ a \in A!Accessory(route.port)
  BY Found DEF TellStatus, PollStatus
<1>2. /\ op # NoOp /\ op \in A!Ops /\ route.port \in Ports /\ route.port \in A!Asks(op)
      /\ answers[route.port] = A!Unanswered /\ stage \in Reading
  BY <1>1, Unserved DEF Reading, Looking
<1>3. SeenOf[route.port] = "plugged"
  BY <1>1, SeenAs DEF Knows
<1>4. PICK b \in {0, 1} : b = IF a = "none" THEN 0 ELSE 1
  OBVIOUS
<1>5. A!Say("status", b) \in A!Answer /\ A!Say("status", b) # A!Unanswered
  BY Says
<1>6. answers' = [answers EXCEPT ![route.port] = A!Say("status", b)]
  BY <1>4 DEF TellStatus, PollStatus
<1>7. BusInv' /\ A!Tell(route.port, "status", b) /\ UNCHANGED stores /\ op.kind \in {"status", "detect"}
  <2>1. CASE TellStatus(a)
    <3>1. op \in A!Status /\ op \notin A!Poll /\ op.port = route.port /\ op.kind = "status"
      BY <1>1, <1>2, <2>1, Recognised, Disjoint, KindsOf DEF TellStatus, BusInv, RightPort, Looking
    <3>2. Served /\ UNCHANGED <<settings, stores, game, lost>>
      BY <2>1 DEF TellStatus
    <3>3. BusInv' /\ SeenOf' = A!Unseen
      BY <1>2, <1>5, <1>6, <3>1, <3>2, Answered DEF BusInv, Typed, stores
    <3>4. SeenOf' = [SeenOf EXCEPT ![route.port] = "unknown"]
      BY <3>3, SeenAs
    <3> QED BY <1>6, <3>1, <3>2, <3>3, <3>4 DEF A!Tell, A!settings, settings, game
  <2>2. CASE PollStatus(a)
    <3>1. op \in A!Poll
      BY <1>2, <2>2, Recognised DEF PollStatus
    <3>2. op.kind = "detect"
      BY <1>1, <3>1 DEF BusInv, RightPort, Looking
    <3>3. NextPort /\ stage \in Looking
      BY <1>1, <2>2 DEF PollStatus, Looking
    <3> QED BY <1>5, <1>6, <3>1, <3>2, <3>3, PollTells
  <2> QED BY <2>1, <2>2
<1>8. A!TellStatus(route.port)
  BY <1>1, <1>2, <1>3, <1>4, <1>7 DEF A!TellStatus, A!Waits, A!stores, stores
<1> QED BY <1>2, <1>7, <1>8 DEF Promised, A!Next

\* A pak's frame is let in, or turned away.
LEMMA RouteMeets ==
    ASSUME BusInv, NEW a \in A!Kinds, Route(a) \/ Refuse(a)
    PROVE  BusInv' /\ Promised
<1>1. stage \in {"connected", "checked"} /\ a \in A!Accessory(route.port) /\ ~ShortStatus /\ ~IsPoll
  BY Found DEF Route, Refuse
<1>2. /\ op # NoOp /\ op \in A!Ops /\ route.port \in Ports /\ route.port \in A!Asks(op)
      /\ answers[route.port] = A!Unanswered /\ stage \in Reading
  BY <1>1, Unserved DEF Reading, Looking
<1>3. op \in A!Pak /\ op \notin A!Poll
  BY <1>1, <1>2, Recognised, Disjoint
<1>4. route.port = op.port /\ CommandAt(route.base + 1, op)
  BY <1>1, <1>3 DEF BusInv, RightPort, Looking
<1>5. SeenOf[route.port] = "plugged"
  BY <1>1, SeenAs DEF Knows
<1>6. CASE Route(a)
  <2>1. /\ a # "none" /\ stage' = "routed"
        /\ UNCHANGED <<settings, stores, game, answers, route, lost, siQueue, maxControllers>>
    BY <1>6 DEF Route
  <2>2. BusInv'
    BY <1>2, <1>3, <1>4, <2>1, LooksOn DEF BusInv, Typed, Inside
  <2>3. SeenOf' = [SeenOf EXCEPT ![route.port] = "admitted"]
    <3>1. Knows' = "admitted" /\ route'.port = route.port
      BY <2>1 DEF Knows
    <3> QED BY <1>2, <3>1, SeenMore
  <2>4. A!Accessory(route.port) \intersect A!HasPak # {}
    BY <1>1, <2>1 DEF A!Kinds, A!HasPak
  <2>5. A!Admit(route.port)
    BY <1>2, <1>3, <1>5, <2>1, <2>3, <2>4
       DEF A!Admit, A!Waits, A!Look, A!stores, A!settings, settings, stores, game
  <2> QED BY <1>2, <2>2, <2>5 DEF Promised, A!Next
<1>7. CASE Refuse(a)
  <2>1. /\ a = "none" /\ answers' = [answers EXCEPT ![route.port] = A!Say("none", 0)]
        /\ Served /\ UNCHANGED <<settings, stores, game, lost>>
    BY <1>7 DEF Refuse
  <2>2. BusInv' /\ SeenOf' = A!Unseen
    BY <1>2, <1>3, <1>4, <2>1, Says, Answered DEF BusInv, Typed, stores
  <2>3. SeenOf' = [SeenOf EXCEPT ![route.port] = "unknown"]
    BY <2>2, SeenAs
  <2>4. A!Refuse(route.port)
    BY <1>1, <1>2, <1>3, <1>5, <2>1, <2>3
       DEF A!Refuse, A!Waits, A!Tell, A!stores, A!settings, settings, stores, game
  <2> QED BY <1>2, <2>2, <2>4 DEF Promised, A!Next
<1> QED BY <1>6, <1>7

-----------------------------------------------------------------------------
(* bar_handle_pak.                                                         *)

\* It looks the accessory up for itself.
LEMMA FindPakMeets ==
    ASSUME BusInv, NEW a \in A!Kinds, FindPak(a)
    PROVE  BusInv' /\ Promised
<1>1. /\ stage \in {"routed", "reached"} /\ a \in A!Accessory(route.port)
      /\ stage' = "handling" /\ route' = [route EXCEPT !.pak = a]
      /\ UNCHANGED <<settings, stores, game, answers, lost, siQueue, maxControllers>>
  BY Found DEF FindPak
<1>2. /\ op # NoOp /\ op \in A!Ops /\ route.port \in Ports /\ route.port \in A!Asks(op)
      /\ answers[route.port] = A!Unanswered /\ stage \in Reading
  BY <1>1, Unserved DEF Reading, Inside
<1>3. op \in A!Pak /\ op \notin A!Poll /\ route.port = op.port /\ CommandAt(route.base + 1, op)
  BY <1>1, Disjoint DEF BusInv, RightPort, Inside
<1>4. /\ route' \in [port : Ports, base : -1 .. 3, pak : A!Kinds]
      /\ route'.port = route.port /\ route'.base = route.base /\ route'.pak = a
  BY <1>1 DEF BusInv, Typed
<1>5. BusInv'
  BY <1>1, <1>2, <1>3, <1>4, LooksOn DEF Inside
<1>6. SeenOf[route.port] = "admitted"
  BY <1>1, SeenAs DEF Knows
<1>7. SeenOf' = [SeenOf EXCEPT ![route.port] = a]
  <2>1. Knows' = a
    BY <1>1, <1>4 DEF Knows
  <2> QED BY <1>2, <1>4, <2>1, SeenMore
<1>8. A!Lookup(route.port)
  BY <1>1, <1>2, <1>6, <1>7
     DEF A!Lookup, A!Waits, A!Look, A!stores, A!settings, settings, stores, game
<1> QED BY <1>2, <1>5, <1>8 DEF Promised, A!Next

\* What an accessory finds when it is asked: an admitted transaction, decoded.
LEMMA Asking ==
    ASSUME BusInv, stage = "handling"
    PROVE  /\ SeenOf[op.port] = route.pak /\ route.pak \in A!Kinds
           /\ op \in A!Pak /\ op.port \in Ports /\ route.port = op.port /\ op # NoOp
           /\ op.kind \in {"read", "write"} /\ op.space \in {"data", "identify", "gap", "motor"}
           /\ IsWrite <=> op.kind = "write"
           /\ op.kind = "write" => Written = op.byte
           /\ Block \in Nat
           /\ Block < 1024 <=> op.space = "data"
           /\ Block = 1024 <=> op.space = "identify"
           /\ Block = 1536 <=> op.space = "motor"
           /\ op.kind = "write" => op.byte \in Bytes
<1>1. op \in A!Pak /\ route.port = op.port /\ route.base \in Int /\ CommandAt(route.base + 1, op)
      /\ op # NoOp
  <2>1. route.base \in Int
    BY DEF BusInv, Typed
  <2> QED BY <2>1, Disjoint DEF BusInv, RightPort, Framed, Inside
<1>2. op.kind \in {"read", "write"} /\ op.port \in Ports /\ op.space \in {"data", "identify", "gap", "motor"}
  BY <1>1, KindsOf DEF A!Spaces
<1>3. op.kind = "write" => op.byte \in Bytes
  BY <1>1 DEF A!Pak
<1>4. /\ IsWrite <=> op.kind = "write"
      /\ Block = (CASE op.space = "data" -> 0 [] op.space = "identify" -> 1024
                    [] op.space = "gap" -> 1280 [] op.space = "motor" -> 1536)
      /\ op.kind = "write" => Written = op.byte
  BY <1>1, Decoded
<1>5. /\ Block \in Nat
      /\ Block < 1024 <=> op.space = "data"
      /\ Block = 1024 <=> op.space = "identify"
      /\ Block = 1536 <=> op.space = "motor"
  BY <1>2, <1>4
<1>6. SeenOf[op.port] = route.pak /\ route.pak \in A!Kinds
  BY <1>1, SeenAs DEF Knows, BusInv, Typed
<1> QED BY <1>1, <1>2, <1>3, <1>4, <1>5, <1>6

\* A reply tells the game what an accessory that performs the transaction says.
LEMMA ReplyMeets ==
    ASSUME BusInv, NEW b \in Bytes \union {0, 128}, Reply(b),
           bank' \in [Ports -> Bytes \union {0}], motor' \in [Ports -> BOOLEAN],
           save' \in [Ports -> Bytes \union {0}]
    PROVE  /\ BusInv'
           /\ IF op.kind = "write" THEN A!Perform("ack", 0) ELSE A!Perform("data", b)
<1>1. stage = "handling"
  BY DEF Reply
<1>2. /\ op \in A!Pak /\ op.port \in Ports /\ route.port = op.port /\ op.kind \in {"read", "write"}
      /\ (IsWrite <=> op.kind = "write") /\ SeenOf[op.port] \in A!Kinds
  BY <1>1, Asking
<1>3. PICK a : a = IF op.kind = "write" THEN A!Say("ack", 0) ELSE A!Say("data", b)
  OBVIOUS
<1>4. a \in A!Answer /\ a # A!Unanswered
  BY <1>3, Says
<1>5. answers' = [answers EXCEPT ![op.port] = a]
  BY <1>2, <1>3 DEF Reply
<1>6. Served /\ UNCHANGED <<settings, game, lost>>
  BY DEF Reply
<1>7. BusInv' /\ SeenOf' = A!Unseen
  BY <1>1, <1>2, <1>4, <1>5, <1>6, Answered, Disjoint DEF Reading, Inside
<1>8. SeenOf' = [SeenOf EXCEPT ![op.port] = "unknown"]
  BY <1>2, <1>7, SeenAs
<1> QED BY <1>2, <1>3, <1>5, <1>6, <1>7, <1>8 DEF A!Perform, A!Tell, A!settings, settings, game

LEMMA IdentifyMeets == ASSUME BusInv, HandleIdentify PROVE BusInv' /\ Promised
<1>1. stage = "handling" /\ op.space = "identify" /\ UNCHANGED <<motor, save>>
  BY Asking DEF HandleIdentify
<1>2. /\ op \in A!Pak /\ op.port \in Ports /\ route.port = op.port /\ op.kind \in {"read", "write"}
      /\ IsWrite <=> op.kind = "write"
      /\ op.kind = "write" => Written = op.byte /\ op.byte \in Bytes
  BY <1>1, Asking
<1>3. bank \in [Ports -> Bytes \union {0}] /\ motor \in [Ports -> BOOLEAN] /\ save \in [Ports -> Bytes \union {0}]
  BY DEF BusInv, Typed
<1>4. bank' = [bank EXCEPT ![op.port] = IF op.kind = "write" THEN op.byte ELSE @]
  BY <1>2 DEF HandleIdentify
<1>5. bank' \in [Ports -> Bytes \union {0}] /\ (op.kind = "read" => bank' = bank)
  BY <1>2, <1>3, <1>4
<1>6. PICK b \in Bytes \union {0, 128} : b = IF bank[op.port] >= 128 THEN 128 ELSE bank[op.port]
  BY <1>2, <1>3
<1>7. Reply(b)
  BY <1>2, <1>6 DEF HandleIdentify
<1>8. BusInv' /\ IF op.kind = "write" THEN A!Perform("ack", 0) ELSE A!Perform("data", b)
  BY <1>1, <1>3, <1>5, <1>7, ReplyMeets
<1>9. CASE op.kind = "write"
  <2>1. A!IdentifyWrite
    BY <1>1, <1>4, <1>8, <1>9 DEF A!IdentifyWrite
  <2> QED BY <1>8, <2>1 DEF Promised, A!Next
<1>10. CASE op.kind = "read"
  <2>1. A!IdentifyRead
    BY <1>1, <1>5, <1>6, <1>8, <1>10 DEF A!IdentifyRead, A!stores
  <2> QED BY <1>8, <2>1 DEF Promised, A!Next
<1> QED BY <1>2, <1>9, <1>10

LEMMA DataMeets == ASSUME BusInv, HandleData PROVE BusInv' /\ Promised
<1>1. stage = "handling" /\ op.space = "data" /\ UNCHANGED <<bank, motor>>
  BY Asking DEF HandleData
<1>2. /\ op \in A!Pak /\ op.port \in Ports /\ route.port = op.port /\ op.kind \in {"read", "write"}
      /\ IsWrite <=> op.kind = "write"
      /\ op.kind = "write" => Written = op.byte /\ op.byte \in Bytes
  BY <1>1, Asking
<1>3. bank \in [Ports -> Bytes \union {0}] /\ motor \in [Ports -> BOOLEAN] /\ save \in [Ports -> Bytes \union {0}]
  BY DEF BusInv, Typed
<1>4. save' = [save EXCEPT ![op.port] = IF op.kind = "write" THEN op.byte ELSE @]
      /\ SeenOf[op.port] = "controller"
  <2>1. SeenOf[op.port] = "controller"
    BY <1>1, Asking DEF HandleData
  <2> QED BY <1>2, <2>1 DEF HandleData
<1>5. save' \in [Ports -> Bytes \union {0}] /\ (op.kind = "read" => save' = save)
  BY <1>2, <1>3, <1>4
<1>6. PICK b \in Bytes \union {0} : b = save[op.port]
  BY <1>2, <1>3
<1>7. Reply(b)
  BY <1>2, <1>6 DEF HandleData
<1>8. BusInv' /\ IF op.kind = "write" THEN A!Perform("ack", 0) ELSE A!Perform("data", b)
  BY <1>1, <1>3, <1>5, <1>7, ReplyMeets
<1>9. CASE op.kind = "write"
  <2>1. A!DataWrite
    BY <1>1, <1>4, <1>8, <1>9 DEF A!DataWrite
  <2> QED BY <1>8, <2>1 DEF Promised, A!Next
<1>10. CASE op.kind = "read"
  <2>1. A!DataRead
    BY <1>1, <1>4, <1>5, <1>6, <1>8, <1>10 DEF A!DataRead, A!stores
  <2> QED BY <1>8, <2>1 DEF Promised, A!Next
<1> QED BY <1>2, <1>9, <1>10

LEMMA DataFailsMeets == ASSUME BusInv, HandleDataFails PROVE BusInv' /\ Promised
<1>1. stage = "handling" /\ op.space = "data" /\ stage' = "served"
  BY Asking DEF HandleDataFails, Served
<1>2. /\ op \in A!Pak /\ op \notin A!Poll /\ op.port \in Ports /\ route.port = op.port
      /\ SeenOf[op.port] = "controller" /\ op.kind \in {"read", "write"}
  BY <1>1, Asking, Disjoint DEF HandleDataFails
<1>3. /\ answers' = [answers EXCEPT ![op.port] = A!Say("error", 0)]
      /\ Served /\ UNCHANGED <<settings, stores, game, lost>>
  BY <1>2 DEF HandleDataFails
<1>4. BusInv' /\ SeenOf' = A!Unseen
  <2>1. A!Say("error", 0) \in A!Answer /\ A!Say("error", 0) # A!Unanswered
    BY Says
  <2>2. /\ bank' \in [Ports -> Bytes \union {0}] /\ motor' \in [Ports -> BOOLEAN]
        /\ save' \in [Ports -> Bytes \union {0}]
    BY <1>3 DEF BusInv, Typed, stores
  <2>3. stage \in Reading /\ op \in A!Ops
    BY <1>1, <1>2, Disjoint DEF Reading, Inside
  <2> QED BY <1>2, <1>3, <2>1, <2>2, <2>3, Answered
<1>5. SeenOf' = [SeenOf EXCEPT ![op.port] = "unknown"]
  BY <1>2, <1>4, SeenAs
<1>6. A!Perform("error", 0)
  BY <1>2, <1>3, <1>5 DEF A!Perform, A!Tell, A!Kinds, A!settings, settings, game
<1>7. A!DataError
  BY <1>1, <1>2, <1>3, <1>6 DEF A!DataError, A!stores, stores
<1> QED BY <1>4, <1>7 DEF Promised, A!Next

LEMMA NoDataMeets == ASSUME BusInv, HandleNoData PROVE BusInv' /\ Promised
<1>1. stage = "handling" /\ op.space = "data" /\ UNCHANGED <<bank, motor, save>>
  BY Asking DEF HandleNoData, stores
<1>2. op \in A!Pak /\ op.port \in Ports /\ route.port = op.port /\ op.kind \in {"read", "write"}
  BY <1>1, Asking
<1>3. bank \in [Ports -> Bytes \union {0}] /\ motor \in [Ports -> BOOLEAN] /\ save \in [Ports -> Bytes \union {0}]
  BY DEF BusInv, Typed
<1>4. SeenOf[op.port] # "controller" /\ Reply(0)
  BY <1>1, <1>2, Asking DEF HandleNoData
<1>5. BusInv' /\ IF op.kind = "write" THEN A!Perform("ack", 0) ELSE A!Perform("data", 0)
  BY <1>1, <1>3, <1>4, ReplyMeets
<1>6. CASE op.kind = "write"
  <2>1. save' = [save EXCEPT ![op.port] = IF SeenOf[op.port] = "controller" THEN op.byte ELSE @]
    BY <1>1, <1>2, <1>3, <1>4
  <2>2. A!DataWrite
    BY <1>1, <1>5, <1>6, <2>1 DEF A!DataWrite
  <2> QED BY <1>5, <2>2 DEF Promised, A!Next
<1>7. CASE op.kind = "read"
  <2>1. A!DataRead
    BY <1>1, <1>4, <1>5, <1>7 DEF A!DataRead, A!stores
  <2> QED BY <1>5, <2>1 DEF Promised, A!Next
<1> QED BY <1>2, <1>6, <1>7

LEMMA MotorMeets == ASSUME BusInv, HandleMotor PROVE BusInv' /\ Promised
<1>1. stage = "handling" /\ op.space = "motor" /\ UNCHANGED <<bank, save>>
  BY Asking DEF HandleMotor
<1>2. /\ op \in A!Pak /\ op.port \in Ports /\ route.port = op.port /\ op.kind \in {"read", "write"}
      /\ IsWrite <=> op.kind = "write"
      /\ op.kind = "write" => Written = op.byte /\ op.byte \in Bytes
  BY <1>1, Asking
<1>3. bank \in [Ports -> Bytes \union {0}] /\ motor \in [Ports -> BOOLEAN] /\ save \in [Ports -> Bytes \union {0}]
  BY DEF BusInv, Typed
<1>4. CASE op.kind = "write"
  <2>1. motor' = [motor EXCEPT ![op.port] = op.byte # 0]
    BY <1>2, <1>4 DEF HandleMotor
  <2>2. motor' \in [Ports -> BOOLEAN]
    BY <1>3, <2>1
  <2>3. BusInv' /\ A!Perform("ack", 0)
    BY <1>1, <1>3, <1>4, <2>2, ReplyMeets DEF HandleMotor
  <2>4. A!MotorWrite
    BY <1>1, <1>4, <2>1, <2>3 DEF A!MotorWrite
  <2> QED BY <2>3, <2>4 DEF Promised, A!Next
<1>5. CASE op.kind = "read"
  <2>1. motor' = motor
    BY <1>2, <1>3, <1>5 DEF HandleMotor
  <2>2. BusInv' /\ A!Perform("data", 0)
    BY <1>1, <1>3, <1>5, <2>1, ReplyMeets DEF HandleMotor
  <2>3. A!Ignored
    BY <1>1, <1>5, <2>1, <2>2 DEF A!Ignored, A!stores
  <2> QED BY <2>2, <2>3 DEF Promised, A!Next
<1> QED BY <1>2, <1>4, <1>5

LEMMA GapMeets == ASSUME BusInv, HandleGap PROVE BusInv' /\ Promised
<1>1. /\ stage = "handling" /\ op.space = "gap" /\ op.kind \in {"read", "write"}
      /\ UNCHANGED <<bank, motor, save>> /\ Reply(0)
  <2>1. stage = "handling" /\ Block > 1024 /\ Block # 1536 /\ Reply(0) /\ UNCHANGED <<bank, motor, save>>
    BY DEF HandleGap, stores
  <2>2. op.space \notin {"data", "identify", "motor"}
    BY <2>1, Asking
  <2> QED BY <2>1, <2>2, Asking
<1>2. bank \in [Ports -> Bytes \union {0}] /\ motor \in [Ports -> BOOLEAN] /\ save \in [Ports -> Bytes \union {0}]
  BY DEF BusInv, Typed
<1>3. BusInv' /\ IF op.kind = "write" THEN A!Perform("ack", 0) ELSE A!Perform("data", 0)
  BY <1>1, <1>2, ReplyMeets
<1>4. A!Ignored
  BY <1>1, <1>3 DEF A!Ignored, A!stores
<1> QED BY <1>3, <1>4 DEF Promised, A!Next

-----------------------------------------------------------------------------
(* All steps together.                                                     *)

LEMMA StepMeets == BusInv /\ [Next]_vars => BusInv' /\ Promised
<1> SUFFICES ASSUME BusInv, [Next]_vars PROVE BusInv' /\ Promised
  OBVIOUS
<1>1. CASE \E o \in A!Ops, dummy \in BOOLEAN : Pack(o, dummy)
  BY <1>1, PackMeets
<1>2. CASE ReadDma
  <2>1. CASE ReadLost \/ Connected \/ NotConnected \/ BeginPoll
    BY <2>1, LostMeets, ConnectedMeets, NotConnectedMeets, BeginMeets
  <2>2. CASE PassOver \/ PollAbsent \/ PollConnected \/ PollButtons
    BY <2>2, PollMeets
  <2>3. CASE CheckPort
    BY <2>3, CheckMeets
  <2>4. ASSUME NEW a \in A!Kinds,
               TellStatus(a) \/ PollStatus(a) \/ Route(a) \/ Refuse(a) \/ FindPak(a)
        PROVE  BusInv' /\ Promised
    BY <2>4, TellStatusMeets, RouteMeets, FindPakMeets
  <2>5. CASE Handle
    BY <2>5, IdentifyMeets, DataMeets, DataFailsMeets, NoDataMeets, MotorMeets, GapMeets DEF Handle
  <2> QED BY <1>2, <2>1, <2>2, <2>3, <2>4, <2>5 DEF ReadDma
<1>3. CASE WriteDma \/ Receive("sent", "ready") \/ Receive("served", "parsed") \/ Skip \/ Parse
  BY <1>3, DmaMeets, ParseMeets
<1>4. CASE \E p \in PlayerPorts : Assign(p) \/ \E a \in A!Kinds : SetPak(p, a)
  BY <1>4, PlayerMeets
<1>5. CASE UNCHANGED vars
  <2>1. Typed'
    BY <1>5 DEF BusInv, Typed, vars, settings, stores, game
  <2>2. BusInv' /\ SeenOf' = SeenOf
    BY <1>5, <2>1, Same DEF vars, game
  <2> QED BY <1>5, <2>2 DEF Promised, vars, settings, stores, game
<1> QED BY <1>1, <1>2, <1>3, <1>4, <1>5 DEF Next, Step

LEMMA AlwaysBus == Spec => []BusInv
<1>1. BusInv /\ [Next]_vars => BusInv'
  BY StepMeets
<1> QED BY BusInit, <1>1, PTL DEF Spec

\* The state of the bus is well typed.
THEOREM BusTypeCorrect == Spec => []TypeOK
<1>1. BusInv /\ Waiting => TypeOK
  <2> SUFFICES ASSUME BusInv, Waiting PROVE TypeOK
    OBVIOUS
  <2>1. Bytes \union {0} \subseteq 0 .. 255
    BY JoyBusAssumption
  <2>2. bank \in [Ports -> 0 .. 255] /\ save \in [Ports -> 0 .. 255]
    BY <2>1 DEF BusInv, Typed
  <2> QED BY <2>2 DEF BusInv, Typed, Waiting, TypeOK
<1>2. Init => Waiting
  BY JoyBusAssumption DEF Init, Waiting, ReceiveNeverBlocks
<1>3. Waiting /\ [Next]_vars => Waiting'
  BY NextKeeps
<1> QED BY <1>1, <1>2, <1>3, AlwaysBus, PTL DEF Spec

\* No frame comes back with the bytes the game packed, unless its address was corrupt.
THEOREM FramesAreAnswered == Spec => []NoPlaceholders
<1>1. BusInv => NoPlaceholders
  BY DEF BusInv, Told, NoPlaceholders
<1> QED BY <1>1, AlwaysBus, PTL

\* The bus does to the accessories what Accessories promises, for any frame layout, any
\* ports and values, and whatever the player changes meanwhile.
THEOREM BusRefines == Spec => ImplementsAccessories
<1>1. BusInv /\ [Next]_vars => [A!Next]_(A!avars)
  BY StepMeets DEF Promised, A!avars
<1> QED BY BusInitMeets, AlwaysBus, <1>1, PTL DEF Spec, ImplementsAccessories, A!Spec
=============================================================================
