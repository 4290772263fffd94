---------------------------- MODULE HeadlessPads ----------------------------
(***************************************************************************)
(* The pads of the build without the frontend: src/src/main/bar_input.cpp  *)
(* opens the pads SDL reports, finds which one drives each configured      *)
(* port, publishes its state for the game thread port by port and passes   *)
(* the game's rumble on, once a frame on the main thread (update_gfx).     *)
(* A published state stands for the pad it was sampled from.               *)
(***************************************************************************)
EXTENDS Integers, Sequences, FiniteSets

CONSTANTS
    NumPorts,     \* controller ports: 4 in the code
    kMaxClaims,   \* pads the resolution looks at: 16 in the code
    Pads,         \* physical pads
    Guid,         \* of every pad: what SDL says of its bus, vendor and product
    Serial,       \* of every pad, 0 for none; n may also read like the ordinal "#n"
    Configs,      \* port layouts of input.json
    RumblePorts,  \* ports whose motor the game switches
    MaxPlugs,     \* bound: times a pad is plugged in
    MaxFailures   \* bound: times SDL cannot open a pad

Ports    == 0 .. NumPorts - 1
Handles  == 1 .. MaxPlugs     \* SDL_JoystickID: a fresh one for every plug
NoHandle == 0
NoUid    == [guid |-> 0, tail |-> 0]
Uids     == [guid : Nat, tail : Nat]     \* "<guid>!<tail>"
Port     == [type : {"none", "keyboard", "pad"}, uid : Uids, guid : Nat, pak : BOOLEAN]

ASSUME HeadlessAssumption ==
    /\ NumPorts \in Nat \ {0} /\ kMaxClaims \in Nat \ {0}
    /\ Guid \in [Pads -> Nat \ {0}] /\ Serial \in [Pads -> Nat]
    /\ Configs \subseteq [Ports -> Port]
    /\ RumblePorts \subseteq Ports
    /\ MaxPlugs \in Nat /\ MaxFailures \in Nat

VARIABLES
    padOf,        \* the pad behind every handle so far
    connected,    \* the handles of the pads plugged in
    events,       \* SDL's queue of hotplug events
    failures,     \* opens that failed so far
    g_cfg,
    g_pads,       \* the open pads: handle and uid, in order of arrival
    g_port_state, \* the handle each port's published state was sampled from
    g_auto_pad_state,
    g_rumble_want,
    last_on,      \* flush_rumble's static, by index into g_pads
    motor,        \* handles whose motor SDL was last told to run
    mainAt,       \* where update_gfx is: "events", "sample", "auto" or "rumble"
    port          \* the next port sample_all_ports publishes

world  == <<padOf, connected, failures>>
states == <<g_port_state, g_auto_pad_state>>
rumble == <<g_rumble_want, last_on, motor>>
vars   == <<world, events, g_cfg, g_pads, states, rumble, mainAt, port>>

Init ==
    /\ padOf = <<>> /\ connected = {} /\ events = <<>> /\ failures = 0
    /\ g_cfg \in Configs
    /\ g_pads = <<>>
    /\ g_port_state = [p \in Ports |-> NoHandle] /\ g_auto_pad_state = NoHandle
    /\ g_rumble_want = [p \in Ports |-> FALSE]
    /\ last_on = [i \in 1 .. kMaxClaims |-> FALSE]
    /\ motor = {}
    /\ mainAt = "events" /\ port = 0

-----------------------------------------------------------------------------
(* Pads come and go when the event loop pumps SDL.                         *)

Present(pad) == \E h \in connected : padOf[h] = pad

\* SDL may announce a pad twice, as it does when a mapping for it is added.
Plug(pad, times) ==
    /\ mainAt = "events" /\ Len(padOf) < MaxPlugs /\ ~Present(pad)
    /\ LET h == Len(padOf) + 1
       IN /\ padOf' = Append(padOf, pad)
          /\ connected' = connected \union {h}
          /\ events' = events \o [i \in 1 .. times |-> [kind |-> "added", id |-> h]]
    /\ UNCHANGED <<failures, g_cfg, g_pads, states, rumble, mainAt, port>>

Rank(S, i) == Cardinality({j \in S : j < i})

\* The events of every other handle, in their order.
Without(h) ==
    LET kept == {i \in 1 .. Len(events) : events[i].id # h}
    IN [n \in 1 .. Cardinality(kept) |-> events[CHOOSE i \in kept : Rank(kept, i) = n - 1]]

\* SDL withdraws the announcements of a pad that is gone, and reports the removal
\* of open pads.
Unplug(h) ==
    /\ mainAt = "events"
    /\ connected' = connected \ {h}
    /\ events' = Without(h) \o (IF \E i \in 1 .. Len(g_pads) : g_pads[i].id = h
                                THEN <<[kind |-> "removed", id |-> h]>> ELSE <<>>)
    /\ UNCHANGED <<padOf, failures, g_cfg, g_pads, states, rumble, mainAt, port>>

-----------------------------------------------------------------------------
(* on_controller_added and on_controller_removed.                          *)

Event(kind) == mainAt = "events" /\ events # <<>> /\ Head(events).kind = kind
Tracked(h)  == \E i \in 1 .. Len(g_pads) : g_pads[i].id = h
UidTaken(u) == \E i \in 1 .. Len(g_pads) : g_pads[i].uid = u

UidOf(pad, tail) == [guid |-> Guid[pad], tail |-> tail]

\* The smallest n whose "#n" is free: there is one among the first Len(g_pads) + 1.
Ordinal(pad) ==
    LET free == {n \in 1 .. Len(g_pads) + 1 : ~UidTaken(UidOf(pad, n))}
    IN CHOOSE n \in free : \A m \in free : n <= m

\* Mutant of NewUid: a serial number is taken to be unique.
NewUidSerial(pad) == UidOf(pad, IF Serial[pad] # 0 THEN Serial[pad] ELSE Ordinal(pad))

\* The serial number, unless there is none or a clone of the pad has taken it.
NewUid(pad) ==
    IF Serial[pad] # 0 /\ ~UidTaken(UidOf(pad, Serial[pad]))
    THEN UidOf(pad, Serial[pad])
    ELSE UidOf(pad, Ordinal(pad))

OpenFails ==
    /\ Event("added")
    /\ failures < MaxFailures
    /\ failures' = failures + 1
    /\ events' = Tail(events)
    /\ UNCHANGED <<padOf, connected, g_cfg, g_pads, states, rumble, mainAt, port>>

\* Mutant of OnAdded: no guard against a duplicate open.
OnAddedTwice ==
    /\ Event("added")
    /\ LET h == Head(events).id
       IN g_pads' = Append(g_pads, [id |-> h, uid |-> NewUid(padOf[h])])
    /\ events' = Tail(events)
    /\ UNCHANGED <<world, g_cfg, states, rumble, mainAt, port>>

OnAdded ==
    /\ Event("added")
    /\ LET h == Head(events).id
       IN g_pads' = IF Tracked(h) THEN g_pads
                    ELSE Append(g_pads, [id |-> h, uid |-> NewUid(padOf[h])])
    /\ events' = Tail(events)
    /\ UNCHANGED <<world, g_cfg, states, rumble, mainAt, port>>

Erase(seq, i) == [j \in 1 .. Len(seq) - 1 |-> IF j < i THEN seq[j] ELSE seq[j + 1]]

\* Mutant of OnRemoved: the pad is dropped without SDL_GameControllerClose, and goes on rumbling.
OnRemovedLeaks ==
    /\ Event("removed")
    /\ \E i \in 1 .. Len(g_pads) :
          /\ g_pads[i].id = Head(events).id
          /\ g_pads' = Erase(g_pads, i)
    /\ events' = Tail(events)
    /\ UNCHANGED <<world, g_cfg, states, rumble, mainAt, port>>

\* The pads behind the one erased move down one index.
OnRemoved ==
    /\ Event("removed")
    /\ \E i \in 1 .. Len(g_pads) :
          /\ g_pads[i].id = Head(events).id
          /\ \A j \in 1 .. i - 1 : g_pads[j].id # Head(events).id
          /\ g_pads' = Erase(g_pads, i)
    /\ motor' = motor \ {Head(events).id}
    /\ events' = Tail(events)
    /\ UNCHANGED <<world, g_cfg, states, g_rumble_want, last_on, mainAt, port>>

EventsDone ==
    /\ mainAt = "events" /\ events = <<>>
    /\ mainAt' = "sample" /\ port' = 0
    /\ UNCHANGED <<world, events, g_cfg, g_pads, states, rumble>>

-----------------------------------------------------------------------------
(* resolve_pads: indices into g_pads, NoPad for none.                      *)

NoPad   == 0
Indices == {i \in 1 .. Len(g_pads) : i <= kMaxClaims}
First(S) == IF S = {} THEN NoPad ELSE CHOOSE i \in S : \A j \in S : i <= j
Wants(p) == g_cfg[p].type = "pad"

\* Pass 1: exact uids, in port order.
ByUid ==
    LET claim[p \in Ports] ==
            IF Wants(p) /\ g_cfg[p].uid # NoUid
            THEN First({i \in Indices : g_pads[i].uid = g_cfg[p].uid
                                        /\ \A q \in 0 .. p - 1 : claim[q] # i})
            ELSE NoPad
    IN claim

\* Mutant of PortPad: one pass, each port by uid or else by GUID.
PortPadOnePass ==
    LET claim[p \in Ports] ==
            LET free == {i \in Indices : \A q \in 0 .. p - 1 : claim[q] # i}
                exact == {i \in free : g_pads[i].uid = g_cfg[p].uid}
            IN IF ~Wants(p) THEN NoPad
               ELSE IF exact # {} THEN First(exact)
               ELSE First({i \in free : g_pads[i].uid.guid = g_cfg[p].guid})
    IN claim

\* Mutant of PortPad: no fallback.
PortPadExactOnly == ByUid

\* Pass 2: the GUID, for the ports that got none.
PortPad ==
    LET claim[p \in Ports] ==
            IF ByUid[p] # NoPad THEN ByUid[p]
            ELSE IF ~Wants(p) THEN NoPad
            ELSE First({i \in Indices : g_pads[i].uid.guid = g_cfg[p].guid
                                        /\ (\A q \in Ports : ByUid[q] # i)
                                        /\ \A q \in 0 .. p - 1 : claim[q] # i})
    IN claim

Claimed   == {PortPad[p] : p \in Ports}
Unclaimed == First(Indices \ Claimed)

Id(i) == IF i = NoPad THEN NoHandle ELSE g_pads[i].id

-----------------------------------------------------------------------------
(* sample_all_ports: one atomic store a port, then the auto pad's.         *)

\* Mutant of SamplePort: a port without a pad keeps what it last published.
SamplePortKeeps ==
    /\ mainAt = "sample" /\ port < NumPorts
    /\ g_port_state' = [g_port_state EXCEPT ![port] =
                          IF PortPad[port] = NoPad THEN @ ELSE Id(PortPad[port])]
    /\ port' = port + 1
    /\ UNCHANGED <<world, events, g_cfg, g_pads, g_auto_pad_state, rumble, mainAt>>

SamplePort ==
    /\ mainAt = "sample" /\ port < NumPorts
    /\ g_port_state' = [g_port_state EXCEPT ![port] = Id(PortPad[port])]
    /\ port' = port + 1
    /\ UNCHANGED <<world, events, g_cfg, g_pads, g_auto_pad_state, rumble, mainAt>>

\* Mutant of AutoPad: the first open pad, claimed or not.
AutoPadFirst == IF g_cfg[0].type = "keyboard" THEN Id(First(Indices)) ELSE NoHandle

\* The first pad no port claims also drives a keyboard's port.
AutoPad == IF g_cfg[0].type = "keyboard" THEN Id(Unclaimed) ELSE NoHandle

SampleAuto ==
    /\ mainAt = "sample" /\ port = NumPorts
    /\ g_auto_pad_state' = AutoPad
    /\ mainAt' = "rumble" /\ port' = 0
    /\ UNCHANGED <<world, events, g_cfg, g_pads, g_port_state, rumble>>

-----------------------------------------------------------------------------
(* set_rumble on the game thread, flush_rumble on the main thread.         *)

SetRumble(p, on) ==
    /\ g_rumble_want' = [g_rumble_want EXCEPT ![p] = on]
    /\ UNCHANGED <<world, events, g_cfg, g_pads, states, last_on, motor, mainAt, port>>

\* The ports whose rumble the pad at an index gets.
Feeds(i) ==
    {p \in Ports : /\ g_cfg[p].pak
                   /\ \/ Wants(p) /\ PortPad[p] = i
                      \/ p = 0 /\ g_cfg[p].type = "keyboard" /\ Unclaimed = i}
WantOn(i) == \E p \in Feeds(i) : g_rumble_want[p]

\* An index nobody feeds is marked off without a word to SDL; a fed one hears of changes.
FlushRumble ==
    /\ mainAt = "rumble"
    /\ last_on' = [i \in DOMAIN last_on |-> IF i \in Indices THEN WantOn(i) ELSE last_on[i]]
    /\ LET sent == {i \in Indices : Feeds(i) # {} /\ WantOn(i) # last_on[i]}
       IN motor' = (motor \ {Id(i) : i \in sent}) \union {Id(i) : i \in {j \in sent : WantOn(j)}}
    /\ mainAt' = "events"
    /\ UNCHANGED <<world, events, g_cfg, g_pads, states, g_rumble_want, port>>

-----------------------------------------------------------------------------
Frame == OpenFails \/ OnAdded \/ OnRemoved \/ EventsDone \/ SamplePort \/ SampleAuto \/ FlushRumble

Next ==
    \/ Frame
    \/ \E pad \in Pads, times \in 1 .. 2 : Plug(pad, times)
    \/ \E h \in connected : Unplug(h)
    \/ \E p \in RumblePorts, on \in BOOLEAN : SetRumble(p, on)

Spec     == Init /\ [][Next]_vars
FairSpec == Spec /\ WF_vars(Frame)

-----------------------------------------------------------------------------
(* Properties.                                                             *)

\* Types; every open pad was announced, and the motors that run are those of open pads.
TypeOK ==
    /\ padOf \in Seq(Pads) /\ Len(padOf) <= MaxPlugs
    /\ connected \subseteq DOMAIN padOf
    /\ events \in Seq([kind : {"added", "removed"}, id : DOMAIN padOf])
    /\ failures \in 0 .. MaxFailures
    /\ g_cfg \in Configs
    /\ g_pads \in Seq([id : DOMAIN padOf, uid : Uids])
    /\ g_port_state \in [Ports -> Handles \union {NoHandle}]
    /\ g_auto_pad_state \in Handles \union {NoHandle}
    /\ g_rumble_want \in [Ports -> BOOLEAN]
    /\ last_on \in [1 .. kMaxClaims -> BOOLEAN]
    /\ \A h \in motor : Tracked(h)
    /\ mainAt \in {"events", "sample", "rumble"}
    /\ port \in 0 .. NumPorts

\* "Stable unique id": no two open pads have one uid, though clones share serial numbers,
\* ordinals are reused and a serial number may read like an ordinal.
UidsUnique ==
    \A i, j \in 1 .. Len(g_pads) : g_pads[i].uid = g_pads[j].uid => i = j

\* All ports and the auto pad are published; the next pump has not been heard.
Published == mainAt = "rumble"

\* No pad drives two ports, and the one that joins the keyboard drives no port of its own.
OnePadOnePort ==
    Published =>
        /\ \A p, q \in Ports : p # q /\ g_port_state[p] # NoHandle => g_port_state[p] # g_port_state[q]
        /\ g_auto_pad_state # NoHandle => \A p \in Ports : g_port_state[p] # g_auto_pad_state

\* "An exact uid assignment always wins over a legacy/replug fallback": the pad the
\* player picked for a port drives it whenever it is open, unless a lower port has the
\* same pad in its settings.
ExactUidWins ==
    Published => \A p \in Ports, i \in Indices :
        /\ Wants(p) /\ g_cfg[p].uid # NoUid /\ g_pads[i].uid = g_cfg[p].uid
        /\ \A q \in 0 .. p - 1 : ~(Wants(q) /\ g_cfg[q].uid = g_cfg[p].uid)
        => g_port_state[p] = g_pads[i].id

\* An open pad that drives nothing is one no waiting port could take.
PadsUsed ==
    Published => \A i \in Indices :
        \/ \E p \in Ports : g_port_state[p] = g_pads[i].id
        \/ \A p \in Ports : Wants(p) /\ g_cfg[p].guid = g_pads[i].uid.guid => g_port_state[p] # NoHandle

\* A pad that is unplugged with buttons held lets go of them: no port keeps publishing it.
Drives(h) == g_auto_pad_state = h \/ \E p \in Ports : g_port_state[p] = h
Released == \A h \in Handles : (h \in DOMAIN padOf /\ h \notin connected) ~> ~Drives(h)

\* bar_input.hpp:59: a rumble request, on or off, is deferred to flush_rumble: after it,
\* no motor runs but for a port that wants it.
StopsReachPads ==
    [][mainAt = "rumble" /\ mainAt' = "events" =>
            \A h \in motor' : \E i \in Indices : Id(i) = h /\ WantOn(i)]_vars
=============================================================================
