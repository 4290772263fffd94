-------------------------- MODULE PlayerAssignment --------------------------
(***************************************************************************)
(* Who plays on which port: refresh_players of src/src/frontend/           *)
(* bar_frontend.cpp on the main thread, the "Assign players" session it    *)
(* shares PlayerState with (no lock), the pads coming and going, and the   *)
(* layout file that outlives the process.                                  *)
(***************************************************************************)
EXTENDS ControllerAssignment

CONSTANTS
    Imports,         \* the input.json port layouts to start from; NoImport among them
    NoImport, NoLayout,
    Overlap,         \* dialog callbacks run between the steps of a refresh
    SessionHotplug,  \* pads come and go while the dialog is open or about to open
    MaxSessions,     \* bound: dialogs opened
    MaxRequests,     \* bound: presses on the page: Auto-configure, templates
    MaxProfiles,     \* bound: changes of a pad's profile
    MaxLaunches      \* bound: relaunches of the program

\* A port of input.json: used, and then by the keyboard or by the pads it matches.
ImportedPorts ==
    {port \in [used : BOOLEAN, kb : BOOLEAN, pads : SUBSET Pads] :
        port.kb \/ port.pads # {} => port.used}

ASSUME AssignmentAssumption ==
    /\ NoImport \in Imports /\ Imports \ {NoImport} \subseteq [Ports -> ImportedPorts]
    /\ {Overlap, SessionHotplug} \subseteq BOOLEAN
    /\ {MaxSessions, MaxRequests, MaxProfiles, MaxLaunches} \subseteq Nat

VARIABLES
    padOf,            \* the pad behind every handle so far
    connected,        \* the handles of the pads plugged in
    players,          \* PlayerState.players
    kbProfile,        \* ports with a keyboard input profile
    modal,            \* the dialog: open, closing with the next event, or closed
    drawn,            \* its Start over and Confirm were last drawn enabled
    uiAt,             \* where the UI thread is in a callback of several steps
    mainAt,           \* where the main thread's frame is
    scan,             \* the handles refresh_players enumerated
    scanProfile,      \* and the profile it found
    plan,             \* the seats it hands to auto_assign_players
    preferred, legacy, published, previousKeys, assignedIds,  \* its statics
    initialized,
    requested,        \* g_auto_configure_requested
    profile, assignedProfile,  \* pad profiles now, and when last assigned
    layout,           \* player_layout.json
    imported,         \* the legacy ports of input.json
    confirmed,        \* history: the seating last confirmed in the dialog,
    changed,          \* and whether it differed from the published one
    sessions, requests, launches

statics == <<preferred, legacy, published, previousKeys, assignedIds, initialized, assignedProfile>>
world   == <<padOf, connected, profile, imported>>
counts  == <<sessions, requests, launches>>
seats   == <<players, kbProfile>>
vars    == <<session, world, seats, uiAt, modal, drawn, mainAt, scan, scanProfile, plan, statics,
             requested, layout, confirmed, changed, counts>>

Layouts == [Ports -> [ctl : Pads \union {NoPad}, kb : BOOLEAN]]
Nobody  == [p \in Ports |-> NoPlayer]
Unseen  == [p \in Ports |-> [ctl |-> NoPad, kb |-> FALSE]]
NoLegacy == [p \in Ports |-> {}]
NoConfirm == [p \in {} |-> NoPlayer]

Init ==
    /\ assigning = FALSE /\ temp = Nobody /\ joinOrder = <<>> /\ joined = <<>>
    /\ players = Nobody /\ kbProfile = {}
    /\ modal = "closed" /\ drawn = FALSE /\ uiAt = "idle"
    /\ mainAt = "events" /\ scan = {} /\ scanProfile = 0 /\ plan = Nobody
    /\ preferred = [p \in Ports |-> EmptySlot] /\ legacy = NoLegacy
    /\ published = Unseen /\ previousKeys = {} /\ assignedIds = {}
    /\ initialized = FALSE /\ assignedProfile = 0
    /\ requested = FALSE /\ confirmed = NoConfirm /\ changed = FALSE
    /\ padOf = <<>> /\ connected = {} /\ profile = 0
    /\ imported \in Imports
    /\ layout = NoLayout
    /\ sessions = 0 /\ requests = 0 /\ launches = 0

-----------------------------------------------------------------------------
(* The world: pads, profiles, and the program started again.               *)

Quiet == ~assigning /\ modal = "closed" /\ uiAt = "idle"

\* SDL's device list changes only in the main thread's event pump.  A pad plugged in
\* gets a fresh handle: recompinput never closes its own reference to the old one.
Plug(pad) ==
    /\ mainAt = "events" /\ (SessionHotplug \/ Quiet)
    /\ Len(padOf) < MaxPlugs
    /\ ~Present(connected, padOf, pad)
    /\ padOf' = Append(padOf, pad)
    /\ connected' = connected \union {Len(padOf) + 1}
    /\ UNCHANGED <<session, seats, uiAt, modal, drawn, mainAt, scan, scanProfile, plan, statics,
                   requested, profile, layout, imported, confirmed, changed, counts>>

Unplug(h) ==
    /\ mainAt = "events" /\ (SessionHotplug \/ Quiet)
    /\ connected' = connected \ {h}
    /\ UNCHANGED <<session, seats, uiAt, modal, drawn, mainAt, scan, scanProfile, plan, statics,
                   requested, padOf, profile, layout, imported, confirmed, changed, counts>>

\* A new process: only the pads and the two files are left, every handle is new.
Relaunch ==
    /\ launches < MaxLaunches /\ mainAt = "events" /\ uiAt = "idle"
    /\ launches' = launches + 1
    /\ assigning' = FALSE /\ temp' = Nobody /\ joinOrder' = <<>> /\ joined' = <<>>
    /\ players' = Nobody /\ kbProfile' = {}
    /\ modal' = "closed" /\ drawn' = FALSE /\ uiAt' = "idle" /\ mainAt' = "events"
    /\ scan' = {} /\ scanProfile' = 0 /\ plan' = Nobody
    /\ preferred' = [p \in Ports |-> EmptySlot] /\ legacy' = NoLegacy
    /\ published' = Unseen /\ previousKeys' = {} /\ assignedIds' = {}
    /\ initialized' = FALSE /\ assignedProfile' = 0
    /\ requested' = FALSE /\ confirmed' = NoConfirm /\ changed' = FALSE
    /\ UNCHANGED <<world, layout, sessions, requests>>

-----------------------------------------------------------------------------
(* The dialog.  Its buttons run on the UI thread.                          *)

UiIdle == uiAt = "idle" /\ (Overlap \/ mainAt = "events")

UiOnly == UNCHANGED <<world, seats, mainAt, scan, scanProfile, plan, statics, requested, layout,
                      requests, launches>>

Seating == assigning /\ MetRequirements

OpenDialog ==
    /\ UiIdle /\ initialized /\ modal = "closed"
    /\ SessionHotplug \/ connected = assignedIds
    /\ sessions < MaxSessions
    /\ sessions' = sessions + 1
    /\ StartFromCurrent(players)
    /\ modal' = "open"
    /\ drawn' = (Overlap /\ \E p \in Ports : Assigned(players[p]))
    /\ UiOnly /\ UNCHANGED <<uiAt, confirmed, changed>>

\* Start over and Confirm look at nothing when pressed, only when the dialog was drawn.
UpdateControls ==
    /\ Overlap /\ UiIdle /\ modal # "closed"
    /\ drawn' = Seating
    /\ UiOnly /\ UNCHANGED <<session, uiAt, modal, confirmed, changed, sessions>>

Enabled == modal # "closed" /\ IF Overlap THEN drawn ELSE Seating

PressButton ==
    /\ UiIdle /\ modal # "closed"
    /\ \/ Enabled /\ StartOver /\ UNCHANGED modal
       \/ UndoLastJoin /\ UNCHANGED modal
       \/ ~Overlap /\ JoinKeyboard /\ UNCHANGED modal
       \/ \E p \in Ports : RemovePlayer(p) /\ UNCHANGED modal
       \/ \E a, b \in Ports : SwapPlayers(a, b) /\ UNCHANGED modal
       \/ Stop /\ modal' = "closing"
    /\ UiOnly /\ UNCHANGED <<uiAt, drawn, confirmed, changed, sessions>>

\* "Add keyboard" first looks whether a player has the keyboard ...
PressAddKeyboard ==
    /\ Overlap /\ UiIdle /\ modal # "closed" /\ assigning /\ ~KeyboardAssigned
    /\ uiAt' = "keyboard"
    /\ UiOnly /\ UNCHANGED <<session, modal, drawn, confirmed, changed, sessions>>

\* ... and then seats one, whatever a key pressed on the main thread did in between.
KeyboardSits ==
    /\ uiAt = "keyboard"
    /\ uiAt' = "idle"
    /\ \/ AddKeyboard
       \/ /\ ~(assigning /\ \E slot \in Ports : NextFree(slot))
          /\ UNCHANGED session
    /\ UiOnly /\ UNCHANGED <<modal, drawn, confirmed, changed, sessions>>

\* process_sdl_event, on the main thread: the event after a Stop only closes the dialog;
\* otherwise a pad or a key joins, Escape cancels.
DialogEvent ==
    /\ mainAt = "events" /\ (Overlap \/ uiAt = "idle")
    /\ \/ modal = "closing" /\ modal' = "closed" /\ drawn' = FALSE /\ UNCHANGED session
       \/ modal # "closing" /\ UNCHANGED <<modal, drawn>> /\ \E h \in connected : JoinPad(h)
       \/ modal # "closing" /\ UNCHANGED <<modal, drawn>> /\ JoinKeyboard
       \/ modal # "closing" /\ modal' = "closing" /\ UNCHANGED drawn /\ assigning /\ Stop
    /\ UiOnly /\ UNCHANGED <<uiAt, confirmed, changed, sessions>>

\* A seating in the terms refresh_players compares it in.
Described(seating) ==
    [p \in Ports |-> [ctl |-> IF seating[p].ctl = NoHandle THEN NoPad ELSE padOf[seating[p].ctl],
                      kb  |-> seating[p].kb]]

\* commit_player_assignment: is_assigning falls first ...
CommitStop ==
    /\ UiIdle /\ Enabled
    /\ Stop
    /\ modal' = "closing"
    /\ uiAt' = "copy"
    /\ changed' = (Described(temp) # published)
    /\ UiOnly /\ UNCHANGED <<drawn, confirmed, sessions>>

\* ... then the seats are copied ...
CommitCopy ==
    /\ uiAt = "copy"
    /\ players' = temp
    /\ uiAt' = "profiles"
    /\ UNCHANGED <<session, world, kbProfile, modal, drawn, mainAt, scan, scanProfile, plan,
                   statics, requested, layout, confirmed, changed, counts>>

\* ... and every profile pair is rebuilt: only a keyboard-only player gets the keyboard.
CommitProfiles ==
    /\ uiAt = "profiles"
    /\ kbProfile' = {p \in Ports : KeyboardOnly(players[p])}
    /\ confirmed' = temp
    /\ uiAt' = "idle"
    /\ UNCHANGED <<session, world, players, modal, drawn, mainAt, scan, scanProfile, plan,
                   statics, requested, layout, changed, counts>>

PressAutoConfigure ==
    /\ UiIdle /\ modal = "closed"
    /\ requests < MaxRequests
    /\ requests' = requests + 1
    /\ requested' = TRUE
    /\ UNCHANGED <<session, world, seats, uiAt, modal, drawn, mainAt, scan, scanProfile, plan,
                   statics, layout, confirmed, changed, sessions, launches>>

\* Other buttons of the page: a template that connected pads use is overwritten or deleted, and
\* they get profiles of their own.  Presses of either kind are counted together.
ChangeProfile ==
    /\ UiIdle /\ modal = "closed"
    /\ requests < MaxRequests /\ profile < MaxProfiles /\ connected # {}
    /\ requests' = requests + 1
    /\ profile' = profile + 1
    /\ UNCHANGED <<session, seats, uiAt, modal, drawn, mainAt, scan, scanProfile, plan, statics,
                   requested, padOf, connected, layout, imported, confirmed, changed, sessions, launches>>

-----------------------------------------------------------------------------
(* The main thread: refresh_players, once a frame.                         *)

LiveSlot(p) ==
    [ctl |-> IF players[p].ctl \in scan \union previousKeys THEN padOf[players[p].ctl] ELSE NoPad,
     kb  |-> Assigned(players[p]) /\ (players[p].kb \/ p \in kbProfile)]
LiveSlots == [p \in Ports |-> LiveSlot(p)]

BeginRefresh ==
    /\ mainAt = "events" /\ (Overlap \/ uiAt = "idle")
    /\ scan' = connected
    /\ scanProfile' = profile
    /\ mainAt' = "plan"
    /\ UNCHANGED <<session, world, seats, uiAt, modal, drawn, plan, statics, requested, layout,
                   confirmed, changed, counts>>

\* The frame goes on without what the call kept in local variables.
Returns == mainAt' = "events" /\ scanProfile' = 0 /\ plan' = Nobody

\* "Never cache an assignment that the backend would refuse while the modal owns it."
RefreshWaits ==
    /\ mainAt = "plan" /\ assigning
    /\ Returns
    /\ UNCHANGED <<session, world, seats, uiAt, modal, drawn, scan, statics, requested, layout,
                   confirmed, changed, counts>>

\* Mutant of FirstPreferred: input.json wins over the saved layout.
FirstPreferredImport ==
    IF imported # NoImport
    THEN [p \in Ports |->
            IF imported[p].used THEN [EmptySlot EXCEPT !.reserved = TRUE, !.kb = imported[p].kb]
            ELSE IF p = 0 THEN [EmptySlot EXCEPT !.kb = TRUE, !.share = TRUE]
            ELSE EmptySlot]
    ELSE Automatic(scan, padOf, FALSE)

\* The first refresh: the saved layout wins, then input.json, then the pads there are.
FirstPreferred ==
    IF layout # NoLayout
    THEN [p \in Ports |-> [EmptySlot EXCEPT !.reserved = TRUE, !.kb = layout[p].kb]]
    ELSE IF imported # NoImport
    THEN [p \in Ports |->
            IF imported[p].used THEN [EmptySlot EXCEPT !.reserved = TRUE, !.kb = imported[p].kb]
            ELSE IF p = 0 THEN [EmptySlot EXCEPT !.kb = TRUE, !.share = TRUE]
            ELSE EmptySlot]
    ELSE Automatic(scan, padOf, FALSE)

FirstLegacy ==
    IF layout # NoLayout
    THEN [p \in Ports |-> IF layout[p].ctl = NoPad THEN {} ELSE {layout[p].ctl}]
    ELSE IF imported # NoImport THEN [p \in Ports |-> imported[p].pads]
    ELSE NoLegacy

Adopted == [p \in Ports |-> [ctl |-> LiveSlots[p].ctl, kb |-> LiveSlots[p].kb,
                             reserved |-> TRUE, share |-> FALSE]]

\* save_player_layout: a pad that is not connected is saved as no pad.
SavedLayout(slots) ==
    [p \in Ports |-> [ctl |-> IF Present(scan, padOf, slots[p].ctl) THEN slots[p].ctl ELSE NoPad,
                      kb  |-> slots[p].kb]]

ManualCommitSeen == initialized /\ LiveSlots # published

\* Mutant of Base: every refresh starts from the connection order.
BaseAutomatic == Automatic(scan, padOf, FALSE)

\* What preferred and legacy are before resolving: first run, a manual commit, neither.
Base ==
    IF requested THEN Automatic(scan, padOf, TRUE)
    ELSE IF ~initialized THEN FirstPreferred
    ELSE IF ManualCommitSeen THEN Adopted
    ELSE preferred

BaseLegacy ==
    IF requested \/ ManualCommitSeen THEN NoLegacy
    ELSE IF ~initialized THEN FirstLegacy
    ELSE legacy

Unchanged == initialized /\ ~requested /\ scan = assignedIds /\ scanProfile = assignedProfile

Seated(slots) ==
    [p \in Ports |-> [ctl |-> IF \E h \in scan : padOf[h] = slots[p].ctl
                             THEN CHOOSE h \in scan : padOf[h] = slots[p].ctl
                             ELSE NoHandle,
                      kb |-> slots[p].kb]]

Adopt ==
    /\ layout' = IF requested THEN SavedLayout(Base)
                 ELSE IF ManualCommitSeen THEN SavedLayout(Adopted)
                 ELSE layout
    /\ published' = IF ManualCommitSeen THEN LiveSlots ELSE published
    /\ requested' = FALSE
    /\ legacy' = BaseLegacy
    /\ confirmed' = IF requested THEN NoConfirm ELSE confirmed
    /\ changed' = (changed /\ ~requested)

\* Mutant of RefreshKeeps: the manual commit is not compared with what was published.
RefreshKeepsPreferred ==
    /\ mainAt = "plan" /\ ~assigning /\ Unchanged
    /\ preferred' = preferred
    /\ previousKeys' = scan
    /\ Returns
    /\ UNCHANGED <<session, world, seats, uiAt, modal, drawn, scan,
                   assignedIds, initialized, assignedProfile, counts, layout, published,
                   requested, legacy, confirmed, changed>>

\* Same pads and profiles: a manual commit is adopted, the seats stay.
RefreshKeeps ==
    /\ mainAt = "plan" /\ ~assigning /\ Unchanged
    /\ Adopt
    /\ preferred' = Base
    /\ previousKeys' = scan
    /\ Returns
    /\ UNCHANGED <<session, world, seats, uiAt, modal, drawn, scan,
                   assignedIds, initialized, assignedProfile, counts>>

RefreshPlans ==
    /\ mainAt = "plan" /\ ~assigning /\ ~Unchanged
    /\ Adopt
    /\ LET resolved == ResolveLegacy(Base, BaseLegacy, scan, padOf)
       IN /\ plan' = Seated(Reconcile(resolved, scan, padOf))
          /\ preferred' = Remembered(resolved, scan, padOf)
    /\ mainAt' = "apply"
    /\ UNCHANGED <<session, world, seats, uiAt, modal, drawn, scan, scanProfile, previousKeys,
                   assignedIds, initialized, assignedProfile, counts>>

\* auto_assign_players refuses while a session is open; the keyboard profiles of the
\* planned keyboard ports are set all the same.
RefreshApplies ==
    /\ mainAt = "apply"
    /\ LET keyboards == {p \in Ports : plan[p].kb}
       IN IF assigning
          THEN kbProfile' = kbProfile \union keyboards /\ UNCHANGED players
          ELSE kbProfile' = keyboards /\ players' = plan
    /\ mainAt' = "publish"
    /\ UNCHANGED <<session, world, uiAt, modal, drawn, scan, scanProfile, plan, statics,
                   requested, layout, confirmed, changed, counts>>

RefreshPublishes ==
    /\ mainAt = "publish"
    /\ published' = LiveSlots
    /\ previousKeys' = scan
    /\ assignedIds' = scan
    /\ assignedProfile' = scanProfile
    /\ initialized' = TRUE
    /\ Returns
    /\ UNCHANGED <<session, world, seats, uiAt, modal, drawn, scan, preferred,
                   legacy, requested, layout, confirmed, changed, counts>>

Refresh ==
    \/ BeginRefresh \/ RefreshWaits \/ RefreshKeeps \/ RefreshPlans
    \/ RefreshApplies \/ RefreshPublishes

Commit == CommitStop \/ CommitCopy \/ CommitProfiles

Next ==
    \/ \E pad \in Pads : Plug(pad)
    \/ \E h \in connected : Unplug(h)
    \/ ChangeProfile \/ Relaunch
    \/ OpenDialog \/ UpdateControls \/ PressButton \/ PressAddKeyboard \/ KeyboardSits
    \/ DialogEvent \/ PressAutoConfigure
    \/ Commit \/ Refresh

\* The frame loop keeps calling refresh_players; a callback that began finishes.
Fairness == WF_vars(Refresh) /\ WF_vars(CommitCopy \/ CommitProfiles \/ KeyboardSits)

Spec     == Init /\ [][Next]_vars
FairSpec == Spec /\ Fairness

-----------------------------------------------------------------------------
(* Properties.                                                             *)

PlayersTypeOK ==
    /\ SessionTypeOK
    /\ padOf \in Seq(Pads) /\ connected \subseteq DOMAIN padOf
    /\ players \in [Ports -> Players] /\ kbProfile \subseteq Ports
    /\ uiAt \in {"idle", "keyboard", "copy", "profiles"}
    /\ modal \in {"closed", "open", "closing"} /\ drawn \in BOOLEAN
    /\ mainAt \in {"events", "plan", "apply", "publish"}
    /\ {scan, previousKeys, assignedIds} \subseteq SUBSET DOMAIN padOf
    /\ plan \in [Ports -> Players]
    /\ preferred \in [Ports -> Slots]
    /\ legacy \in [Ports -> SUBSET Pads]
    /\ published \in Layouts
    /\ {initialized, requested, changed} \subseteq BOOLEAN
    /\ layout \in Layouts \union {NoLayout}
    /\ {profile, scanProfile, assignedProfile} \subseteq 0 .. MaxProfiles

PadAt(p) == IF players[p].ctl = NoHandle THEN NoPad ELSE padOf[players[p].ctl]

\* Every event so far has been taken in by a refresh and no dialog is open.
AtRest ==
    /\ initialized /\ mainAt = "events" /\ ~assigning /\ uiAt = "idle" /\ ~requested
    /\ connected = scan /\ scan = assignedIds /\ profile = assignedProfile
    /\ LiveSlots = published

\* "A physical controller must never appear on two ports": through hotplug, imports,
\* dialogs, Auto-configure and relaunches.
OnePadOnePort ==
    \A p, q \in Ports : p # q /\ PadAt(p) # NoPad => PadAt(p) # PadAt(q)

\* The same once every hotplug and dialog has been taken in.
OnePadAtRest == AtRest => OnePadOnePort

\* A connected pad is left without a port only when no port may take it: each one has
\* a pad, a keyboard player of its own, or a reservation.
PadsSeated ==
    AtRest => \A h \in connected :
        \/ \E p \in Ports : players[p].ctl = h
        \/ \A p \in Ports :
              preferred[p].reserved \/ players[p].ctl # NoHandle
              \/ (players[p].kb /\ ~preferred[p].share)

\* A reserved port has its pad whenever that pad is connected.
ReservedPadsSeated ==
    AtRest => \A p \in Ports :
        preferred[p].reserved /\ Present(connected, padOf, preferred[p].ctl)
            => PadAt(p) = preferred[p].ctl

\* "Ordinary hotplug discovery keeps surviving controllers in their current ports": a refresh
\* that nobody asked to rebuild the order moves no pad that is still there, but to a port
\* input.json names it for, when that port or a lower one has lost the pad it was named for.
NamedPortLost(q) == \E r \in 0 .. q : legacy[r] # {} /\ players[r].ctl \notin scan \union {NoHandle}
SurvivorKept ==
    mainAt = "plan" /\ mainAt' = "apply" /\ initialized /\ ~requested =>
        \A p \in Ports : players[p].ctl \in scan =>
            \E q \in Ports :
                /\ plan'[q].ctl = players[p].ctl
                /\ q = p \/ (padOf[players[p].ctl] \in legacy[q] /\ NamedPortLost(q))
SurvivorsStay == [][SurvivorKept]_vars

\* "A layout saved from Assign players or Auto-configure wins": after a relaunch every
\* saved pad that is connected, and the keyboard, start on the port they were saved on.
LayoutTaken ==
    mainAt = "publish" /\ ~initialized /\ layout # NoLayout =>
        \A p \in Ports :
            /\ Present(scan, padOf, layout[p].ctl) => PadAt(p) = layout[p].ctl
            /\ players[p].kb = layout[p].kb
LayoutRestored == LayoutTaken

\* A confirmed seating that changed something stays: its pads keep their ports through every
\* later hotplug, and no other pad gets one.
ConfirmedAt(p) == IF confirmed[p].ctl = NoHandle THEN NoPad ELSE padOf[confirmed[p].ctl]
ConfirmedHolds ==
    \A p \in DOMAIN confirmed :
        PadAt(p) = IF Present(connected, padOf, ConfirmedAt(p)) THEN ConfirmedAt(p) ELSE NoPad
ChangedSeatsStay ==
    AtRest /\ changed => ConfirmedHolds

\* Hotplug, a confirmed dialog and Auto-configure are all taken in once no dialog is open.
Settles == <>[](~assigning /\ modal = "closed") => []<>AtRest
=============================================================================
