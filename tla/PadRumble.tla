----------------------------- MODULE PadRumble -----------------------------
(***************************************************************************)
(* A port's rumble in the build with the frontend.  The game thread pulses *)
(* the Rumble Pak's motor; once a frame the main thread turns its on-time  *)
(* into a level (src/src/main/bar_rumble.cpp), finds the port's pad (the   *)
(* end of bar_frontend.cpp's pump_events) and sends it through SDL, or     *)
(* through a force-feedback effect (recompinput's rumble.cpp).             *)
(* Time is in units of 50 ms; a level is 0 or a class of strengths.        *)
(***************************************************************************)
EXTENDS Integers, FiniteSets

CONSTANTS
    Handles,      \* the pads' SDL_JoystickIDs
    Adapters,     \* those of the N64 adapter, which SDL_JoystickRumble cannot drive
    MaxLevel, Step,   \* strengths 0 .. MaxLevel; Step apart is 0x0800 or more
    Refresh,      \* a held level is sent again after this long: 100 ms
    SendDuration, \* kSendDurationMs: 250 ms
    FrameGap, FrameDelay,  \* a frame begins this long after the last, and takes this long
    MaxTime, MaxSwitches, MaxSeats, MaxFocus, MaxFailures  \* bounds, by what they count

NoPad == 0

ASSUME RumbleAssumption ==
    /\ Handles \subseteq Nat \ {NoPad} /\ IsFiniteSet(Handles) /\ Adapters \subseteq Handles
    /\ MaxLevel \in Nat /\ Step \in Nat
    /\ Refresh \in Nat /\ SendDuration \in Nat /\ FrameGap \in Nat /\ FrameDelay \in Nat
    /\ FrameDelay <= FrameGap /\ Refresh + FrameGap + FrameDelay < SendDuration
    /\ MaxTime \in Nat

VARIABLES
    now,          \* the steady clock
    on, on_since, on_total,  \* the port's Motor
    step,         \* where the main thread is: "idle", "first", "read", "open" or "over"
    t,            \* the time step() has taken
    quiet,        \* bar_output_silenced, as pump_events passed it
    last_t, last_on, level, last_sent, last_send_t,  \* step()'s statics; last_t is -1 before
    silenced,     \* the window is out of focus and Mute When Not In Focus is on
    attached,     \* the pads plugged in
    seat,         \* the handle of the port's player
    seatedAt,     \* when it got the port
    told,         \* whether it was told of last_sent there and took it: "nothing", "told"
                  \* or "refused"
    runUntil,     \* by pad: when SDL stops its motor
    fallbacks,    \* by pad, the last its entry got of subsystem, device and effect: "none"
                  \* without an entry, "dead", "subsystem", "device" or "open"
    hapticRefs,   \* SDL_InitSubSystem(SDL_INIT_HAPTIC) without its SDL_QuitSubSystem
    spent         \* bound: what was used of every bound

motor  == <<on, on_since, on_total>>
model  == <<last_t, last_on, level, last_sent, last_send_t>>
frame  == <<step, t, quiet>>
player == <<seat, seatedAt, told>>
pads   == <<runUntil, fallbacks, hapticRefs>>
vars   == <<now, motor, frame, model, silenced, attached, player, pads, spent>>

Init ==
    /\ now = 0
    /\ on = FALSE /\ on_since = 0 /\ on_total = 0
    /\ step = "idle" /\ t = 0 /\ quiet = FALSE
    /\ last_t = -1 /\ last_on = 0 /\ level = 0 /\ last_sent = -1 /\ last_send_t = 0
    /\ silenced = FALSE
    /\ attached = Handles
    /\ seat = NoPad /\ seatedAt = 0 /\ told = "nothing"
    /\ runUntil = [h \in Handles |-> 0]
    /\ fallbacks = [h \in Handles |-> "none"] /\ hapticRefs = 0
    /\ spent = [what \in {"switches", "seats", "focus", "failures"} |-> 0]

Larger(a, b) == IF a < b THEN b ELSE a
Spend(what, bound) == spent[what] < bound /\ spent' = [spent EXCEPT ![what] = @ + 1]
Runs(h) == now < runUntil[h]

\* Time passes, within a frame and between two.
Tick ==
    /\ now < MaxTime
    /\ \/ step = "idle" /\ (last_t = -1 \/ now - last_t < FrameGap)
       \/ step \in {"first", "read", "open"} /\ now - t < FrameDelay
    /\ now' = now + 1
    /\ UNCHANGED <<motor, frame, model, silenced, attached, player, pads, spent>>

-----------------------------------------------------------------------------
\* bar_rumble.cpp.

\* motor(): the game thread starts or stops the motor of its port.
Motor ==
    /\ Spend("switches", MaxSwitches)
    /\ on' = ~on
    /\ IF on THEN on_total' = on_total + (now - on_since) /\ UNCHANGED on_since
             ELSE on_since' = now /\ UNCHANGED on_total
    /\ UNCHANGED <<now, frame, model, silenced, attached, player, pads>>

\* Mutant of OnTime: without the lower bound.
OnTimeUnbounded(time) == on_total + (IF on THEN time - on_since ELSE 0)

\* on_time(): the motor may have been started after the time the frame took.
OnTime(time) == on_total + (IF on THEN Larger(0, time - on_since) ELSE 0)

\* step() takes the time before it reads the motor; it returns when none has passed.
BeginFrame ==
    /\ step = "idle" /\ now # last_t
    /\ t' = now /\ quiet' = silenced
    /\ step' = IF last_t = -1 THEN "first" ELSE "read"
    /\ UNCHANGED <<now, motor, model, silenced, attached, player, pads, spent>>

EndFrame == step' = "idle" /\ t' = 0 /\ quiet' = FALSE

FirstFrame ==
    /\ step = "first"
    /\ last_on' = OnTime(t) /\ last_t' = t
    /\ EndFrame
    /\ UNCHANGED <<now, motor, level, last_sent, last_send_t, silenced, attached,
                   player, pads, spent>>

\* The duty of the motor since the last frame, as the level it would settle at.
Duties(time) ==
    CASE time <= last_on -> {0}
      [] time - last_on >= t - last_t -> {MaxLevel}
      [] OTHER -> 1 .. MaxLevel - 1

\* The low-pass moves the level towards the duty.
Levels(duty) == IF duty > level THEN level .. duty ELSE duty .. level

\* Mutant of Changed: a level that fades to nothing is no change.
ChangedOnlyFar(strength) ==
    last_sent < 0 \/ strength - last_sent >= Step \/ last_sent - strength >= Step

Changed(strength) ==
    \/ last_sent < 0 \/ strength - last_sent >= Step \/ last_sent - strength >= Step
    \/ (strength = 0) # (last_sent = 0)

\* Mutant of Due: a held level is not refreshed.
DueOnChange(strength) == Changed(strength)

Due(strength) == Changed(strength) \/ (strength # 0 /\ t - last_send_t > Refresh)

-----------------------------------------------------------------------------
\* rumble.cpp.  close_fallback: the effect is stopped, the subsystem given back.
Owns(h) == fallbacks[h] \in {"subsystem", "device", "open"}
Close(h) ==
    /\ runUntil' = [runUntil EXCEPT ![h] = IF fallbacks[h] = "open" THEN 0 ELSE @]
    /\ hapticRefs' = hapticRefs - (IF Owns(h) THEN 1 ELSE 0)

Command(h, start) == runUntil' = [runUntil EXCEPT ![h] = IF start THEN now + SendDuration ELSE 0]
Told(result) == told' = result
Refused == Told("refused") /\ UNCHANGED <<pads, spent>>
Becomes(h, entry) == fallbacks' = [fallbacks EXCEPT ![h] = entry]

\* An SDL call fails: the entry stays, without a device.
GiveUp(h) ==
    /\ Spend("failures", MaxFailures) /\ Told("refused")
    /\ Close(h) /\ Becomes(h, "dead")

\* "Do not retry a failed device every frame."
PlayFallback(h, start) ==
    \/ fallbacks[h] = "dead" /\ Refused
    \/ /\ fallbacks[h] = "open" /\ Command(h, start) /\ Told("told")
       /\ UNCHANGED <<fallbacks, hapticRefs, spent>>
    \/ fallbacks[h] = "open" /\ GiveUp(h)

\* SDL_JoystickRumble failed: a motor that shall run needs a device, opened below.
OpenFallback(h, start) ==
    /\ h \in attached \cap Adapters /\ fallbacks[h] = "none" /\ start
    /\ Becomes(h, "dead") /\ Told("refused") /\ UNCHANGED <<hapticRefs, runUntil, spent>>
    /\ step' = "open" /\ UNCHANGED <<t, quiet>>

\* send_controller_rumble.
Send(h, start) ==
    \/ h \notin attached /\ Refused
    \/ h \in attached /\ fallbacks[h] # "none" /\ PlayFallback(h, start)
    \/ /\ h \in attached /\ fallbacks[h] = "none" /\ h \notin Adapters
       /\ \/ Command(h, start) /\ Told("told") /\ UNCHANGED <<fallbacks, hapticRefs, spent>>
          \/ Spend("failures", MaxFailures) /\ Told("refused") /\ UNCHANGED pads
    \/ /\ h \in attached \cap Adapters /\ fallbacks[h] = "none" /\ ~start
       /\ Told("told") /\ UNCHANGED <<pads, spent>>

\* The rest of step() and of pump_events: the level is noted as sent, pad or no pad.
Frame ==
    /\ step = "read"
    /\ \E duty \in Duties(OnTime(t)) : \E l \in Levels(duty) :
       \E strength \in (IF quiet THEN {0} ELSE 0 .. l) :
        /\ level' = l
        /\ IF Due(strength) THEN last_sent' = strength /\ last_send_t' = t
                            ELSE UNCHANGED <<last_sent, last_send_t>>
        /\ IF Due(strength) /\ seat # NoPad
           THEN OpenFallback(seat, strength # 0) \/ (Send(seat, strength # 0) /\ EndFrame)
           ELSE UNCHANGED <<told, pads, spent>> /\ EndFrame
    /\ last_on' = OnTime(t) /\ last_t' = t
    /\ UNCHANGED <<now, motor, silenced, attached, seat, seatedAt>>

\* The opening of a force-feedback device, call by call, within the frame.
Opening(got) ==
    /\ step = "open" /\ fallbacks[seat] = got
    /\ UNCHANGED <<now, motor, model, silenced, attached, seat, seatedAt>>
Gets(what) == Becomes(seat, what) /\ UNCHANGED <<frame, told, runUntil, spent>>

\* SDL_InitSubSystem.
OpenSubsystem ==
    /\ Opening("dead")
    /\ \/ Gets("subsystem") /\ hapticRefs' = hapticRefs + 1
       \/ GiveUp(seat) /\ EndFrame

\* SDL_HapticOpenFromJoystick, and whether the device can do it.
OpenDevice ==
    /\ Opening("subsystem")
    /\ \/ Gets("device") /\ UNCHANGED hapticRefs
       \/ GiveUp(seat) /\ EndFrame

\* Mutant of NewEffect: a device that takes no effect is not closed.
NewEffectKeeps ==
    /\ Opening("device")
    /\ \/ Gets("open") /\ UNCHANGED hapticRefs
       \/ Spend("failures", MaxFailures) /\ Told("refused") /\ UNCHANGED pads /\ EndFrame

\* SDL_HapticNewEffect.
NewEffect ==
    /\ Opening("device")
    /\ \/ Gets("open") /\ UNCHANGED hapticRefs
       \/ GiveUp(seat) /\ EndFrame

PlayOpened == Opening("open") /\ PlayFallback(seat, TRUE) /\ EndFrame

-----------------------------------------------------------------------------
\* What happens to the pads between two frames.

\* The port gets another player, or none (PlayerAssignment says when).
Seat ==
    /\ step = "idle" /\ Spend("seats", MaxSeats)
    /\ \E h \in attached \cup {NoPad} :
         h # seat /\ seat' = h /\ seatedAt' = IF h = NoPad THEN 0 ELSE now
    /\ told' = "nothing"
    /\ UNCHANGED <<now, motor, frame, model, silenced, attached, pads>>

Unplug(h) ==
    /\ h \in attached /\ attached' = attached \ {h}
    /\ runUntil' = [runUntil EXCEPT ![h] = 0]
    /\ UNCHANGED <<now, motor, frame, model, silenced, player, fallbacks, hapticRefs, spent>>

\* remove_controller_state, and the port that lost its player with it.
OnRemoved(h) ==
    /\ step = "idle" /\ h \notin attached /\ (seat = h \/ fallbacks[h] # "none")
    /\ Close(h) /\ Becomes(h, "none")
    /\ IF seat = h THEN seat' = NoPad /\ seatedAt' = 0 /\ told' = "nothing"
                   ELSE UNCHANGED player
    /\ UNCHANGED <<now, motor, frame, model, silenced, attached, spent>>

Focus ==
    /\ Spend("focus", MaxFocus) /\ silenced' = ~silenced
    /\ UNCHANGED <<now, motor, frame, model, attached, player, pads>>

\* release_all_controller_rumble, once recomp::start has returned: it does something when
\* there is an entry.
Shutdown ==
    /\ step = "idle" /\ step' = "over"
    /\ \E h \in Handles : fallbacks[h] # "none"
    /\ runUntil' = [h \in Handles |-> IF fallbacks[h] = "open" THEN 0 ELSE runUntil[h]]
    /\ hapticRefs' = hapticRefs - Cardinality({h \in Handles : Owns(h)})
    /\ fallbacks' = [h \in Handles |-> "none"]
    /\ UNCHANGED <<now, motor, t, quiet, model, silenced, attached, player, spent>>

Next ==
    \/ Tick \/ Motor \/ BeginFrame \/ FirstFrame \/ Frame
    \/ OpenSubsystem \/ OpenDevice \/ NewEffect \/ PlayOpened
    \/ Seat \/ Focus \/ Shutdown
    \/ \E h \in Handles : Unplug(h) \/ OnRemoved(h)

Spec == Init /\ [][Next]_vars

-----------------------------------------------------------------------------
\* The type of the state.
RumbleTypeOK ==
    /\ on \in BOOLEAN /\ quiet \in BOOLEAN /\ silenced \in BOOLEAN
    /\ now \in Nat /\ on_since \in 0 .. now /\ on_total \in Nat
    /\ step \in {"idle", "first", "read", "open", "over"} /\ t \in 0 .. now
    /\ last_t \in -1 .. now /\ last_on \in Nat /\ level \in 0 .. MaxLevel
    /\ last_sent \in -1 .. MaxLevel /\ last_send_t \in 0 .. now
    /\ attached \subseteq Handles
    /\ seat \in Handles \cup {NoPad} /\ seatedAt \in 0 .. now
    /\ told \in {"nothing", "told", "refused"}
    /\ runUntil \in [Handles -> Nat] /\ hapticRefs \in Nat
    /\ fallbacks \in [Handles -> {"none", "dead", "subsystem", "device", "open"}]
    /\ spent \in [{"switches", "seats", "focus", "failures"} -> Nat]

\* No pulse of the motor counts twice and none counts below zero, though the game thread
\* switches it between the time a frame takes and the time it reads: every step counts at
\* least what was counted before and at most what the motor ran.
RanFor == on_total + (IF on THEN now - on_since ELSE 0)
CountedOnce == [][last_on' >= last_on /\ last_on' <= RanFor']_vars

\* A level held on a pad that took it never lapses: the refresh beats SDL's 250 ms.
HeldLevelRuns ==
    step # "over" /\ told = "told" /\ last_sent > 0 /\ seat \in attached => Runs(seat)

\* A pad that takes what it is told does not run when the model's motor stands still or the
\* port is muted: the step to nothing is sent however small it is.
SilenceReachesPads == told = "told" /\ (level = 0 \/ last_sent = 0) => ~Runs(seat)

\* A pad that gets the port while a level is held is told of it by the next refresh, though
\* the level was noted as sent when the port had no pad.
NewcomerIsTold ==
    step # "over" /\ seat # NoPad /\ last_sent > 0
        /\ now - seatedAt > Refresh + FrameGap + FrameDelay => told # "nothing"

\* Every open effect holds the haptic subsystem once and nothing else does when a send is over,
\* whichever of its SDL calls failed, and whatever was removed.
SubsystemBalanced ==
    step # "open" => hapticRefs = Cardinality({h \in Handles : fallbacks[h] = "open"})

=============================================================================
