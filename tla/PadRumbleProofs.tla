-------------------------- MODULE PadRumbleProofs --------------------------
(* For any pads, levels and times that keep the refresh inside SDL's       *)
(* duration: no pulse counts twice, a held level never lapses, a muted pad *)
(* stands still, and the haptic subsystem is given back as often as taken. *)
EXTENDS PadRumble, FiniteSetTheorems, TLAPS

USE RumbleAssumption DEF NoPad

-----------------------------------------------------------------------------
\* Where the main thread's time stands between the clock and the frame before.
FrameTimes ==
    /\ step = "first" => last_t = -1
    /\ step = "read" => 0 <= last_t /\ last_t < t /\ t - last_t <= FrameGap
    /\ step \in {"first", "read", "open"} => now - t <= FrameDelay
    /\ step = "open" => last_t = t
    /\ step = "idle" /\ last_t >= 0 => now - last_t <= FrameGap

\* What was counted is what the motor ran until the last frame, or less.
Counted == last_on <= OnTime(last_t)

\* A level that is held was sent within the refresh, seen from the last frame.
Refreshed ==
    /\ last_sent > 0 => last_t - last_send_t <= Refresh
    /\ last_t = -1 => last_sent = -1

\* The subsystem is taken once for every entry that owns it.
Balanced == hapticRefs = Cardinality({h \in Handles : Owns(h)})

\* Only the port's adapter has a device half open, while it is opened for a level to be held.
Half  == {"subsystem", "device"}
Whole == \A h \in Handles : fallbacks[h] \notin Half
HalfOpen ==
    /\ step # "open" => Whole
    /\ step = "open" =>
         /\ seat \in Adapters /\ told = "refused" /\ last_sent > 0 /\ level > 0
         /\ \A h \in Handles \ {seat} : fallbacks[h] \notin Half

\* An adapter runs only under an open effect.
AdaptersQuiet == \A h \in Adapters : fallbacks[h] # "open" => runUntil[h] = 0

\* What the pad took of the level lasts from when it was sent, and silence is final.
Heard ==
    told = "told" =>
        /\ seat # NoPad /\ last_sent >= 0
        /\ last_sent > 0 /\ step # "over" /\ seat \in attached =>
             last_send_t + SendDuration <= runUntil[seat]
        /\ level = 0 \/ last_sent = 0 => runUntil[seat] <= now

\* Who has been told nothing came after the last sending.
Unheard == told = "nothing" /\ seat # NoPad /\ last_sent > 0 => last_send_t <= seatedAt

\* The parts of the type: what Zenon, arithmetic and functions are good for.
Entries    == {"none", "dead", "subsystem", "device", "open"}
SwitchesOK == on \in BOOLEAN /\ quiet \in BOOLEAN /\ silenced \in BOOLEAN
TimesOK ==
    /\ now \in Nat /\ on_since \in 0 .. now /\ on_total \in Nat
    /\ step \in {"idle", "first", "read", "open", "over"} /\ t \in 0 .. now
    /\ last_t \in -1 .. now /\ last_on \in Nat /\ level \in 0 .. MaxLevel
    /\ last_sent \in -1 .. MaxLevel /\ last_send_t \in 0 .. now
PadsOK ==
    /\ attached \subseteq Handles
    /\ seat \in Handles \cup {NoPad} /\ seatedAt \in 0 .. now
    /\ told \in {"nothing", "told", "refused"}
    /\ runUntil \in [Handles -> Nat] /\ fallbacks \in [Handles -> Entries] /\ hapticRefs \in Nat
    /\ spent \in [{"switches", "seats", "focus", "failures"} -> Nat]

RumbleInv ==
    /\ SwitchesOK /\ TimesOK /\ PadsOK /\ FrameTimes /\ Counted /\ Refreshed
    /\ Balanced /\ HalfOpen /\ AdaptersQuiet /\ Heard /\ Unheard

LEMMA TypeParts == SwitchesOK /\ TimesOK /\ PadsOK => RumbleTypeOK
BY Zenon DEF SwitchesOK, TimesOK, PadsOK, Entries, RumbleTypeOK

LEMMA InitInv == Init => RumbleInv
<1> SUFFICES ASSUME Init PROVE RumbleInv
  OBVIOUS
<1> USE DEF Init
<1>1. SwitchesOK
  BY Zenon DEF SwitchesOK
<1>2. TimesOK /\ PadsOK
  BY DEF TimesOK, PadsOK, Entries
<1>3. FrameTimes /\ Refreshed /\ AdaptersQuiet /\ HalfOpen
  BY DEF FrameTimes, Refreshed, AdaptersQuiet, HalfOpen, Whole, Half
<1>4. Heard /\ Unheard
  BY DEF Heard, Unheard
<1>5. Counted
  BY DEF Counted, OnTime, Larger
<1>6. Balanced
  <2>1. {h \in Handles : Owns(h)} = {}
    BY DEF Owns
  <2> QED BY <2>1, FS_EmptySet DEF Balanced
<1> QED BY <1>1, <1>2, <1>3, <1>4, <1>5, <1>6 DEF RumbleInv

-----------------------------------------------------------------------------
\* The motor's on-time is a natural number that does not fall with the time asked for.
LEMMA OnTimeGrows ==
    ASSUME on \in BOOLEAN, on_since \in Int, on_total \in Nat, NEW a \in Int, NEW b \in Int,
           a <= b
    PROVE  OnTime(a) \in Nat /\ OnTime(b) \in Nat /\ OnTime(a) <= OnTime(b)
<1>1. CASE on = TRUE
  BY <1>1 DEF OnTime, Larger
<1>2. CASE on = FALSE
  BY <1>2 DEF OnTime, Larger
<1> QED BY <1>1, <1>2, Zenon

\* The count of the entries that own the subsystem follows the change of one entry.
Owning == {"subsystem", "device", "open"}
LEMMA OneEntry ==
    ASSUME PadsOK, Balanced, NEW h \in Handles, NEW v \in Entries,
           fallbacks' = [fallbacks EXCEPT ![h] = v],
           hapticRefs' = hapticRefs + (IF v \in Owning THEN 1 ELSE 0)
                                    - (IF fallbacks[h] \in Owning THEN 1 ELSE 0)
    PROVE  Balanced' /\ hapticRefs' \in Nat
<1> DEFINE Old == {g \in Handles : fallbacks[g] \in Owning}
           New == {g \in Handles : fallbacks'[g] \in Owning}
<1>0. fallbacks \in [Handles -> Entries] /\ hapticRefs \in Nat
  BY DEF PadsOK
<1>1. IsFiniteSet(Old) /\ IsFiniteSet(New)
  BY FS_Subset
<1>2. Cardinality(Old) = hapticRefs
  BY DEF Balanced, Owns, Owning
<1>3. New = IF v \in Owning THEN Old \cup {h} ELSE Old \ {h}
  BY <1>0
<1>4. h \in Old <=> fallbacks[h] \in Owning
  OBVIOUS
<1>5. Cardinality(New) \in Nat
  BY <1>1, FS_CardinalityType
<1>6. Cardinality(New) = hapticRefs'
  <2>1. /\ Cardinality(Old \cup {h}) =
             IF h \in Old THEN Cardinality(Old) ELSE Cardinality(Old) + 1
        /\ Cardinality(Old \ {h}) =
             IF h \in Old THEN Cardinality(Old) - 1 ELSE Cardinality(Old)
    BY <1>1, FS_AddElement, FS_RemoveElement
  <2> HIDE DEF Old, New
  <2> QED BY <1>0, <1>2, <1>3, <1>4, <2>1
<1> QED BY <1>5, <1>6 DEF Balanced, Owns, Owning

LEMMA PadsSame ==
    ASSUME Balanced, AdaptersQuiet, UNCHANGED pads
    PROVE  Balanced' /\ AdaptersQuiet' /\ (Whole => Whole')
BY DEF Balanced, Owns, AdaptersQuiet, Whole, pads

\* Nothing that the opening of a device is about has changed.
LEMMA OpeningSame ==
    ASSUME HalfOpen, UNCHANGED <<step, seat, told, last_sent, level, fallbacks>>
    PROVE  HalfOpen'
BY DEF HalfOpen, Whole

-----------------------------------------------------------------------------
LEMMA TickKeeps == RumbleInv /\ Tick => RumbleInv'
<1> SUFFICES ASSUME RumbleInv, Tick PROVE RumbleInv'
  OBVIOUS
<1> USE DEF RumbleInv, Tick, motor, frame, model, player
<1>1. SwitchesOK' /\ Counted'
  BY Zenon DEF SwitchesOK, Counted, OnTime, Larger
<1>2. TimesOK'
  BY DEF TimesOK
<1>3. PadsOK'
  BY DEF TimesOK, PadsOK, pads
<1>4. FrameTimes'
  BY DEF TimesOK, FrameTimes
<1>5. Refreshed' /\ Unheard'
  BY DEF Refreshed, Unheard
<1>6. Heard'
  BY DEF TimesOK, PadsOK, Heard, pads
<1>7. HalfOpen'
  BY OpeningSame DEF pads
<1> QED BY ONLY <1>1, <1>2, <1>3, <1>4, <1>5, <1>6, <1>7, PadsSame, RumbleInv, Tick, Zenon
  DEF RumbleInv, Tick

LEMMA MotorKeeps == RumbleInv /\ Motor => RumbleInv'
<1> SUFFICES ASSUME RumbleInv, Motor PROVE RumbleInv'
  OBVIOUS
<1> USE DEF RumbleInv, Motor, frame, model, player, Spend
<1>1. SwitchesOK'
  BY Zenon DEF SwitchesOK
<1>2. /\ now' = now /\ last_t' = last_t /\ last_on' = last_on
      /\ on = TRUE => on' = FALSE /\ on_total' = on_total + (now - on_since) /\ on_since' = on_since
      /\ on = FALSE => on' = TRUE /\ on_since' = now /\ on_total' = on_total
  BY Zenon
<1>3. on = TRUE \/ on = FALSE
  BY Zenon DEF SwitchesOK
<1>4. TimesOK'
  <2>1. on_since' \in 0 .. now' /\ on_total' \in Nat
    BY ONLY RumbleInv, <1>2, <1>3 DEF TimesOK
  <2> QED BY <2>1 DEF TimesOK
<1>5. PadsOK'
  BY DEF PadsOK, pads
<1>6. Counted'
  BY ONLY RumbleInv, <1>2, <1>3 DEF TimesOK, Counted, OnTime, Larger
<1>7. FrameTimes' /\ Refreshed' /\ Heard' /\ Unheard'
  BY DEF FrameTimes, Refreshed, Heard, Unheard, pads
<1>8. HalfOpen'
  BY OpeningSame DEF pads
<1> QED BY ONLY <1>1, <1>4, <1>5, <1>6, <1>7, <1>8, PadsSame, RumbleInv, Motor, Zenon
  DEF RumbleInv, Motor

LEMMA BeginFrameKeeps == RumbleInv /\ BeginFrame => RumbleInv'
<1> SUFFICES ASSUME RumbleInv, BeginFrame PROVE RumbleInv'
  OBVIOUS
<1> USE DEF RumbleInv, BeginFrame, motor, model, player
<1>1. SwitchesOK' /\ Counted'
  BY Zenon DEF SwitchesOK, Counted, OnTime, Larger
<1>2. TimesOK'
  BY DEF TimesOK
<1>3. PadsOK'
  BY DEF PadsOK, pads
<1>4. FrameTimes'
  BY DEF TimesOK, FrameTimes
<1>5. Refreshed' /\ Heard' /\ Unheard'
  BY DEF TimesOK, Refreshed, Heard, Unheard, pads
<1>6. HalfOpen'
  BY DEF HalfOpen, Whole, pads
<1> QED BY ONLY <1>1, <1>2, <1>3, <1>4, <1>5, <1>6, PadsSame, RumbleInv, BeginFrame, Zenon
  DEF RumbleInv, BeginFrame

LEMMA FirstFrameKeeps == RumbleInv /\ FirstFrame => RumbleInv'
<1> SUFFICES ASSUME RumbleInv, FirstFrame PROVE RumbleInv'
  OBVIOUS
<1> USE DEF RumbleInv, FirstFrame, EndFrame, motor, player
<1>1. SwitchesOK'
  BY Zenon DEF SwitchesOK
<1>2. OnTime(t) \in Nat /\ last_on' = OnTime(t)
  <2>1. on \in BOOLEAN /\ on_since \in Int /\ on_total \in Nat /\ t \in Int /\ t <= t
    BY DEF SwitchesOK, TimesOK
  <2> QED BY <2>1, OnTimeGrows
<1>3. TimesOK'
  BY <1>2 DEF TimesOK
<1>4. PadsOK'
  BY DEF PadsOK, pads
<1>5. Counted'
  <2>1. OnTime(last_t)' = OnTime(t)
    BY Zenon DEF OnTime, Larger
  <2> QED BY ONLY <1>2, <2>1 DEF Counted
<1>6. FrameTimes'
  BY DEF TimesOK, FrameTimes
<1>7. Refreshed' /\ Heard' /\ Unheard'
  BY DEF TimesOK, FrameTimes, Refreshed, Heard, Unheard, pads
<1>8. HalfOpen'
  BY DEF HalfOpen, Whole, pads
<1> QED BY ONLY <1>1, <1>3, <1>4, <1>5, <1>6, <1>7, <1>8, PadsSame, RumbleInv, FirstFrame, Zenon
  DEF RumbleInv, FirstFrame

LEMMA FocusKeeps == RumbleInv /\ Focus => RumbleInv'
<1> SUFFICES ASSUME RumbleInv, Focus PROVE RumbleInv'
  OBVIOUS
<1> USE DEF RumbleInv, Focus, motor, frame, model, player, Spend
<1>1. SwitchesOK' /\ Counted'
  BY Zenon DEF SwitchesOK, Counted, OnTime, Larger
<1>2. TimesOK' /\ PadsOK'
  BY DEF TimesOK, PadsOK, pads
<1>3. FrameTimes' /\ Refreshed' /\ Heard' /\ Unheard'
  BY DEF FrameTimes, Refreshed, Heard, Unheard, pads
<1>4. HalfOpen'
  BY OpeningSame DEF pads
<1> QED BY ONLY <1>1, <1>2, <1>3, <1>4, PadsSame, RumbleInv, Focus, Zenon DEF RumbleInv, Focus

-----------------------------------------------------------------------------
\* What sending leaves behind: the pad that took the command runs for the duration, or stands.
Sent(h, start) ==
    /\ told' \in {"told", "refused"}
    /\ runUntil' \in [Handles -> Nat] /\ fallbacks' \in [Handles -> Entries]
    /\ hapticRefs' \in Nat /\ spent' \in [{"switches", "seats", "focus", "failures"} -> Nat]
    /\ Balanced' /\ AdaptersQuiet' /\ \A g \in Handles \ {h} : fallbacks'[g] = fallbacks[g]
    /\ Whole => Whole'
    /\ told' = "told" => runUntil'[h] = IF start THEN now + SendDuration ELSE 0

\* Where nothing but what the pad was told changes.
LEMMA RefusedSends ==
    ASSUME RumbleInv, NEW h \in Handles, NEW start \in BOOLEAN, Refused
    PROVE  Sent(h, start)
<1> USE DEF Refused, Told, RumbleInv
<1>1. told' = "refused" /\ UNCHANGED pads /\ UNCHANGED spent
  OBVIOUS
<1>2. Balanced' /\ AdaptersQuiet' /\ (Whole => Whole')
  BY ONLY <1>1, RumbleInv, PadsSame DEF RumbleInv
<1> QED BY <1>1, <1>2 DEF PadsOK, pads, Sent

\* A command to a motor, with the entries as they are.
LEMMA CommandSends ==
    ASSUME RumbleInv, NEW h \in Handles, NEW start \in BOOLEAN,
           Command(h, start), told' = "told", UNCHANGED <<fallbacks, hapticRefs, spent>>,
           h \in Adapters => fallbacks[h] = "open"
    PROVE  Sent(h, start)
<1> USE DEF RumbleInv, Command
<1>1. /\ runUntil \in [Handles -> Nat] /\ fallbacks \in [Handles -> Entries]
      /\ hapticRefs \in Nat /\ now \in Nat
  BY DEF PadsOK, TimesOK
<1>2. DEFINE until == IF start THEN now + SendDuration ELSE 0
<1>3. until \in Nat /\ runUntil' = [runUntil EXCEPT ![h] = until]
  <2>1. CASE start = TRUE
    BY <1>1, <2>1
  <2>2. CASE start = FALSE
    BY <1>1, <2>2
  <2> QED BY <2>1, <2>2, Zenon
<1> HIDE DEF until
<1>4. Balanced' /\ (Whole => Whole')
  BY DEF Balanced, Owns, Whole
<1>5. AdaptersQuiet'
  BY <1>1, <1>3 DEF AdaptersQuiet
<1>6. runUntil' \in [Handles -> Nat] /\ runUntil'[h] = until
  BY <1>1, <1>3
<1> QED BY <1>1, <1>4, <1>5, <1>6 DEF Sent, until, PadsOK

\* A call that fails leaves an entry without a device.
LEMMA GiveUpSends ==
    ASSUME RumbleInv, NEW h \in Handles, NEW start \in BOOLEAN, GiveUp(h)
    PROVE  Sent(h, start) /\ fallbacks'[h] = "dead"
<1> USE DEF RumbleInv, GiveUp, Close, Becomes, Told
<1>1. /\ runUntil \in [Handles -> Nat] /\ fallbacks \in [Handles -> Entries]
      /\ hapticRefs \in Nat
  BY DEF PadsOK
<1>2. spent' \in [{"switches", "seats", "focus", "failures"} -> Nat]
  BY DEF PadsOK, Spend
<1>3. /\ fallbacks' = [fallbacks EXCEPT ![h] = "dead"]
      /\ hapticRefs' = hapticRefs + (IF "dead" \in Owning THEN 1 ELSE 0)
                                  - (IF fallbacks[h] \in Owning THEN 1 ELSE 0)
      /\ runUntil' = [runUntil EXCEPT ![h] = IF fallbacks[h] = "open" THEN 0 ELSE @]
  BY <1>1 DEF Owns, Owning
<1>4. Balanced' /\ hapticRefs' \in Nat
  BY <1>3, OneEntry DEF Entries
<1>5. AdaptersQuiet'
  BY <1>1, <1>3 DEF AdaptersQuiet
<1>6. /\ fallbacks' \in [Handles -> Entries] /\ fallbacks'[h] = "dead"
      /\ \A g \in Handles \ {h} : fallbacks'[g] = fallbacks[g]
  BY <1>1, <1>3 DEF Entries
<1>7. Whole => Whole'
  BY <1>6 DEF Whole, Half
<1> QED BY <1>1, <1>2, <1>3, <1>4, <1>5, <1>6, <1>7 DEF Sent

LEMMA PlaySends ==
    ASSUME RumbleInv, NEW h \in Handles, NEW start \in BOOLEAN, PlayFallback(h, start)
    PROVE  Sent(h, start)
<1>1. CASE Refused
  BY <1>1, RefusedSends
<1>2. CASE /\ fallbacks[h] = "open" /\ Command(h, start) /\ Told("told")
           /\ UNCHANGED <<fallbacks, hapticRefs, spent>>
  BY <1>2, CommandSends DEF Told
<1>3. CASE GiveUp(h)
  BY <1>3, GiveUpSends
<1> QED BY <1>1, <1>2, <1>3 DEF PlayFallback

\* send_controller_rumble, by its paths.
LEMMA SendSends ==
    ASSUME RumbleInv, NEW h \in Handles, NEW start \in BOOLEAN, Send(h, start)
    PROVE  Sent(h, start)
<1>1. CASE h \notin attached /\ Refused
  BY <1>1, RefusedSends
<1>2. CASE PlayFallback(h, start)
  BY <1>2, PlaySends
<1>3. CASE h \notin Adapters /\ Command(h, start) /\ Told("told")
           /\ UNCHANGED <<fallbacks, hapticRefs, spent>>
  BY <1>3, CommandSends DEF Told
<1>4. CASE Spend("failures", MaxFailures) /\ Told("refused") /\ UNCHANGED pads
  <2>1. told' = "refused" /\ UNCHANGED pads
    BY <1>4 DEF Told
  <2>2. Balanced' /\ AdaptersQuiet' /\ (Whole => Whole')
    BY ONLY <2>1, RumbleInv, PadsSame DEF RumbleInv
  <2> QED BY <1>4, <2>1, <2>2 DEF RumbleInv, PadsOK, pads, Spend, Sent
<1>5. CASE /\ h \in attached \cap Adapters /\ fallbacks[h] = "none" /\ ~start
           /\ Told("told") /\ UNCHANGED <<pads, spent>>
  <2>1. told' = "told" /\ UNCHANGED pads /\ UNCHANGED spent
    BY <1>5 DEF Told
  <2>2. Balanced' /\ AdaptersQuiet' /\ (Whole => Whole')
    BY ONLY <2>1, RumbleInv, PadsSame DEF RumbleInv
  <2>3. runUntil'[h] = 0
    BY <1>5, <2>1 DEF RumbleInv, AdaptersQuiet, pads
  <2> QED BY <1>5, <2>1, <2>2, <2>3 DEF RumbleInv, PadsOK, pads, Sent
<1> QED BY <1>1, <1>2, <1>3, <1>4, <1>5 DEF Send

-----------------------------------------------------------------------------
\* The part of a frame that sends what is due.
Sends(strength) ==
    IF Due(strength) /\ seat # NoPad
    THEN OpenFallback(seat, strength # 0) \/ (Send(seat, strength # 0) /\ EndFrame)
    ELSE UNCHANGED <<told, pads, spent>> /\ EndFrame

LEMMA FrameKeeps == RumbleInv /\ Frame => RumbleInv'
<1> SUFFICES ASSUME RumbleInv, Frame PROVE RumbleInv'
  OBVIOUS
<1>1. /\ now \in Nat /\ t \in 0 .. now /\ last_t \in -1 .. now /\ on_total \in Nat
      /\ on_since \in 0 .. now /\ last_on \in Nat /\ level \in 0 .. MaxLevel
      /\ last_sent \in -1 .. MaxLevel /\ last_send_t \in 0 .. now /\ step = "read"
  BY DEF RumbleInv, TimesOK, Frame
<1>2. OnTime(t) \in Nat /\ last_on' = OnTime(t)
  <2>1. on \in BOOLEAN /\ on_since \in Int /\ t \in Int /\ t <= t
    BY <1>1 DEF RumbleInv, SwitchesOK
  <2> QED BY <1>1, <2>1, OnTimeGrows DEF Frame
<1>3. /\ now' = now /\ UNCHANGED motor /\ UNCHANGED silenced /\ attached' = attached
      /\ seat' = seat /\ seatedAt' = seatedAt /\ last_t' = t
  BY Zenon DEF Frame
<1>4. PICK duty \in Duties(OnTime(t)) : \E l \in Levels(duty) :
        \E strength \in (IF quiet THEN {0} ELSE 0 .. l) :
        /\ level' = l
        /\ IF Due(strength) THEN last_sent' = strength /\ last_send_t' = t
                            ELSE UNCHANGED <<last_sent, last_send_t>>
        /\ Sends(strength)
  BY Zenon DEF Frame, Sends
<1>5. PICK l \in Levels(duty) :
        \E strength \in (IF quiet THEN {0} ELSE 0 .. l) :
        /\ level' = l
        /\ IF Due(strength) THEN last_sent' = strength /\ last_send_t' = t
                            ELSE UNCHANGED <<last_sent, last_send_t>>
        /\ Sends(strength)
  BY <1>4, Zenon
<1>6. PICK strength \in (IF quiet THEN {0} ELSE 0 .. l) :
        /\ level' = l
        /\ IF Due(strength) THEN last_sent' = strength /\ last_send_t' = t
                            ELSE UNCHANGED <<last_sent, last_send_t>>
        /\ Sends(strength)
  BY <1>5, Zenon
<1>7. l \in 0 .. MaxLevel
  <2>1. duty \in 0 .. MaxLevel
    BY <1>1, <1>2 DEF Duties
  <2> QED BY <1>1, <1>5, <2>1 DEF Levels
<1>8. strength \in 0 .. l
  <2>1. CASE quiet = TRUE
    <3>1. strength = 0
      BY <1>6, <2>1
    <3> QED BY <1>7, <3>1
  <2>2. CASE quiet = FALSE
    BY <1>6, <2>2
  <2>3. quiet \in BOOLEAN
    BY DEF RumbleInv, SwitchesOK
  <2> QED BY <2>1, <2>2, <2>3, Zenon
<1>9. Whole
  BY <1>1 DEF RumbleInv, HalfOpen
<1>10. Counted'
  <2>1. OnTime(last_t)' = OnTime(t)
    BY <1>3, Zenon DEF OnTime, Larger, motor
  <2> QED BY ONLY <1>2, <2>1 DEF Counted
<1>11. Refreshed'
  <2>1. CASE ~Due(strength)
    BY <1>1, <1>3, <1>6, <1>8, <2>1 DEF Due, Changed, Refreshed
  <2>2. CASE Due(strength)
    BY <1>1, <1>3, <1>6, <2>2 DEF Refreshed
  <2> QED BY <2>1, <2>2
<1>12. CASE EndFrame
  <2>1. step' = "idle" /\ t' = 0 /\ quiet' = FALSE
    BY <1>12 DEF EndFrame
  <2>2. SwitchesOK'
    BY <1>3, <2>1, Zenon DEF RumbleInv, SwitchesOK, motor
  <2>3. FrameTimes'
    BY <1>1, <1>3, <2>1 DEF RumbleInv, FrameTimes
  <2>4. TimesOK'
    BY <1>1, <1>2, <1>3, <1>6, <1>7, <1>8, <2>1 DEF TimesOK, motor
  <2>5. HalfOpen' <=> Whole'
    BY <2>1 DEF HalfOpen
  <2>6. CASE ~Due(strength)
    <3>1. /\ UNCHANGED <<told, pads, spent>> /\ last_sent' = last_sent
          /\ last_send_t' = last_send_t /\ level' = l
      BY <1>6, <2>6, Zenon DEF Sends
    <3>2. strength = 0 <=> last_sent = 0
      BY <1>1, <1>8, <2>6 DEF Due, Changed
    <3>3. PadsOK'
      BY <1>3, <3>1 DEF RumbleInv, PadsOK, pads
    <3>4. Heard' /\ Unheard'
      BY <1>1, <1>3, <1>8, <2>1, <3>1, <3>2 DEF RumbleInv, Heard, Unheard, pads
    <3> QED BY ONLY <1>9, <1>10, <1>11, <2>2, <2>3, <2>4, <2>5, <3>1, <3>3, <3>4,
        RumbleInv, PadsSame DEF RumbleInv
  <2>7. CASE Due(strength) /\ seat = NoPad
    <3>1. UNCHANGED <<told, pads, spent>> /\ last_sent' = strength /\ last_send_t' = t
      BY <1>6, <2>7, Zenon DEF Sends
    <3>2. PadsOK'
      BY <1>3, <3>1 DEF RumbleInv, PadsOK, pads
    <3>3. Heard' /\ Unheard'
      BY <1>3, <2>7, <3>1 DEF RumbleInv, Heard, Unheard
    <3> QED BY ONLY <1>9, <1>10, <1>11, <2>2, <2>3, <2>4, <2>5, <3>1, <3>2, <3>3,
        RumbleInv, PadsSame DEF RumbleInv
  <2>8. CASE Due(strength) /\ seat # NoPad
    <3>1. last_sent' = strength /\ last_send_t' = t /\ level' = l
      BY <1>6, <2>8, Zenon
    <3>2. Send(seat, strength # 0)
      <4>1. ~OpenFallback(seat, strength # 0)
        BY <2>1 DEF OpenFallback
      <4> QED BY <1>6, <2>8, <4>1, Zenon DEF Sends
    <3>3. seat \in Handles
      BY <2>8 DEF RumbleInv, PadsOK
    <3>4. Sent(seat, strength # 0)
      BY <3>2, <3>3, SendSends
    <3>5. PadsOK'
      BY <1>3, <3>4 DEF RumbleInv, PadsOK, Sent
    <3>6. Heard' /\ Unheard'
      <4>1. /\ told' \in {"told", "refused"}
            /\ told' = "told" /\ strength # 0 => runUntil'[seat] = now + SendDuration
            /\ told' = "told" /\ strength = 0 => runUntil'[seat] = 0
        BY <3>4 DEF Sent
      <4> QED BY <1>1, <1>3, <1>7, <1>8, <2>8, <3>1, <4>1 DEF Heard, Unheard
    <3> QED BY <1>9, <1>10, <1>11, <2>2, <2>3, <2>4, <2>5, <3>4, <3>5, <3>6 DEF RumbleInv, Sent
  <2> QED BY <2>6, <2>7, <2>8
<1>13. CASE Due(strength) /\ seat # NoPad /\ OpenFallback(seat, strength # 0)
  <2>1. /\ step' = "open" /\ t' = t /\ quiet' = quiet /\ told' = "refused"
        /\ UNCHANGED <<hapticRefs, runUntil, spent>> /\ seat \in Adapters
        /\ fallbacks[seat] = "none" /\ fallbacks' = [fallbacks EXCEPT ![seat] = "dead"]
        /\ strength # 0
    BY <1>13, Zenon DEF OpenFallback, Told, Becomes
  <2>2. last_sent' = strength /\ last_send_t' = t /\ level' = l
    BY <1>6, <1>13, Zenon
  <2>3. SwitchesOK'
    BY <1>3, <2>1, Zenon DEF RumbleInv, SwitchesOK, motor
  <2>4. FrameTimes'
    BY <1>1, <1>3, <2>1 DEF RumbleInv, FrameTimes
  <2>5. TimesOK'
    BY <1>1, <1>2, <1>3, <1>7, <1>8, <2>1, <2>2 DEF TimesOK, motor
  <2>6. /\ fallbacks \in [Handles -> Entries] /\ seat \in Handles
        /\ fallbacks' \in [Handles -> Entries]
        /\ \A h \in Handles : fallbacks'[h] = fallbacks[h] \/ fallbacks[h] = "none"
    BY <2>1 DEF RumbleInv, PadsOK, Entries
  <2>7. PadsOK'
    BY <1>3, <2>1, <2>6 DEF RumbleInv, PadsOK
  <2>8. Balanced'
    <3>1. hapticRefs' = hapticRefs + (IF "dead" \in Owning THEN 1 ELSE 0)
                                   - (IF fallbacks[seat] \in Owning THEN 1 ELSE 0)
      BY <2>1 DEF RumbleInv, PadsOK, Owning
    <3> QED BY <2>1, <2>6, <3>1, OneEntry DEF RumbleInv, Entries
  <2>9. AdaptersQuiet'
    BY <2>1, <2>6 DEF RumbleInv, AdaptersQuiet
  <2>10. HalfOpen'
    BY <1>3, <1>7, <1>8, <1>9, <2>1, <2>2, <2>6 DEF HalfOpen, Whole, Half
  <2>11. Heard' /\ Unheard'
    BY <2>1 DEF Heard, Unheard
  <2> QED BY <1>10, <1>11, <2>3, <2>4, <2>5, <2>7, <2>8, <2>9, <2>10, <2>11 DEF RumbleInv
<1> QED BY <1>6, <1>12, <1>13 DEF Sends

-----------------------------------------------------------------------------
\* A call of the opening succeeds: the entry gets one thing more.
LEMMA GetsKeeps ==
    ASSUME RumbleInv, NEW got, got # "open", NEW what \in Entries, Opening(got), Gets(what),
           hapticRefs' = hapticRefs + (IF what \in Owning THEN 1 ELSE 0)
                                    - (IF got \in Owning THEN 1 ELSE 0)
    PROVE  RumbleInv'
<1> USE DEF RumbleInv, Opening, Gets, motor, model
<1>1. /\ step' = step /\ t' = t /\ quiet' = quiet /\ told' = told /\ runUntil' = runUntil
      /\ seat' = seat /\ spent' = spent /\ told = "refused" /\ seat \in Adapters
      /\ fallbacks' = [fallbacks EXCEPT ![seat] = what] /\ fallbacks[seat] = got
      /\ step = "open" /\ level' = level /\ last_sent' = last_sent
  BY DEF HalfOpen, Becomes, frame
<1>2. SwitchesOK' /\ Counted'
  BY <1>1, Zenon DEF SwitchesOK, Counted, OnTime, Larger
<1>3. /\ fallbacks \in [Handles -> Entries] /\ seat \in Handles
      /\ fallbacks' \in [Handles -> Entries] /\ fallbacks'[seat] = what
      /\ \A h \in Handles \ {seat} : fallbacks'[h] = fallbacks[h]
  BY <1>1 DEF PadsOK
<1>4. Balanced' /\ hapticRefs' \in Nat
  BY <1>1, <1>3, OneEntry
<1>5. TimesOK' /\ PadsOK'
  BY <1>1, <1>3, <1>4 DEF TimesOK, PadsOK
<1>6. FrameTimes' /\ Refreshed'
  BY <1>1 DEF FrameTimes, Refreshed
<1>7. Heard' /\ Unheard'
  BY <1>1 DEF Heard, Unheard
<1>8. AdaptersQuiet'
  BY <1>1, <1>3 DEF AdaptersQuiet
<1>9. HalfOpen'
  BY <1>1, <1>3 DEF HalfOpen, Whole
<1> QED BY <1>2, <1>4, <1>5, <1>6, <1>7, <1>8, <1>9

\* The opening is over: the pad runs, or its entry has nothing.
LEMMA OpenedKeeps ==
    ASSUME RumbleInv, NEW got, Opening(got), Sent(seat, TRUE), Whole', EndFrame
    PROVE  RumbleInv'
<1> USE DEF RumbleInv, Opening, EndFrame, motor, model
<1>1. /\ step = "open" /\ step' = "idle" /\ t' = 0 /\ quiet' = FALSE /\ now' = now
      /\ level > 0 /\ last_sent > 0 /\ seat \in Handles /\ seat' = seat
      /\ level' = level /\ last_sent' = last_sent /\ last_send_t' = last_send_t
  BY DEF HalfOpen
<1>2. SwitchesOK' /\ Counted'
  BY <1>1, Zenon DEF SwitchesOK, Counted, OnTime, Larger
<1>3. TimesOK' /\ PadsOK'
  BY <1>1 DEF TimesOK, PadsOK, Sent
<1>4. FrameTimes' /\ Refreshed'
  BY <1>1 DEF TimesOK, FrameTimes, Refreshed
<1>5. Balanced' /\ AdaptersQuiet' /\ HalfOpen'
  BY <1>1 DEF Sent, HalfOpen
<1>6. Heard' /\ Unheard'
  BY <1>1 DEF TimesOK, Heard, Unheard, Sent
<1> QED BY <1>2, <1>3, <1>4, <1>5, <1>6

LEMMA GiveUpKeeps ==
    ASSUME RumbleInv, NEW got, Opening(got), GiveUp(seat), EndFrame
    PROVE  RumbleInv'
<1>1. seat \in Handles
  BY DEF RumbleInv, HalfOpen, Opening
<1>2. Sent(seat, TRUE) /\ fallbacks'[seat] = "dead"
  BY <1>1, GiveUpSends
<1>3. Whole'
  BY <1>2 DEF RumbleInv, HalfOpen, Opening, Sent, Whole, Half
<1> QED BY <1>2, <1>3, OpenedKeeps

LEMMA OpenSubsystemKeeps == RumbleInv /\ OpenSubsystem => RumbleInv'
<1> SUFFICES ASSUME RumbleInv, OpenSubsystem PROVE RumbleInv'
  OBVIOUS
<1>1. CASE Gets("subsystem") /\ hapticRefs' = hapticRefs + 1
  BY <1>1, GetsKeeps DEF OpenSubsystem, Owning, Entries, RumbleInv, PadsOK
<1>2. CASE GiveUp(seat) /\ EndFrame
  BY <1>2, GiveUpKeeps DEF OpenSubsystem
<1> QED BY <1>1, <1>2 DEF OpenSubsystem

LEMMA OpenDeviceKeeps == RumbleInv /\ OpenDevice => RumbleInv'
<1> SUFFICES ASSUME RumbleInv, OpenDevice PROVE RumbleInv'
  OBVIOUS
<1>1. CASE Gets("device") /\ UNCHANGED hapticRefs
  BY <1>1, GetsKeeps DEF OpenDevice, Owning, Entries, RumbleInv, PadsOK
<1>2. CASE GiveUp(seat) /\ EndFrame
  BY <1>2, GiveUpKeeps DEF OpenDevice
<1> QED BY <1>1, <1>2 DEF OpenDevice

LEMMA NewEffectKeepsInv == RumbleInv /\ NewEffect => RumbleInv'
<1> SUFFICES ASSUME RumbleInv, NewEffect PROVE RumbleInv'
  OBVIOUS
<1>1. CASE Gets("open") /\ UNCHANGED hapticRefs
  BY <1>1, GetsKeeps DEF NewEffect, Owning, Entries, RumbleInv, PadsOK
<1>2. CASE GiveUp(seat) /\ EndFrame
  BY <1>2, GiveUpKeeps DEF NewEffect
<1> QED BY <1>1, <1>2 DEF NewEffect

LEMMA PlayOpenedKeeps == RumbleInv /\ PlayOpened => RumbleInv'
<1> SUFFICES ASSUME RumbleInv, PlayOpened PROVE RumbleInv'
  OBVIOUS
<1>1. Opening("open") /\ PlayFallback(seat, TRUE) /\ EndFrame
  BY DEF PlayOpened
<1>2. seat \in Handles /\ Whole
  BY <1>1 DEF RumbleInv, HalfOpen, Opening, Whole, Half
<1>3. Sent(seat, TRUE)
  BY <1>1, <1>2, PlaySends
<1> QED BY <1>1, <1>2, <1>3, OpenedKeeps DEF Sent

-----------------------------------------------------------------------------
LEMMA SeatKeeps == RumbleInv /\ Seat => RumbleInv'
<1> SUFFICES ASSUME RumbleInv, Seat PROVE RumbleInv'
  OBVIOUS
<1> USE DEF RumbleInv, Seat, motor, frame, model, Spend
<1>1. SwitchesOK' /\ Counted'
  BY Zenon DEF SwitchesOK, Counted, OnTime, Larger
<1>2. TimesOK' /\ PadsOK'
  BY DEF TimesOK, PadsOK, pads
<1>3. FrameTimes' /\ Refreshed'
  BY DEF FrameTimes, Refreshed
<1>4. Heard' /\ Unheard'
  BY DEF TimesOK, Heard, Unheard
<1>5. HalfOpen'
  BY DEF HalfOpen, Whole, pads
<1> QED BY ONLY <1>1, <1>2, <1>3, <1>4, <1>5, PadsSame, RumbleInv, Seat, Zenon DEF RumbleInv, Seat

LEMMA UnplugKeeps == ASSUME NEW h \in Handles PROVE RumbleInv /\ Unplug(h) => RumbleInv'
<1> SUFFICES ASSUME RumbleInv, Unplug(h) PROVE RumbleInv'
  OBVIOUS
<1> USE DEF RumbleInv, Unplug, motor, frame, model, player
<1>1. SwitchesOK' /\ Counted'
  BY Zenon DEF SwitchesOK, Counted, OnTime, Larger
<1>2. TimesOK' /\ PadsOK'
  BY DEF TimesOK, PadsOK
<1>3. FrameTimes' /\ Refreshed' /\ Unheard'
  BY DEF FrameTimes, Refreshed, Unheard
<1>4. Balanced' /\ AdaptersQuiet'
  BY DEF Balanced, Owns, AdaptersQuiet, PadsOK
<1>5. Heard'
  BY DEF TimesOK, PadsOK, Heard
<1>6. HalfOpen'
  BY OpeningSame
<1> QED BY <1>1, <1>2, <1>3, <1>4, <1>5, <1>6

LEMMA OnRemovedKeeps == ASSUME NEW h \in Handles PROVE RumbleInv /\ OnRemoved(h) => RumbleInv'
<1> SUFFICES ASSUME RumbleInv, OnRemoved(h) PROVE RumbleInv'
  OBVIOUS
<1> USE DEF RumbleInv, OnRemoved, Close, Becomes, motor, frame, model, player
<1>1. SwitchesOK' /\ Counted'
  BY Zenon DEF SwitchesOK, Counted, OnTime, Larger
<1>2. Balanced' /\ hapticRefs' \in Nat
  <2>1. hapticRefs' = hapticRefs + (IF "none" \in Owning THEN 1 ELSE 0)
                                 - (IF fallbacks[h] \in Owning THEN 1 ELSE 0)
    BY DEF PadsOK, Owns, Owning
  <2> QED BY <2>1, OneEntry DEF Entries
<1>3. TimesOK' /\ PadsOK'
  BY <1>2 DEF TimesOK, PadsOK, Entries
<1>4. FrameTimes' /\ Refreshed' /\ Unheard'
  BY DEF FrameTimes, Refreshed, Unheard
<1>5. AdaptersQuiet'
  BY DEF AdaptersQuiet, PadsOK
<1>6. Heard'
  BY DEF PadsOK, Heard
<1>7. HalfOpen'
  BY DEF HalfOpen, Whole, Half, PadsOK
<1> QED BY <1>1, <1>2, <1>3, <1>4, <1>5, <1>6, <1>7

LEMMA ShutdownKeeps == RumbleInv /\ Shutdown => RumbleInv'
<1> SUFFICES ASSUME RumbleInv, Shutdown PROVE RumbleInv'
  OBVIOUS
<1> USE DEF RumbleInv, Shutdown, motor, model, player
<1>1. SwitchesOK' /\ Counted'
  BY Zenon DEF SwitchesOK, Counted, OnTime, Larger
<1>2. {h \in Handles : Owns(h)'} = {}
  BY DEF Owns
<1>3. Balanced' /\ hapticRefs' \in Nat
  <2>1. hapticRefs = Cardinality({h \in Handles : Owns(h)}) /\ hapticRefs \in Nat
    BY DEF Balanced, PadsOK
  <2>2. hapticRefs' = 0
    BY <2>1
  <2>3. Cardinality({h \in Handles : Owns(h)'}) = 0
    BY ONLY <1>2, FS_EmptySet
  <2> QED BY ONLY <2>2, <2>3 DEF Balanced
<1>4. TimesOK' /\ PadsOK'
  BY <1>3 DEF TimesOK, PadsOK, Entries
<1>5. FrameTimes' /\ Refreshed' /\ Unheard'
  BY DEF FrameTimes, Refreshed, Unheard
<1>6. AdaptersQuiet'
  BY DEF AdaptersQuiet, PadsOK
<1>7. Heard'
  BY DEF TimesOK, PadsOK, Heard
<1>8. HalfOpen'
  BY DEF HalfOpen, Whole, Half
<1> QED BY <1>1, <1>3, <1>4, <1>5, <1>6, <1>7, <1>8

LEMMA NextKeeps == RumbleInv /\ [Next]_vars => RumbleInv'
<1> SUFFICES ASSUME RumbleInv, [Next]_vars PROVE RumbleInv'
  OBVIOUS
<1>1. CASE UNCHANGED vars
  <2> USE <1>1 DEF vars, motor, frame, model, player, pads, RumbleInv
  <2>1. SwitchesOK' /\ Counted'
    BY Zenon DEF SwitchesOK, Counted, OnTime, Larger
  <2>2. TimesOK' /\ PadsOK'
    BY DEF TimesOK, PadsOK
  <2>3. FrameTimes' /\ Refreshed' /\ Heard' /\ Unheard'
    BY DEF FrameTimes, Refreshed, Heard, Unheard
  <2>4. HalfOpen'
    BY OpeningSame
  <2> QED BY <2>1, <2>2, <2>3, <2>4, PadsSame
<1>2. ASSUME NEW h \in Handles, Unplug(h) \/ OnRemoved(h) PROVE RumbleInv'
  BY <1>2, UnplugKeeps, OnRemovedKeeps
<1> QED BY <1>1, <1>2, TickKeeps, MotorKeeps, BeginFrameKeeps, FirstFrameKeeps, FrameKeeps,
           OpenSubsystemKeeps, OpenDeviceKeeps, NewEffectKeepsInv, PlayOpenedKeeps,
           SeatKeeps, FocusKeeps, ShutdownKeeps DEF Next

LEMMA AlwaysInv == Spec => []RumbleInv
BY InitInv, NextKeeps, PTL DEF Spec

-----------------------------------------------------------------------------
\* The state keeps its type: no time lies ahead of the clock, no level above the largest.
THEOREM RumbleTypeCorrect == Spec => []RumbleTypeOK
<1>1. RumbleInv => RumbleTypeOK
  BY TypeParts DEF RumbleInv
<1> QED BY <1>1, AlwaysInv, PTL

\* What the frames counted is at most what the motor ran.
AtMost == last_on <= RanFor

LEMMA CountedAtMost == RumbleInv => AtMost
<1> SUFFICES ASSUME RumbleInv PROVE AtMost
  OBVIOUS
<1>1. /\ last_on <= OnTime(last_t) /\ last_t \in -1 .. now /\ now \in Nat
      /\ on_since \in 0 .. now /\ on_total \in Nat /\ last_on \in Nat
  BY DEF RumbleInv, Counted, TimesOK
<1>2. on = TRUE \/ on = FALSE
  BY Zenon DEF RumbleInv, SwitchesOK
<1> QED BY ONLY <1>1, <1>2 DEF AtMost, RanFor, OnTime, Larger

\* What was counted stays counted, from one frame to the next.
LEMMA CountGrows == RumbleInv /\ Next => last_on' >= last_on
<1> SUFFICES ASSUME RumbleInv, Next PROVE last_on' >= last_on
  OBVIOUS
<1>1. /\ last_on <= OnTime(last_t) /\ last_t \in Int /\ now \in Nat /\ t \in Int
      /\ on_since \in Int /\ on_total \in Nat /\ last_on \in Nat
  BY DEF RumbleInv, Counted, TimesOK
<1>2. CASE FirstFrame \/ Frame
  <2>1. last_on' = OnTime(t)
    BY <1>2 DEF FirstFrame, Frame
  <2>2. last_t <= t
    BY <1>2 DEF RumbleInv, FrameTimes, TimesOK, FirstFrame, Frame
  <2>3. OnTime(last_t) \in Nat /\ OnTime(t) \in Nat /\ OnTime(last_t) <= OnTime(t)
    BY ONLY RumbleInv, <1>1, <2>2, OnTimeGrows DEF RumbleInv, SwitchesOK
  <2> QED BY ONLY <1>1, <2>1, <2>3
<1>3. CASE ~(FirstFrame \/ Frame)
  <2>1. last_on' = last_on
    BY <1>3 DEF Next, Tick, Motor, BeginFrame, OpenSubsystem, OpenDevice, NewEffect, PlayOpened,
              Opening, Seat, Focus, Shutdown, Unplug, OnRemoved, model
  <2> QED BY ONLY <1>1, <2>1
<1> QED BY <1>2, <1>3

\* No pulse of the motor counts twice or below zero, whenever the game thread switches it.
THEOREM PulsesCountedOnce == Spec => CountedOnce
<1>1. RumbleInv /\ AtMost' /\ [Next]_vars => [last_on' >= last_on /\ last_on' <= RanFor']_vars
  BY CountGrows DEF AtMost
<1> QED BY <1>1, CountedAtMost, AlwaysInv, PTL DEF Spec, CountedOnce

\* A level held on a pad that took it never lapses, if the refresh, the gap between two frames
\* and a frame's own time together are shorter than SDL's duration.
THEOREM HeldLevelNeverLapses == Spec => []HeldLevelRuns
<1>1. RumbleInv => HeldLevelRuns
  <2> SUFFICES ASSUME RumbleInv, step # "over", told = "told", last_sent > 0, seat \in attached
               PROVE  Runs(seat)
    BY DEF HeldLevelRuns
  <2>1. last_send_t + SendDuration <= runUntil[seat] /\ last_t - last_send_t <= Refresh
    BY DEF RumbleInv, Heard, Refreshed
  <2>2. now - last_t <= FrameGap + FrameDelay
    BY DEF RumbleInv, FrameTimes, Refreshed, TimesOK
  <2>3. runUntil[seat] \in Nat /\ now \in Nat /\ last_t \in Int /\ last_send_t \in Int
    BY DEF RumbleInv, TimesOK, PadsOK
  <2> QED BY <2>1, <2>2, <2>3 DEF Runs
<1> QED BY <1>1, AlwaysInv, PTL

\* A pad that takes what it is told stands still with the model's motor, and when muted.
THEOREM SilenceAlwaysReaches == Spec => []SilenceReachesPads
<1>1. RumbleInv => SilenceReachesPads
  <2> SUFFICES ASSUME RumbleInv, told = "told", level = 0 \/ last_sent = 0 PROVE ~Runs(seat)
    BY DEF SilenceReachesPads
  <2>1. runUntil[seat] <= now /\ seat \in Handles
    BY DEF RumbleInv, Heard, PadsOK
  <2>2. runUntil[seat] \in Nat /\ now \in Nat
    BY <2>1 DEF RumbleInv, TimesOK, PadsOK
  <2> QED BY <2>1, <2>2 DEF Runs
<1> QED BY <1>1, AlwaysInv, PTL

\* A pad that gets the port while a level is held hears of it within a refresh and two frames.
THEOREM NewcomersAreTold == Spec => []NewcomerIsTold
<1>1. RumbleInv => NewcomerIsTold
  <2> SUFFICES ASSUME RumbleInv, step # "over", seat # NoPad, last_sent > 0, told = "nothing"
               PROVE  ~(now - seatedAt > Refresh + FrameGap + FrameDelay)
    BY DEF NewcomerIsTold
  <2>1. last_send_t <= seatedAt /\ last_t - last_send_t <= Refresh
    BY DEF RumbleInv, Unheard, Refreshed
  <2>2. now - last_t <= FrameGap + FrameDelay
    BY DEF RumbleInv, FrameTimes, Refreshed, TimesOK
  <2>3. seatedAt \in Int /\ now \in Nat /\ last_t \in Int /\ last_send_t \in Int
    BY DEF RumbleInv, TimesOK, PadsOK
  <2> QED BY <2>1, <2>2, <2>3
<1> QED BY <1>1, AlwaysInv, PTL

\* Every open effect holds the haptic subsystem once and nothing else does when a send is over,
\* whichever of its SDL calls failed, and whatever was removed.
THEOREM SubsystemStaysBalanced == Spec => []SubsystemBalanced
<1>1. RumbleInv => SubsystemBalanced
  <2> SUFFICES ASSUME RumbleInv, step # "open"
               PROVE  hapticRefs = Cardinality({h \in Handles : fallbacks[h] = "open"})
    BY DEF SubsystemBalanced
  <2>1. {h \in Handles : fallbacks[h] = "open"} = {h \in Handles : Owns(h)}
    BY DEF RumbleInv, HalfOpen, Whole, Half, Owns
  <2> QED BY <2>1 DEF RumbleInv, Balanced
<1> QED BY <1>1, AlwaysInv, PTL

=============================================================================
