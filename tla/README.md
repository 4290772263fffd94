# A TLA+ model of BeetleRecomp

BeetleRecomp runs a statically recompiled N64 racing game on a PC. The recompiled code itself is
generated; what people wrote, and what can go wrong, is the runtime around it: the emulated serial
bus, the Controller Pak files, who plays on which port, rumble, the prompts of the menus, and the
timer that keeps the game's audio thread alive. This directory models that runtime. Paths in this file are relative to the
repository (`lib/`, and `src/` for the port's own sources).

## The system

There are two builds. The *frontend* build (`BEETLE_ENABLE_FRONTEND`) has menus and leaves the pads
to recompinput (`lib/RecompFrontend/recompinput`); the *headless* build opens pads itself in
`bar::input`. Four kinds of thread meet in either: the **main thread** (SDL events, `update_gfx`
once a frame), the **game threads** (N64 threads sharing one run token), the **renderer's thread**, which
draws the menus and runs their callbacks (the UI thread below), and the **preemption timer**.

| part | state | operations | talks to |
|---|---|---|---|
| Controller Pak store, `main/bar_input.cpp` | per port: image, loaded/valid/dirty flags; one mutex; a save file and a temporary file | read, write, load on first use, flush once a frame | serial bus (calls), main thread (flush), file system |
| Serial bus, `main/os_unimpl_stubs.cpp` | PIF RAM, identify registers, SI queue | write DMA, read DMA, `bar_handle_pak` | pak store, motor model, settings (looked at several times a transaction), game (event) |
| Player assignment, `frontend/bar_frontend.cpp`, `frontend/controller_assignment.hpp` | statics of `refresh_players`: preferred slots, published slots, keys, known pads; `player_layout.json` | refresh once a frame, Auto-configure, relaunch | `PlayerState` shared without a lock with the dialog |
| "Assign players" dialog, `recompinput/src/players.cpp` | temporary seats, join order | join, remove, undo, swap, start over, cancel, confirm | writes `PlayerState` on the UI thread |
| Cooperative preemption, `main/bar_preempt.cpp` | one atomic flag, the timer's run flag | raise, poll, exchange, start, stop | run token, interrupt masks and naps of ultramodern |
| Headless pads, `main/bar_input.cpp` | open pads, published port words, rumble wishes | added, removed, resolve, sample, flush rumble | SDL, settings, game (reads the words) |
| Motor model, `main/bar_rumble.cpp` | per port: on flag, on-time, level, what was sent and when | `motor`, `step` | serial bus (calls), frame pump (sends the level) |
| recompinput rumble, `recompinput/src/rumble.cpp` | fallback effects by pad, the haptic subsystem's count | send, close, release all | SDL, frame pump, hotplug |
| Prompt of the menus, `recompui/src/composites/ui_prompt.cpp` | one prompt: its two actions, its elements, whether it is shown | open, supersede, answer, close | pages and buttons (renderer's thread), SDL events (main thread), `ui_state` |
| Audio output, `main/main.cpp` | SDL device, rate, queue | queue, frames remaining, set frequency | game's audio thread |
| HUD anchor and frame limiter, `main/os_unimpl_stubs.cpp` | statics derived from the game's memory | one step per SI transfer | serial bus |
| Input binding, profiles, settings files | maps, a scan in progress, JSON files | scan, bind, save | UI thread, main thread |
| Watchdog, cheats, overlays, inspector, renderer context | see PROJECT.json | | |

What makes it hard is listed line by line under `hazards` in PROJECT.json. In short:

- **two threads, one value**: the game writes a pak while the frame loop saves it; the settings
  change between two looks of one transaction; the UI thread commits seats while the main thread
  is inside a refresh; the game switches a motor inside the frame that measures it; the timer raises
  its flag anywhere.
- **three locks, two threads**: a prompt is opened under its own mutex, the menus' and its elements'.
- **stale identity**: seats hold handles of pads that left; `last_on` belongs to an index that moves; a
  level is noted as sent to a port without a pad; a button's answer belongs to a prompt since replaced.
- **partial failure**: any file operation may fail or be the last one of the process.
- **order**: frames of two layouts that look alike; joins, swaps and undos; hotplug during a dialog; a prompt
  over a prompt.
- **progress**: every DMA must post an event; failed saves must be retried; compute must not starve audio.

## Modules

| module | models | how it corresponds to the code |
|---|---|---|
| `PakStore` | what a pak promises | no files, threads or locks: what the game sees, what survives |
| `ControllerPak` | the store | one variable per static; one action per file operation, so a fault or a kill can fall between any two; `lock`, `stage`, `next` and `saving` are the two threads' program counters |
| `AssignSession` | one dialog session | one action per `AssignState` method; `joined` is a history variable |
| `ControllerAssignment` | `controller_assignment.hpp` | pure operators: `Automatic`, `ResolveLegacy`, `Reconcile` |
| `PlayerAssignment` | `refresh_players`, the commit, the layout file, pads and relaunch | extends both modules above; a refresh is four steps, a commit three and "Add keyboard" two, so the two threads interleave; `modal` is the dialog, which the event after a Stop closes, and `drawn` whether Start over and Confirm were last drawn enabled, all they look at; `Overlap` and `SessionHotplug` say which interleavings a run admits |
| `Accessories` | what the bus promises | a transaction is carried out whole where it was addressed, or refused, or lost; a port is found plugged in, the transaction is admitted and the accessory is looked up in turn, so a pad taken away in between may answer "there, without a pak" |
| `JoyBus` | the bus | frames are sequences of bytes, because the recognisers work on them; every look at a port's connection or accessory is a step of its own, four ports of a poll included; `SeenOf` says how much of the port being served those looks have told, as `Accessories` puts it |
| `Preemption` | the timer and the poll | each atomic load and the exchange of `bar_consume_yield` is a step; the scheduler, the masks and the game's edits are external, from how the code uses them |
| `Prompts` | the prompt and its callers | one action per stretch between two acquisitions or releases of a lock; `pc` and `stage` are the two threads' program counters, `page` whether the config modal is closed, in front or behind the prompt, `asked` and `ran` the history of prompts and of the actions that ran |
| `PadRumble` | one port from `motor()` to SDL | the clock ticks within a frame and between two; taking the time and reading the motor are two steps, so the game's switch falls between; the opening of a force-feedback device is a step for every SDL call; strengths are classes, the low-pass any level between the last and the duty |
| `HeadlessPads` | pads of the headless build | one action per handler; publishing is one step a port, since the game may read between |

`ControllerPakProofs`, `PlayerAssignmentProofs`, `PreemptionProofs`, `JoyBusProofs`, `HeadlessPadsProofs`,
`PromptsProofs` and `PadRumbleProofs` hold the theorems, `ClaimLemmas` what the two modules with claims
share, and the `MC...` modules with their `.cfg` files the instances.

## What must be right, and what the runs show

Each passing property is broken by a plausible bug kept beside the definition it alters
("Mutant of"). The type invariants of the pak store, the dialog, the preemption timer, the prompts and rumble are proved
(below) and not in a run; nor is the proofs' `LockProtocol`,
which says how the threads, the mutex and a save of the pak store fit together.

### Controller Pak store
`pak` (two ports, one failing operation, one kill or quit): `CleanMeansSaved`, a clean pak is on disk
exactly as in memory, however many saves failed; `SavesAreWhole`, a save file only changes to the
complete image of that moment; `UnreadablePreserved`, a file that could not be read is never replaced;
`ImplementsStore`, all of it
implements `PakStore`; `DirtyIsSaved` and `Answered`, dirty paks reach the disk and the game
always gets an answer.
*Fairness*: the main loop comes round and the game thread goes on; the mutex is not fair, so taking
it needs strong fairness on both sides, and so does a save, which the bounded number of faults cannot
defeat for ever. Leftover temporary files from an earlier process are excluded from the initial states of
this one run to keep the liveness check small: a kill or a failed save makes one in the run itself.

`pak_quit` (**finding**): a write accepted after the last frame's flush is lost by an ordinary quit.

### Players
`players_hotplug` (three plugs of two pads, a dialog, Auto-configure, a relaunch, five imported layouts
with the keyboard on every port among them): a pad is on one port; reserved pads have their ports;
`JoinersSound`, a player who joins in the dialog shares neither pad nor keyboard with anybody, whatever seats
it opened on; a confirmed change outlives hotplug; no
pad waits while a port may take it; a saved layout comes back after a relaunch; and `SurvivorsStay`, no
refresh moves a pad that stays. The one exception is the code's: a port named in `input.json` that loses
its pad takes another pad it is named for, and that pad's port may take a third in its turn, always
from a loss upwards.
`players_overlap` (one pad that comes and goes, during the dialog too; dialog callbacks on buttons drawn
earlier, the two steps of "Add keyboard", the commit, and Auto-configure or a profile change between the steps of a refresh): Undo
follows the players through swaps and removals, and `Settles`: if from some time on no session or dialog is open,
everything is taken in again and again. *Fairness*: the frame loop
is a loop and a commit straight-line code, so weak fairness is what the code gives.

`players_replug` (**finding**): a pad replugged during the dialog joins under its new handle as
well; the commit seats it on two ports and the refresh keeps both.

### Serial bus
`joybus` (all operations on the first and last port in both layouts, the connection and the accessory of the
last port changed between any two looks the bus takes at them, corrupt DMA addresses): `ImplementsAccessories`, `NoPlaceholders` (the game never reads
back the 0xFF it packed) and `ReceiveNeverBlocks`.

### Preemption
`preemption` (the App thread, the audio manager, the scheduler, an RSP task, the timer): a masked
edit is never interrupted, a nap takes a tick, a ready high-priority thread is not starved while the
timer runs, and the join in `bar_stop_preempt_timer` returns. *Fairness*: host threads and the
timer run, a thread past a prologue goes on, naps end, the scheduler picks the highest ready thread, and
masked sections end. Whether the game computes for ever is left open, which is the point.

### Headless pads
`headless` (three pads, two of them clones with one serial number, five layouts, pads announced twice, a
failed open, a table of two pads): uids are unique, a pad drives one port, an exact uid wins over
the GUID fallback, no pad is idle that a port could take, and an unplugged pad lets go of its buttons.
*Fairness*: the frame loop runs.
`headless_rumble` (**finding**): `last_on` is kept by index; when an earlier pad is unplugged the
stop of a later one is never sent.

### Rumble
`rumble` (a gamepad and an N64 adapter, one port; the motor is switched between the time a frame takes
and the time it reads, pads change seats, are unplugged or fail, the window loses focus): `CountedOnce`,
every pulse counts once and no duty is negative; `HeldLevelRuns`, the 100 ms refresh
beats SDL's 250 ms; `SilenceReachesPads`, a level that fades to nothing is sent however small the
change; `NewcomerIsTold`, a pad that gets the port while a level is held hears of it with the next
refresh, though the level was noted as sent to nobody; `SubsystemBalanced`,
when a send is over SDL's haptic subsystem is held once for every open effect and for nothing else, whichever
of the calls of the opening or the playing failed (each is a step) and whatever was unplugged.
What a frame may take is an assumption, not a result: `Refresh + FrameGap + FrameDelay < SendDuration`
says how slow a frame loop may be before a held level lapses, which is 150 ms a frame.

### Prompts
`prompts` (the page in front of or behind the prompt, changes of tabs, closing with unapplied changes, buttons,
a closed window and dropped files on two threads): `AnsweredOnce`, of the
actions a prompt was opened with at most one runs, whoever answers, supersedes or closes it;
`ShownOnce`, the assertions of `show_context` and `hide_context` hold; `ShownAreLive`, the buttons do
what the prompt on the screen says; `NoQuestionLost`, a late answer does not take down the prompt that
replaced the one it was meant for, though dropped files put a notice in the place of a question;
`ClosingAsksOrHangs`, closing the window shows its prompt, perhaps behind a page that Escape brings in front of it, unless the
threads are in the one circle of locks that `Hung` describes. *Fairness*: frames are drawn one after the
other (weak); the main thread's next step needs locks the renderer's thread frees every frame, so it
has strong fairness, which is what a mutex on a desktop system gives.

`prompts_close` (**finding**): that circle exists. The main thread holds `prompt_state.mutex` and
waits for `ui_state_mutex`; the renderer's thread holds `ui_state_mutex` for a frame and, in it, a
pressed button or a page waits for `prompt_state.mutex`. A superseded Discard that closes the page
(`ui_config.cpp:84-88`) waits for `ui_state_mutex` in the same way, with the prompt's mutex held.

### Bounds
Ports: two tell "this one" from "another"; Undo through a third port is left to the proof
of `UndoFollowsPlayer`, which holds for any number; the bus uses 0 and 3 because
frames differ by leading skip bytes. One block: nothing in the store relates two blocks of a pak,
and a half-written image is a value of its own. Two pads and three plugs give a replug beside a pad that
stays. One fault and one kill or quit: every property is about a single interrupted save, and its retry.
Two claims in `kMaxClaims` reach the end of the table of 16 with three pads. An SI queue of two
fills up. Three prompts: one on the screen, one to supersede it from the other thread, one answered or
closed late. In `players_overlap` one pad plugged once is enough, since nothing it checks
compares two pads or the handles of one. Rumble counts ticks of 50 ms: a refresh after 2, SDL's stop after 5, a frame at most 1 after the
last and 1 long, and six ticks hold a level through a refresh and past SDL's limit; levels 0 to 2 with a
step of 2 have a change too small to send. `MaxSessions`, `MaxRequests`, `MaxProfiles`, `MaxLaunches`, `MaxPlugs`, `MaxFailures`,
`MaxFaults`, `MaxEnds`, `MaxPrompts`, `MaxTime`, `MaxSwitches`, `MaxSeats` and `MaxFocus` are all the bounds there are; the theorems hold for every value of them.

## What is proved

| module | theorems | inductive invariant |
|---|---|---|
| `ControllerPakProofs` | `TypeCorrect`, `ProtocolHolds`, `CleanPaksAreSaved`, `WholeSaves`, `UnreadableStays`, `Refinement` | `IInv` = types, `LockProtocol`, `CleanMeansSaved` and `ValidMeansReadable`: the file of a valid pak is never an unreadable one |
| `PlayerAssignmentProofs` | of the dialog alone: `SessionTypeCorrect`, `JoinersStaySound`, `UndoFollowsPlayer`; of the whole: `PlayersTypeCorrect`, `UndoFollowsInGame`, `PadsOnOnePort`, `SavedLayoutReturns`, `ReservedPadsReturn`, `NoPadLeftOver`, `ConfirmedSeatsStay`, `HotplugMovesNobody`, `JoinersSoundInGame` | see below |
| `PreemptionProofs` | `PreemptionTypeCorrect`, `EditsStayWhole`, `NapsTakeTicks` | `PreemptInv`: who polls holds the token, who edits is masked, a raised flag is a fresh tick |
| `JoyBusProofs` | `ReceiveReturns`, `BusTypeCorrect`, `FramesAreAnswered`, `BusRefines` | `Waiting`: after each DMA the queue holds a message for the game; `BusInv`: PIF RAM holds the frame of the transaction in one of its layouts (`Framed`), nothing is answered before the read (`Fresh`), a poll has answered the ports before the one it serves (`Behind`), and `bar_handle_pak` has the addressed port and the offset of its command (`RightPort`) |
| `HeadlessPadsProofs` | `PadsTypeCorrect`, `UidsStayUnique`, `PadsPublishedOnce`, `PickedPadsWin`, `PadsStayUsed` | `PadsInv`: types, one entry and one uid an open pad (a free ordinal exists by the pigeonhole principle and the least one by well-foundedness), and `Sampled`: while the ports are being published, the words written so far are what `resolve_pads` makes of the pads that are open |
| `ClaimLemmas` | (lemmas only) | the n-th element of a finite set; that a recursive function of claims over ports exists and is unique |
| `PromptsProofs` | `PromptsTypeCorrect`, `PromptsAnsweredOnce`, `PromptsShownOnce`, `ShownStayLive`, `QuestionsAreKept` | `PromptsInv`: a thread opens or answers only inside the lock or the frame it needs (`InFrame`, `AnswersWait`, with the page that a superseded Discard closes and the files that may be dropped on it), an opener's prompt is new (`OpensNew`), and an action is held in one place, unrun (`OnlyOnce`); `PromptsLive`: a prompt on the screen is unanswered and has its own actions, and an answer taken out is that of the prompt on the screen |
| `PadRumbleProofs` | `RumbleTypeCorrect`, `PulsesCountedOnce`, `HeldLevelNeverLapses`, `SilenceAlwaysReaches`, `NewcomersAreTold`, `SubsystemStaysBalanced` | `RumbleInv`: frames are no later than the gap allows (`FrameTimes`), the count is the on-time of the last frame (`Counted`), a level held was sent within a refresh (`Refreshed`), what the pad was told is what it does (`Heard`, `Unheard`), the subsystem is held once by every entry that owns it (`Balanced`), and only the port's adapter is ever half open (`HalfOpen`) |

They hold for any number of ports, blocks, pads, threads and priorities, under the named `ASSUME` of each
module. `CleanMeansSaved` is not inductive alone: that a file about to be renamed holds what memory
holds is in `LockProtocol`, and that only valid, loaded pads are saved in both. `WholeSaves`,
`UnreadableStays` and `Refinement` follow step by step from `IInv`; the refinement maps a save's
rename to `PakStore`'s save, a kill to its restart, a load to a stutter. `BusRefines` maps `Accessories`'
`seen` to `SeenOf`, so each look at a port is a step of both; it rests on lemmas about
the bytes of a frame: where a command lies in each layout (`PlainFrame`, `DummyFrame`), that no recogniser takes
one layout for another (`Recognised`), and that `bar_handle_pak` decodes what was packed (`Decoded`).

`PlayerAssignmentProofs` goes by layers, each an invariant that uses those before it:

- `TypeInv`: the types, `JoinOrderFollows`, and that every scan is of distinct pads. No hypothesis: Undo
  and the types survive every interleaving.
- `SeatInv`: no two seats hold one pad, in the dialog, in the plan and in the game, and the seats of the last
  refresh hold pads of its scan. It needs `~SessionHotplug`: without it the property is false
  (`players_replug`).
- `LayoutInv`: until the first refresh publishes, the plan and the seats are those of the saved layout.
- `FrameInv`, `FitInv`: with `~Overlap`, no dialog is open while a refresh is under way, and what it
  publishes gives every port the pad its slot is for and leaves no pad over (`Served`).
- `ConfirmInv`: a confirmed seating is either not yet adopted and still what the seats show (`Pending`), or
  every port is reserved for it (`Taken`).
- `ClaimInv`: handles only grow (`Newer`), and every named port has the pad of its claim (`Claimed`). The claims
  are a recursive function over ports; that a loss at one port leaves the claims below it alone is
  proved by well-founded induction on the least port that differs.
- `JoinersSound` is inductive with `JoinOrderFollows` in the dialog alone. In the game it needs `~Overlap`:
  with the two steps of "Add keyboard" apart it is false (see below).

`~SessionHotplug` and `~Overlap` are the values of the run `players_hotplug`, so each theorem says for all pads, ports and
imports what that run says for two ports. `LayoutRestored` and `OnePadOnePort` are proved with
`Overlap` as well, which no run checks, and `JoinersSoundInGame` with `SessionHotplug`.

Only model-checked: every liveness property, since fairness and ENABLED are beyond the prover
(`DirtyIsSaved`, `Answered`, `Settles`, `AudioNotStarved`, `StopReturns`, `Released`,
`ClosingAsksOrHangs`). Recursive functions are reasoned about by the
least port at which something fails, so what `Automatic` and the claims compute is known as far as the
properties need, not as a closed form.
`CountedOnce` needs `OnTime`'s lower bound: the game may start a motor after the frame took its time.

## Where the code and its words differ

The four findings above are in PROJECT.json. Met while reading, and not runs of their own:

- A dialog opened between a refresh's `is_active` check (`bar_frontend.cpp:645`) and
  `auto_assign_players` makes the backend refuse the plan, which lines 760-764 then cache, though line 643
  says "Never cache an assignment that the backend would refuse"; a later change of pads repairs it.
- "Only one keyboard player can be assigned (see process_sdl_event), so the overlap that clearing guards
  against cannot happen" (`players.cpp:336`) holds neither of what the dialog opens on nor of what it adds.
  `input.json` may name the keyboard for several ports (`docs/KNOWN_ISSUES.md:311` seeds all four), the dialog
  opens on those seats, and a commit gives each of them the single-player keyboard profile; that is why
  `JoinersSound` speaks of the players who join. And the key on the main thread and the button on the UI
  thread may both pass the check of `players.cpp:358` before either has added its player: with
  `Overlap = TRUE` TLC breaks `JoinersSound` that way, so it is checked and proved without.
- An accessory set to None while its motor runs never hears the stop: the bus refuses it
  (`os_unimpl_stubs.cpp:559`), while `main.cpp:765` says every motor write feeds the model.
- A refresh that has something to plan, because a pad came or went during the dialog or a pad's profile changed in the
  frame before it, may fall between the steps of a commit (`players.cpp:324` to 328), when `is_active` no
  longer holds it back. Its plan of the old seats then overwrites the confirmed ones, or it caches them as
  published and never learns of them. With `Overlap = TRUE` TLC breaks `ChangedSeatsStay`
  and `ReservedPadsSeated` that way, so both are checked without.
- In the same window, one refresh between the copy of the seats and the rebuilding of the profiles
  (`players.cpp:326` and 328) reads the new seats with the old keyboard profile (`has_keyboard`,
  `bar_frontend.cpp:651`): after "pad = player 1, keyboard = player 2" it adopts, saves and seats a pad
  player with the keyboard beside the keyboard player, though `players.cpp:339` says "pad players do not share it".
  The next dialog opens on these seats.
- Escape and Confirm end the session, and the next event closes the dialog (`players.cpp:467`). A "Start over"
  that runs in between asks nothing (`players.cpp:193`) and begins the session again: when the dialog
  closes, a session is open without it, and no refresh seats anybody until the next dialog ends. That is
  why the premise of `Settles` names the session and the dialog.
- Dropping files over unapplied changes discards them: the prompt that asks is superseded by the notice of
  the installation (`ui_state.cpp:1048`). A click on a prompt superseded since the last frame
  lands on the buttons of the new one. A page opened by Escape (`ui_state.cpp:837`) comes in front of a prompt, which waits behind it.
- `activate_mouse` (`ui_state.cpp:653`) touches `ui_state` without its lock. `Modal` looks whether its context is
  shown and then shows or hides it under a second acquisition (`ui_modal.cpp:117`, 135), so two threads may do it twice.
- `commit_player_assignment` writes `PlayerState` on the UI thread with no lock, while
  `refresh_players` reads it on the main thread; `players_overlap` checks the interleaving of
  whole steps, but a data race of the pointers inside a step is not modelled.
- `start_scanning` stores the six fields of a scan on the UI thread with no lock (`input_binding.cpp:30`,
  called at `ui_config_page_controls.cpp:846`), while the main thread's events read them and
  `stop_scanning` resets them. An Escape between two of the stores leaves `device` set with `active` clear:
  a stick, whose case tests only the device (`input_events.cpp:166`), is then still bound after the cancel.
- Confirming the dialog without changing a seat reserves nothing, since the refresh learns of a dialog
  only by comparing seats.
- Imported ports with a GUID and no uid may trade identical pads when one leaves (the exception of
  `SurvivorsStay`).
- The comment at the SI handler of `os_unimpl_stubs.cpp` speaks of port 0 alone; the code serves four.
- The auto pad of the headless build is folded into every keyboard port, not just port 0 (`bar_input.cpp:363`).
- `__osMaxControllers` is set by the emulated bus, not by the game's own init; `JoyBus` has it as a variable.

## What is not modelled

- Of the bus: the block CRC, which buttons are held, `BAR_NO_RUMBLE_PAK`.
  Blocks are one byte, since the game fills the blocks that are told apart with one value.
- Of the paks: power loss after a rename (nothing syncs), and the layout inside the image.
- Of the dialog: the cards' timers, icons and focus. `auto_assign_controllers` has no caller.
- Of the prompts: how the context of a button's callback is locked while the action works on another
  (either outcome is allowed), the installation itself, and the order in which contexts are destroyed at
  exit (`ui_context.cpp:333` and 365 mark it as unsolved).
- Of rumble: the raw path (`BAR_RUMBLE_RAW=1`), the trace, and ports beside the one modelled: each
  has its own statics. Time is exact; a duty is none, some or all of a frame.
- Audio output: sample arithmetic and one handle, all on the game's audio thread. HUD anchor and
  attract limiter: they promise something about addresses of a game that is not in the repository.
  Input binding and profiles: what the maps hold is data; of a scan, one unlocked struct that the UI thread
  fills and the main thread reads and resets, only the races above could be stated, and
  nothing in the code says what it promises then.
  Each of their hazards is in PROJECT.json with this reason.
- A `player_layout.json` torn by a crash: it is ignored at the next start, as a missing one is.
- Of the headless pads: `sample_pad`'s arithmetic (a published word stands for its pad), the keyboard,
  `enumerate_devices`, and a deleted "Default Gamepad" profile. SDL ends a rumble by itself after a
  while; the model's motor runs until told, which is what the code asks of SDL.
- librecomp, ultramodern, RT64 and SDL are not in the repository: what is used of them is marked
  external in PROJECT.json's `map`.
- The rest of the menus, rendering, overlays, patches and diagnostics: see the notes under `components`.

## Plan

Done, most important first:

1. `PakStore`, `ControllerPak` and their proofs.
2. `AssignSession`, `ControllerAssignment`, `PlayerAssignment`; proofs of the session.
3. `Preemption` and proofs.
4. `Accessories`, `JoyBus`; proofs of `ReceiveReturns` and of the refinement.
5. `HeadlessPads` and proofs of its safety.
6. `PadRumble` and proofs.
7. `Prompts` and proofs of its safety.
8. Proofs of the safety of `PlayerAssignment`.

Left:

9. Compositions: `JoyBus` over `ControllerPak` (a save block through the bus), `JoyBus` with
   `PadRumble` and `PlayerAssignment` (which pad a port's stop reaches).
10. Proofs with `Overlap`: which of `PadsSeated` and `SurvivorsStay` still hold when callbacks fall inside
    a refresh.
