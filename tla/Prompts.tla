------------------------------ MODULE Prompts ------------------------------
(***************************************************************************)
(* The one prompt of the menus, recompui/src/composites/ui_prompt.cpp, and *)
(* its callers: the page asks to apply or to quit, the window is closed,   *)
(* files are dropped to install mods.  The main thread (SDL's events) and  *)
(* the renderer's thread (draw_hook: the buttons) both open it, under      *)
(* prompt_state.mutex, ui_state_mutex and the context lock of its elements.*)
(***************************************************************************)
EXTENDS Naturals, Sequences

CONSTANT MaxPrompts  \* bound: prompts opened

ASSUME PromptsAssumption == MaxPrompts \in Nat

Threads == {"main", "ui"}
Nobody  == "nobody"
None    == 0         \* no prompt
Choices == {"confirm", "cancel"}
Kinds   == {"quit", "apply", "leave", "overwrite", "info", "notice"}

VARIABLES
    asked,       \* the kind of every prompt opened so far
    ran,         \* of every prompt: the actions of it that ran
    started,     \* ultramodern::is_game_started
    quit,        \* ultramodern::quit was called
    dirty,       \* the page has unapplied changes
    page,        \* the config modal: closed, in front, or behind the prompt
    mutex,       \* who holds prompt_state.mutex
    drawing,     \* draw_hook holds ui_state_mutex
    pressing,    \* the pressed button's ProcessEvent holds the prompt's context
    shown,       \* the prompt's context is in shown_contexts
    content,     \* the prompt the header, text and buttons are those of
    actions,     \* confirm_action and cancel_action: the prompt each belongs to
    moved,       \* by thread: the action it has moved out of prompt_state
    asking,      \* by thread: the prompt it opens or answers
    pc,          \* by thread: where it is in ui_prompt.cpp
    stage        \* by thread: where it is in drop_files

locks  == <<mutex, drawing, pressing>>
prompt == <<shown, content, actions, page>>
user   == <<started, quit, dirty>>
vars   == <<asked, ran, user, locks, prompt, moved, asking, pc, stage>>

Ids == 1 .. Len(asked)

\* What the prompts of a kind have an action for: an empty std::function is not called.
Acts(kind) == IF kind \in {"quit", "apply", "leave", "overwrite"} THEN Choices ELSE {}

\* The buttons a prompt shows.
Buttons(kind) == CASE kind = "info" -> {"cancel"}
                   [] kind = "notice" -> {}
                   [] OTHER -> Choices

ActionOf(p, choice) == IF choice \in Acts(asked[p]) THEN p ELSE None

\* Apply and Discard close the modal too when it was closing that asked (ModalClose).
Leaves(p) == p # None /\ asked[p] = "leave"

\* Documents are shown in front of the others.
Covered   == IF page = "front" THEN "behind" ELSE page
Uncovered == IF page = "behind" THEN "front" ELSE page

Init ==
    /\ asked = <<>> /\ ran = <<>>
    /\ started = FALSE /\ quit = FALSE /\ dirty = FALSE /\ page = "closed"
    /\ mutex = Nobody /\ drawing = FALSE /\ pressing = FALSE
    /\ shown = FALSE /\ content = None
    /\ actions = [c \in Choices |-> None]
    /\ moved = [t \in Threads |-> None] /\ asking = [t \in Threads |-> None]
    /\ pc = [t \in Threads |-> "out"] /\ stage = [t \in Threads |-> "none"]

Idle(t) == pc[t] = "out" /\ stage[t] = "none"
\* ui_state_mutex is recursive: the renderer's thread has it while it draws.
UiFree(t) == t = "ui" \/ ~drawing
ContextFree(t) == t = "ui" \/ ~pressing
Goto(t, place) == pc' = [pc EXCEPT ![t] = place]

\* std::function::operator() of action p of prompt_state, if it is not empty.
Run(p, choice) ==
    IF p = None THEN UNCHANGED <<ran, user>>
    ELSE /\ ran' = [ran EXCEPT ![p] = Append(@, choice)]
         /\ quit' = (quit \/ (asked[p] = "quit" /\ choice = "confirm"))
         /\ dirty' = (dirty /\ asked[p] \notin {"apply", "leave"})
         /\ UNCHANGED started

-----------------------------------------------------------------------------
\* open_choice_prompt, open_info_prompt and open_notification.

Ask(t, kind) ==
    /\ Len(asked) < MaxPrompts
    /\ asked' = Append(asked, kind) /\ ran' = Append(ran, <<>>)
    /\ asking' = [asking EXCEPT ![t] = Len(asked) + 1]
    /\ Goto(t, "lock")
    /\ UNCHANGED <<user, locks, shown, content, actions, moved>>

Lock(t) ==
    /\ pc[t] = "lock" /\ mutex = Nobody
    /\ mutex' = t
    /\ moved' = [moved EXCEPT ![t] = actions["cancel"]]
    /\ actions' = [actions EXCEPT !["cancel"] = None]
    /\ Goto(t, "fill")
    /\ UNCHANGED <<asked, ran, user, drawing, pressing, shown, content, page, asking, stage>>

\* Mutant of Fill: an action the new prompt does not have is left as it was.
FillKeeps(t) ==
    /\ pc[t] = "fill" /\ ContextFree(t)
    /\ content' = asking[t]
    /\ actions' = [c \in Choices |-> IF c \in Acts(asked[asking[t]]) THEN asking[t] ELSE actions[c]]
    /\ Goto(t, "check")
    /\ UNCHANGED <<asked, ran, user, locks, shown, page, moved, asking, stage>>

\* The context of the prompt's elements is open for as long as they are filled in.
Fill(t) ==
    /\ pc[t] = "fill" /\ ContextFree(t)
    /\ content' = asking[t]
    /\ actions' = [c \in Choices |-> ActionOf(asking[t], c)]
    /\ Goto(t, "check")
    /\ UNCHANGED <<asked, ran, user, locks, shown, page, moved, asking, stage>>

\* Mutant of Check: the previous prompt is closed whether it is shown or not.
CheckAlways(t) ==
    /\ pc[t] = "check" /\ UiFree(t)
    /\ Goto(t, IF shown \/ moved[t] # None THEN "supersede" ELSE "show")
    /\ UNCHANGED <<asked, ran, user, locks, prompt, moved, asking, stage>>

\* Mutant of Check: the prompt is looked for without ui_state_mutex.
CheckUnlocked(t) ==
    /\ pc[t] = "check"
    /\ Goto(t, IF shown THEN "supersede" ELSE "show")
    /\ UNCHANGED <<asked, ran, user, locks, prompt, moved, asking, stage>>

\* show_prompt: is_context_shown and show_context take ui_state_mutex one after the other.
Check(t) ==
    /\ pc[t] = "check" /\ UiFree(t)
    /\ Goto(t, IF shown THEN "supersede" ELSE "show")
    /\ UNCHANGED <<asked, ran, user, locks, prompt, moved, asking, stage>>

\* The thread goes on to a place; prompt_state.mutex is given back when it is out.
Proceed(t, place) ==
    /\ Goto(t, place)
    /\ IF place = "out" THEN mutex' = Nobody ELSE UNCHANGED mutex

\* Mutant of Supersede: the lock is not given back with the previous prompt.
SupersedeHolds(t) ==
    /\ pc[t] = "supersede"
    /\ Run(moved[t], "cancel")
    /\ moved' = [moved EXCEPT ![t] = None]
    /\ Goto(t, IF Leaves(moved[t]) THEN "leave" ELSE "out")
    /\ UNCHANGED <<asked, locks, prompt, asking, stage>>

\* "Call the previous cancel action to effectively close the previous prompt."
Supersede(t) ==
    /\ pc[t] = "supersede"
    /\ Run(moved[t], "cancel")
    /\ moved' = [moved EXCEPT ![t] = None]
    /\ Proceed(t, IF Leaves(moved[t]) THEN "leave" ELSE "out")
    /\ UNCHANGED <<asked, drawing, pressing, prompt, asking, stage>>

\* The rest of such an action, config::close: is_context_shown and hide_context of the page
\* take ui_state_mutex, and the thread still holds the prompt's.
FindPage(t, at, hides, next) ==
    /\ pc[t] = at /\ UiFree(t)
    /\ Proceed(t, IF page = "closed" THEN next ELSE hides)
    /\ UNCHANGED <<asked, ran, user, drawing, pressing, prompt, moved, asking, stage>>

HidePage(t, at, next) ==
    /\ pc[t] = at /\ UiFree(t)
    /\ page' = "closed"
    /\ Proceed(t, next)
    /\ UNCHANGED <<asked, ran, user, drawing, pressing, shown, content, actions, moved, asking,
                   stage>>

Show(t) ==
    /\ pc[t] = "show" /\ UiFree(t)
    /\ shown' = TRUE /\ page' = Covered
    /\ moved' = [moved EXCEPT ![t] = None]
    /\ mutex' = Nobody /\ Goto(t, "out")
    /\ UNCHANGED <<asked, ran, user, drawing, pressing, content, actions, asking, stage>>

-----------------------------------------------------------------------------
\* close_prompt: the cancel action is called where it is and stays there.

CloseLock(t) ==
    /\ pc[t] = "out" /\ stage[t] = "close" /\ mutex = Nobody
    /\ mutex' = t /\ Goto(t, "closeCheck")
    /\ stage' = [stage EXCEPT ![t] = "report"]
    /\ UNCHANGED <<asked, ran, user, drawing, pressing, prompt, moved, asking>>

CloseCheck(t) ==
    /\ pc[t] = "closeCheck" /\ UiFree(t)
    /\ IF shown
       THEN /\ Run(actions["cancel"], "cancel")
            /\ Proceed(t, IF Leaves(actions["cancel"]) THEN "closeLeave" ELSE "closeHide")
       ELSE Proceed(t, "out") /\ UNCHANGED <<ran, user>>
    /\ UNCHANGED <<asked, drawing, pressing, prompt, moved, asking, stage>>

CloseHide(t) ==
    /\ pc[t] = "closeHide" /\ UiFree(t)
    /\ shown' = FALSE /\ page' = Uncovered
    /\ mutex' = Nobody /\ Goto(t, "out")
    /\ UNCHANGED <<asked, ran, user, drawing, pressing, content, actions, moved, asking, stage>>

-----------------------------------------------------------------------------
\* The renderer's thread: a frame, and what the user does in it.

BeginDraw ==
    /\ ~drawing /\ drawing' = TRUE
    /\ UNCHANGED <<asked, ran, user, mutex, pressing, prompt, moved, asking, pc, stage>>

\* Mutant of EndDraw: draw_hook gives ui_state_mutex up while a button's callback runs.
EndDrawEarly ==
    /\ drawing /\ drawing' = FALSE
    /\ UNCHANGED <<asked, ran, user, mutex, pressing, prompt, moved, asking, pc, stage>>

EndDraw ==
    /\ drawing /\ Idle("ui") /\ drawing' = FALSE
    /\ UNCHANGED <<asked, ran, user, mutex, pressing, prompt, moved, asking, pc, stage>>

\* ProcessEvent of a button of the prompt opens its context and runs the callback.
Press(choice) ==
    /\ drawing /\ Idle("ui") /\ shown /\ page # "front"
    /\ choice \in Buttons(asked[content])
    /\ pressing' = TRUE
    /\ asking' = [asking EXCEPT !["ui"] = content]
    /\ Goto("ui", choice)
    /\ UNCHANGED <<asked, ran, user, mutex, drawing, prompt, moved, stage>>

\* run_confirm_callback and run_cancel_callback.
Answer(choice) ==
    /\ pc["ui"] = choice /\ mutex = Nobody
    /\ moved' = [moved EXCEPT !["ui"] = actions[choice]]
    /\ actions' = [actions EXCEPT ![choice] = None]
    /\ Goto("ui", IF choice = "confirm" THEN "confirmed" ELSE "cancelled")
    /\ UNCHANGED <<asked, ran, user, locks, shown, content, page, asking, stage>>

\* The action closes the context while it works on another one, or does not.  The frame has
\* the lock that closing the page takes.
Act(place, choice) ==
    /\ pc["ui"] = place
    /\ Run(moved["ui"], choice)
    /\ page' = IF Leaves(moved["ui"]) THEN "closed" ELSE page
    /\ moved' = [moved EXCEPT !["ui"] = None]
    /\ pressing' \in BOOLEAN
    /\ Goto("ui", "hide")
    /\ UNCHANGED <<asked, mutex, drawing, shown, content, actions, asking, stage>>

Hide ==
    /\ pc["ui"] = "hide"
    /\ shown' = FALSE /\ page' = Uncovered /\ pressing' = FALSE
    /\ Goto("ui", "out")
    /\ UNCHANGED <<asked, ran, user, mutex, drawing, content, actions, moved, asking, stage>>

\* The user is on a page of the config modal, which a prompt in front of it keeps him from.
OnPage == drawing /\ Idle("ui") /\ page = "front"

\* A change, a change taken back, and the button that applies them.
Edit ==
    /\ OnPage /\ dirty' = ~dirty
    /\ UNCHANGED <<asked, ran, started, quit, locks, prompt, moved, asking, pc, stage>>

\* The launcher opens the config modal, or, in the game, Escape and the menu button: those do
\* not look whether a prompt is up, and the modal comes in front of it.
OpenPage ==
    /\ drawing /\ Idle("ui") /\ page = "closed" /\ (shown => started)
    /\ page' = "front"
    /\ IF dirty THEN Ask("ui", "apply")
       ELSE UNCHANGED <<asked, ran, user, locks, shown, content, actions, moved, asking, pc>>
    /\ UNCHANGED stage

\* The X of the modal.
ClosePage ==
    /\ OnPage
    /\ IF dirty THEN Ask("ui", "leave") /\ UNCHANGED page
       ELSE /\ page' = "closed"
            /\ UNCHANGED <<asked, ran, user, locks, shown, content, actions, moved, asking, pc>>
    /\ UNCHANGED stage

ChangeTab == OnPage /\ dirty /\ Ask("ui", "apply") /\ UNCHANGED <<page, stage>>

StartGame ==
    /\ drawing /\ Idle("ui") /\ ~shown /\ page = "closed"
    /\ ~started /\ started' = TRUE
    /\ UNCHANGED <<asked, ran, quit, dirty, locks, prompt, moved, asking, pc, stage>>

\* A game that runs asks first, a launcher quits.
AskToQuit(t) ==
    /\ IF started THEN Ask(t, "quit")
       ELSE /\ quit' = TRUE
            /\ UNCHANGED <<asked, ran, started, dirty, locks, shown, content, actions, moved,
                           asking, pc>>
    /\ UNCHANGED <<page, stage>>

PressQuit == OnPage /\ AskToQuit("ui")

-----------------------------------------------------------------------------
\* The main thread closes the window (SDL_QUIT); drop_files, on either thread.

CloseWindow == Idle("main") /\ AskToQuit("main")

Enter(t, place) == pc[t] = "out" /\ stage' = [stage EXCEPT ![t] = place]

DropFiles(t) ==
    /\ Idle(t) /\ ~started
    /\ t = "ui" => OnPage
    /\ Enter(t, "tab")
    /\ UNCHANGED <<asked, ran, user, locks, prompt, moved, asking, pc>>

\* on_tab_change: a tab with unapplied changes asks first, and stays.
LeaveTab(t, from, to) ==
    /\ stage[t] = from /\ Enter(t, to)
    /\ IF dirty THEN Ask(t, "apply") /\ UNCHANGED page
       ELSE UNCHANGED <<asked, ran, user, locks, prompt, moved, asking, pc>>

HideAll(t) ==
    /\ stage[t] = "hideAll" /\ UiFree(t) /\ Enter(t, "open")
    /\ shown' = FALSE /\ page' = "closed"
    /\ UNCHANGED <<asked, ran, user, locks, content, actions, moved, asking, pc>>

\* config::open: is_context_shown and show_context of the page.
LookForPage(t) ==
    /\ stage[t] = "open" /\ UiFree(t)
    /\ Enter(t, IF page = "closed" THEN "showPage" ELSE "opened")
    /\ UNCHANGED <<asked, ran, user, locks, prompt, moved, asking, pc>>

ShowPage(t) ==
    /\ stage[t] = "showPage" /\ UiFree(t) /\ Enter(t, "opened")
    /\ page' = "front"
    /\ UNCHANGED <<asked, ran, user, locks, shown, content, actions, moved, asking, pc>>

Notify(t) == stage[t] = "notice" /\ Enter(t, "close") /\ Ask(t, "notice") /\ UNCHANGED page

\* What start_mod_installation said, after close_prompt.
Report(t) ==
    /\ stage[t] = "report" /\ Enter(t, "none")
    /\ \/ \E kind \in {"info", "overwrite"} : Ask(t, kind) /\ UNCHANGED page
       \/ UNCHANGED <<asked, ran, user, locks, prompt, moved, asking, pc>>

-----------------------------------------------------------------------------
Opens(t)    == \/ Lock(t) \/ Fill(t) \/ Check(t) \/ Supersede(t) \/ Show(t)
               \/ FindPage(t, "leave", "hidePage", "out") \/ HidePage(t, "hidePage", "out")
Closes(t)   == \/ CloseLock(t) \/ CloseCheck(t) \/ CloseHide(t)
               \/ FindPage(t, "closeLeave", "closePage", "closeHide")
               \/ HidePage(t, "closePage", "closeHide")
Answers     == \/ \E choice \in Choices : Answer(choice)
               \/ Act("confirmed", "confirm") \/ Act("cancelled", "cancel") \/ Hide
Installs(t) == \/ LeaveTab(t, "tab", "hideAll") \/ HideAll(t) \/ LookForPage(t) \/ ShowPage(t)
               \/ LeaveTab(t, "opened", "notice") \/ Notify(t) \/ Report(t)
Uses        == \/ Edit \/ OpenPage \/ ClosePage \/ ChangeTab \/ PressQuit \/ StartGame
               \/ CloseWindow
               \/ \E choice \in Choices : Press(choice)
               \/ \E t \in Threads : DropFiles(t)
ThreadSteps(t) == Opens(t) \/ Closes(t) \/ Installs(t)
Frames      == ThreadSteps("ui") \/ BeginDraw \/ EndDraw \/ Answers

Next == ~quit /\ (ThreadSteps("main") \/ Frames \/ Uses)

Spec == Init /\ [][Next]_vars

\* The renderer draws frame after frame, and a lock that is free again and again is not
\* denied to the main thread for ever.
FairSpec ==
    /\ Spec
    /\ SF_vars(~quit /\ ThreadSteps("main"))
    /\ WF_vars(~quit /\ Frames)

-----------------------------------------------------------------------------
\* The type of the state: every prompt that is named was opened, and prompt_state.mutex is
\* held by the thread that opens or closes the prompt and by nobody else.
Locked(t) == pc[t] \in {"fill", "check", "supersede", "leave", "hidePage", "show",
                        "closeCheck", "closeLeave", "closePage", "closeHide"}
PromptsTypeOK ==
    /\ asked \in Seq(Kinds) /\ ran \in Seq(Seq(Choices)) /\ Len(ran) = Len(asked)
    /\ started \in BOOLEAN /\ quit \in BOOLEAN /\ dirty \in BOOLEAN
    /\ mutex \in Threads \cup {Nobody} /\ drawing \in BOOLEAN /\ pressing \in BOOLEAN
    /\ shown \in BOOLEAN /\ content \in Ids \cup {None}
    /\ actions \in [Choices -> Ids \cup {None}]
    /\ moved \in [Threads -> Ids \cup {None}] /\ asking \in [Threads -> Ids \cup {None}]
    /\ pc \in [Threads -> {"out", "lock", "fill", "check", "supersede", "show",
                           "leave", "hidePage", "closeCheck", "closeLeave", "closePage", "closeHide",
                           "confirm", "cancel", "confirmed", "cancelled", "hide"}]
    /\ stage \in [Threads -> {"none", "tab", "hideAll", "open", "showPage", "opened", "notice",
                              "close", "report"}]
    /\ page \in {"closed", "front", "behind"}
    /\ \A t \in Threads : Locked(t) <=> mutex = t

\* Of the actions a prompt was opened with at most one ever runs, whether the user answers
\* it, another prompt supersedes it or close_prompt closes it, on whichever thread.
AnsweredOnce == \A p \in Ids : Len(ran[p]) <= 1

\* No step shows the prompt's context while it is shown or hides it while it is not: the
\* two assertions of UIState::show_context and UIState::hide_context.
ShownOnce ==
    /\ \A t \in Threads : pc[t] = "show" /\ UiFree(t) => ~shown
    /\ \A t \in Threads : pc[t] \in {"closeHide", "hide"} /\ UiFree(t) => shown

\* Nobody is opening, answering or closing the prompt, nor about to replace it.
Downed == {"open", "showPage", "opened", "notice"}
Settled == \A t \in Threads : pc[t] = "out" /\ stage[t] \notin Downed

\* The prompt on the screen has not been answered and its buttons still do what they say.
ShownAreLive ==
    Settled /\ shown =>
        /\ ran[content] = <<>>
        /\ \A choice \in Choices : actions[choice] = ActionOf(content, choice)

\* The answer of an earlier prompt, given on the other thread, does not take the question down
\* that was opened meanwhile: when the threads are done and no prompt is up, the last question
\* was answered, or its cancel action run.  (Dropped files do take one down unanswered, but put
\* the notice of the installation in its place.)
NoQuestionLost ==
    Settled /\ ~shown /\ content # None /\ Acts(asked[content]) # {} => ran[content] # <<>>

\* Closing the window while the game runs brings its prompt up, "Closing during gameplay
\* correctly opens the frontend's quit-confirmation dialog".
Closing(p) == p \in Ids /\ asking["main"] = p /\ asked[p] = "quit" /\ pc["main"] = "lock"
Asks(p)    == quit \/ (shown /\ content = p)
ClosingAsks == \A p \in 1 .. MaxPrompts : Closing(p) ~> Asks(p)

\* The main thread has prompt_state.mutex and waits for a lock of the renderer's thread,
\* which waits for prompt_state.mutex inside a frame.
WaitsForFrame == {"check", "leave", "hidePage", "show",
                  "closeCheck", "closeLeave", "closePage", "closeHide"}
Hung ==
    /\ mutex = "main" /\ drawing
    /\ \/ pc["main"] \in WaitsForFrame
       \/ pc["main"] = "fill" /\ pressing
    /\ \/ pc["ui"] \in {"lock"} \cup Choices
       \/ stage["ui"] = "close" /\ pc["ui"] = "out"

\* That circle of locks is all that can keep the prompt of a closed window away.
ClosingAsksOrHangs == \A p \in 1 .. MaxPrompts : Closing(p) ~> (Asks(p) \/ Hung)

=============================================================================
