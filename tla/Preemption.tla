----------------------------- MODULE Preemption -----------------------------
(***************************************************************************)
(* The cooperative preemption of src/src/main/bar_preempt.cpp: a host      *)
(* timer raises g_should_yield, and the prologue of every recompiled       *)
(* function polls it through bar_consume_yield.  N64 threads share one run *)
(* token (ultramodern, external), so a low-priority thread that computes   *)
(* for long starves the audio manager unless the poll makes it nap.        *)
(***************************************************************************)
EXTENDS Naturals

CONSTANTS
    GameThreads,      \* the N64 threads
    HostThreads,      \* other host threads running recompiled code
    NoThread,
    Priority,         \* of every N64 thread
    kBarMaxPreemptPriority

ASSUME PreemptAssumption ==
    /\ GameThreads \intersect HostThreads = {}
    /\ NoThread \notin GameThreads \union HostThreads
    /\ Priority \in [GameThreads -> Nat]
    /\ kBarMaxPreemptPriority \in Nat

Callers == GameThreads \union HostThreads

VARIABLES
    g_should_yield,
    g_preempt_run,
    timer,        \* where the timer thread is: "off", "sleep", "check" or "done"
    game_started,
    token,        \* the N64 thread that runs
    status,       \* of every N64 thread: "ready", "blocked" or "napping"
    masked,       \* recomp_interrupts_masked, per N64 thread
    at,           \* where a thread is: in "code", past a prologue ("entered"),
                  \* or in bar_consume_yield ("gates", "exchange")
    editing,      \* the thread that holds a shared list half linked
    fresh         \* history: the timer has fired since the last yield

threads == <<token, status, masked, at, editing>>
clock   == <<g_preempt_run, timer>>
vars    == <<g_should_yield, clock, game_started, threads, fresh>>

Init ==
    /\ g_should_yield = FALSE /\ fresh = FALSE
    /\ g_preempt_run = TRUE /\ timer = "off"
    /\ game_started = FALSE
    /\ token = NoThread /\ editing = NoThread
    /\ status = [t \in GameThreads |-> "ready"]
    /\ masked = [t \in GameThreads |-> FALSE]
    /\ at = [c \in Callers |-> "code"]

-----------------------------------------------------------------------------
(* The timer thread, started and joined by main.                           *)

StartTimer ==
    /\ timer = "off"
    /\ g_preempt_run' = TRUE
    /\ timer' = "sleep"
    /\ UNCHANGED <<g_should_yield, game_started, threads, fresh>>

\* Two milliseconds have passed.
Raise ==
    /\ timer = "sleep"
    /\ g_should_yield' = TRUE
    /\ fresh' = TRUE
    /\ timer' = "check"
    /\ UNCHANGED <<g_preempt_run, game_started, threads>>

\* Mutant of Check: the loop never looks at g_preempt_run.
CheckNothing ==
    /\ timer = "check"
    /\ timer' = "sleep"
    /\ UNCHANGED <<g_should_yield, g_preempt_run, game_started, threads, fresh>>

Check ==
    /\ timer = "check"
    /\ timer' = IF g_preempt_run THEN "sleep" ELSE "done"
    /\ UNCHANGED <<g_should_yield, g_preempt_run, game_started, threads, fresh>>

\* main, after recomp::start has returned; it then joins the timer.
StopTimer ==
    /\ timer \in {"sleep", "check"} /\ g_preempt_run
    /\ g_preempt_run' = FALSE
    /\ UNCHANGED <<g_should_yield, timer, game_started, threads, fresh>>

-----------------------------------------------------------------------------
(* bar_consume_yield, in the prologue of every recompiled function.        *)

MayRun(c) == c \in HostThreads \/ c = token
Go(c, where) == at' = [at EXCEPT ![c] = where]

\* The hot path: one load.
Enter(c) ==
    /\ MayRun(c) /\ at[c] \in {"code", "entered"}
    /\ Go(c, IF g_should_yield THEN "gates" ELSE "entered")
    /\ UNCHANGED <<g_should_yield, clock, game_started, token, status, masked, editing, fresh>>

\* Mutant of GatesPass: no test of recomp_interrupts_masked.
GatesPassMasked(c) ==
    /\ c \in GameThreads
    /\ game_started
    /\ Priority[c] < kBarMaxPreemptPriority

\* Mutant of GatesPass: the priority test the other way round.
GatesPassHigh(c) ==
    /\ c \in GameThreads
    /\ game_started
    /\ Priority[c] >= kBarMaxPreemptPriority
    /\ ~masked[c]

GatesPass(c) ==
    /\ c \in GameThreads
    /\ game_started
    /\ Priority[c] < kBarMaxPreemptPriority
    /\ ~masked[c]

\* A masked thread leaves the flag for a later prologue.
Gates(c) ==
    /\ at[c] = "gates"
    /\ Go(c, IF GatesPass(c) THEN "exchange" ELSE "entered")
    /\ UNCHANGED <<g_should_yield, clock, game_started, token, status, masked, editing, fresh>>

\* yield_self_1ms: give the token up for a millisecond.
Nap(t) ==
    /\ status' = [status EXCEPT ![t] = "napping"]
    /\ token' = NoThread

\* Mutant of Exchange: the flag is read but not cleared.
ExchangeKeeps(t) ==
    /\ at[t] = "exchange"
    /\ Go(t, "entered")
    /\ IF g_should_yield
       THEN Nap(t) /\ fresh' = FALSE
       ELSE UNCHANGED <<token, status, fresh>>
    /\ UNCHANGED <<g_should_yield, clock, game_started, masked, editing>>

Exchange(t) ==
    /\ at[t] = "exchange"
    /\ Go(t, "entered")
    /\ IF g_should_yield
       THEN g_should_yield' = FALSE /\ Nap(t) /\ fresh' = FALSE
       ELSE UNCHANGED <<g_should_yield, token, status, fresh>>
    /\ UNCHANGED <<clock, game_started, masked, editing>>

-----------------------------------------------------------------------------
(* The game's code and the runtime's scheduler (external).                 *)

Idle(t) == token = t /\ at[t] \in {"code", "entered"}

\* osSetIntMask or __osDisableInt, in a function whose prologue has polled.
Mask(t) ==
    /\ token = t /\ at[t] = "entered" /\ ~masked[t]
    /\ masked' = [masked EXCEPT ![t] = TRUE]
    /\ UNCHANGED <<g_should_yield, clock, game_started, token, status, at, editing, fresh>>

\* The masked section unlinks and relinks the audio event queue, entering functions meanwhile.
BeginEdit(t) ==
    /\ Idle(t) /\ masked[t] /\ editing # t
    /\ editing' = t
    /\ UNCHANGED <<g_should_yield, clock, game_started, token, status, masked, at, fresh>>

EndEdit(t) ==
    /\ Idle(t) /\ editing = t
    /\ editing' = NoThread
    /\ UNCHANGED <<g_should_yield, clock, game_started, token, status, masked, at, fresh>>

Unmask(t) ==
    /\ Idle(t) /\ masked[t] /\ editing # t
    /\ masked' = [masked EXCEPT ![t] = FALSE]
    /\ Go(t, "code")
    /\ UNCHANGED <<g_should_yield, clock, game_started, token, status, editing, fresh>>

\* An os message operation outside masked sections: the thread waits, or lets others go first.
MessageOp(t) ==
    /\ Idle(t) /\ ~masked[t]
    /\ token' = NoThread
    /\ \E s \in {"ready", "blocked"} : status' = [status EXCEPT ![t] = s]
    /\ UNCHANGED <<g_should_yield, clock, game_started, masked, at, editing, fresh>>

Wake(t) ==
    /\ status[t] \in {"blocked", "napping"}
    /\ status' = [status EXCEPT ![t] = "ready"]
    /\ UNCHANGED <<g_should_yield, clock, game_started, token, masked, at, editing, fresh>>

\* The free token goes to the ready thread of highest priority.
Schedule ==
    /\ token = NoThread
    /\ \E t \in GameThreads :
          /\ status[t] = "ready"
          /\ \A u \in GameThreads : status[u] = "ready" => Priority[u] <= Priority[t]
          /\ token' = t
    /\ UNCHANGED <<g_should_yield, clock, game_started, status, masked, at, editing, fresh>>

StartGame ==
    /\ ~game_started
    /\ game_started' = TRUE
    /\ UNCHANGED <<g_should_yield, clock, threads, fresh>>

-----------------------------------------------------------------------------
Timer == Raise \/ Check
Poll(c) == Enter(c) \/ Gates(c)
Code(t) == Exchange(t) \/ Mask(t) \/ BeginEdit(t) \/ EndEdit(t) \/ Unmask(t) \/ MessageOp(t)

Next ==
    \/ StartTimer \/ Timer \/ StopTimer \/ StartGame \/ Schedule
    \/ \E c \in Callers : Poll(c)
    \/ \E t \in GameThreads : Code(t) \/ Wake(t)

High(t) == Priority[t] >= kBarMaxPreemptPriority

\* The timer and the runtime keep going; code that runs enters functions, which poll;
\* masked sections are short; the threads the poll spares wait for messages by themselves.
Fairness ==
    /\ WF_vars(StartTimer) /\ WF_vars(Timer) /\ WF_vars(StartGame) /\ WF_vars(Schedule)
    /\ \A t \in GameThreads :
          /\ WF_vars(Poll(t) \/ Exchange(t)) /\ WF_vars(status[t] = "napping" /\ Wake(t))
          /\ SF_vars(EndEdit(t)) /\ SF_vars(Unmask(t))
          /\ High(t) => SF_vars(MessageOp(t))

Spec     == Init /\ [][Next]_vars
FairSpec == Spec /\ Fairness

-----------------------------------------------------------------------------
(* Properties.                                                             *)

\* Types, and the token is with a thread that may run.
TypeOK ==
    /\ {g_should_yield, g_preempt_run, game_started, fresh} \subseteq BOOLEAN
    /\ timer \in {"off", "sleep", "check", "done"}
    /\ token \in GameThreads \union {NoThread}
    /\ status \in [GameThreads -> {"ready", "blocked", "napping"}]
    /\ masked \in [GameThreads -> BOOLEAN]
    /\ at \in [Callers -> {"code", "entered", "gates", "exchange"}]
    /\ editing \in GameThreads \union {NoThread}
    /\ token # NoThread => status[token] = "ready"

\* "Yielding there let the audio manager walk a half-linked list": while a thread has the
\* event queue half linked, no other N64 thread runs, whatever the timer does.
EditsAreWhole == editing # NoThread => token = editing

\* "one yield per tick": however many prologues and threads race for it, a thread is made
\* to nap only if the timer has fired since the last nap.
OneYieldPerTick ==
    [][\A t \in GameThreads : status[t] # "napping" /\ status'[t] = "napping" => fresh]_vars

\* Long straight-line compute does not starve the audio manager or the scheduler: while
\* the timer runs, a ready high-priority thread gets the token, or a higher one has it.
AudioNotStarved ==
    <>[]g_preempt_run => \A t \in {u \in GameThreads : High(u)} :
        status[t] = "ready" ~> (token # NoThread /\ Priority[token] >= Priority[t])

\* bar_stop_preempt_timer joins the timer, so the timer must come to an end.
StopReturns == ~g_preempt_run ~> timer = "done"
=============================================================================
