-------------------------- MODULE PreemptionProofs --------------------------
(* For any threads and priorities: an edit of a masked section is never    *)
(* interrupted, and a nap takes a tick of the timer.                       *)
EXTENDS Preemption, TLAPS

USE PreemptAssumption

\* Whoever is past the hot path holds the token, and is unmasked once past the gates.
PollingHolds ==
    \A t \in GameThreads :
        /\ at[t] \in {"gates", "exchange"} => token = t
        /\ at[t] = "exchange" => ~masked[t]

\* Editing takes a masked section as well as the token.
EditsMasked == editing # NoThread => token = editing /\ masked[editing]

FlagIsFresh == g_should_yield => fresh

PreemptInv == TypeOK /\ PollingHolds /\ EditsMasked /\ FlagIsFresh

LEMMA InitInv == Init => PreemptInv
    BY DEF Init, PreemptInv, TypeOK, PollingHolds, EditsMasked, FlagIsFresh, Callers

LEMMA StepInv == PreemptInv /\ [Next]_vars => PreemptInv'
<1> SUFFICES ASSUME PreemptInv, [Next]_vars PROVE PreemptInv'
    OBVIOUS
<1> USE DEF PreemptInv, TypeOK, PollingHolds, EditsMasked, FlagIsFresh, Callers
<1>1. CASE StartTimer
    BY <1>1 DEF StartTimer, threads
<1>2. CASE Timer
  <2>1. CASE Raise
      BY <2>1 DEF Raise, threads
  <2>2. CASE Check
    <3>1. timer' \in {"sleep", "done"}
        BY <2>2 DEF Check
    <3> QED BY <2>2, <3>1 DEF Check, threads
  <2> QED BY <1>2, <2>1, <2>2 DEF Timer
<1>3. CASE StopTimer
    BY <1>3 DEF StopTimer, threads
<1>4. CASE StartGame
    BY <1>4 DEF StartGame, threads, clock
<1>5. CASE Schedule
  <2>1. token = NoThread /\ editing = NoThread
      BY <1>5 DEF Schedule
  <2>2. PICK t \in GameThreads : status[t] = "ready" /\ token' = t
      BY <1>5 DEF Schedule
  <2>3. UNCHANGED <<g_should_yield, clock, game_started, status, masked, at, editing, fresh>>
      BY <1>5 DEF Schedule
  <2>4. \A u \in GameThreads : at[u] \notin {"gates", "exchange"}
      BY <2>1
  <2> QED BY <2>1, <2>2, <2>3, <2>4 DEF clock
<1>6. ASSUME NEW c \in Callers, Poll(c) PROVE PreemptInv'
  <2>1. CASE Enter(c)
      BY <2>1 DEF Enter, Go, MayRun, clock
  <2>2. CASE Gates(c)
      BY <2>2 DEF Gates, Go, GatesPass, clock
  <2> QED BY <1>6, <2>1, <2>2 DEF Poll
<1>7. ASSUME NEW t \in GameThreads, Exchange(t) PROVE PreemptInv'
  <2>1. /\ at[t] = "exchange" /\ token = t /\ ~masked[t] /\ editing = NoThread
        /\ at' = [at EXCEPT ![t] = "entered"]
        /\ UNCHANGED <<clock, game_started, masked, editing>>
      BY <1>7 DEF Exchange, Go
  <2>2. \A u \in GameThreads \ {t} : at[u] \notin {"gates", "exchange"}
      BY <2>1
  <2>3. CASE g_should_yield
      BY <1>7, <2>1, <2>2, <2>3 DEF Exchange, Nap, clock
  <2>4. CASE ~g_should_yield
      BY <1>7, <2>1, <2>2, <2>4 DEF Exchange, clock
  <2> QED BY <2>3, <2>4
<1>8. ASSUME NEW t \in GameThreads, Mask(t) PROVE PreemptInv'
    BY <1>8 DEF Mask, clock
<1>9. ASSUME NEW t \in GameThreads, BeginEdit(t) \/ EndEdit(t) PROVE PreemptInv'
    BY <1>9 DEF BeginEdit, EndEdit, Idle, clock
<1>10. ASSUME NEW t \in GameThreads, Unmask(t) PROVE PreemptInv'
    BY <1>10 DEF Unmask, Idle, Go, clock
<1>11. ASSUME NEW t \in GameThreads, MessageOp(t) PROVE PreemptInv'
  <2>1. /\ token = t /\ at[t] \in {"code", "entered"} /\ ~masked[t] /\ token' = NoThread
        /\ UNCHANGED <<g_should_yield, clock, game_started, masked, at, editing, fresh>>
      BY <1>11 DEF MessageOp, Idle
  <2>2. PICK s \in {"ready", "blocked"} : status' = [status EXCEPT ![t] = s]
      BY <1>11 DEF MessageOp
  <2>3. editing = NoThread /\ \A u \in GameThreads : at[u] \notin {"gates", "exchange"}
      BY <2>1
  <2> QED BY <2>1, <2>2, <2>3 DEF clock
<1>12. ASSUME NEW t \in GameThreads, Wake(t) PROVE PreemptInv'
    BY <1>12 DEF Wake, clock
<1>13. CASE UNCHANGED vars
    BY <1>13 DEF vars, threads, clock
<1> QED
    BY <1>1, <1>2, <1>3, <1>4, <1>5, <1>6, <1>7, <1>8, <1>9, <1>10, <1>11, <1>12, <1>13
       DEF Next, Code

LEMMA Inductive == Spec => []PreemptInv
    BY InitInv, StepInv, PTL DEF Spec

\* The scheduler's and the poll's state is well typed, and a thread holding the token is ready.
THEOREM PreemptionTypeCorrect == Spec => []TypeOK
    BY Inductive, PTL DEF PreemptInv

\* No other thread sees a half-linked list: the editor is masked, so the gates keep its token.
THEOREM EditsStayWhole == Spec => []EditsAreWhole
<1>1. PreemptInv => EditsAreWhole
    BY DEF PreemptInv, EditsMasked, EditsAreWhole
<1> QED BY Inductive, <1>1, PTL

\* A nap consumes a tick: only the exchange makes a thread nap, and only with the flag up.
THEOREM NapsTakeTicks == Spec => OneYieldPerTick
<1>1. PreemptInv /\ [Next]_vars =>
        [\A t \in GameThreads : status[t] # "napping" /\ status'[t] = "napping" => fresh]_vars
  <2> SUFFICES ASSUME PreemptInv, Next, NEW t \in GameThreads,
                      status[t] # "napping", status'[t] = "napping"
               PROVE  fresh
      OBVIOUS
  <2>1. ASSUME NEW u \in GameThreads, Exchange(u) PROVE fresh
      BY <2>1 DEF Exchange, PreemptInv, FlagIsFresh
  <2>2. ASSUME NEW u \in GameThreads, Wake(u) PROVE FALSE
      BY <2>2 DEF Wake, PreemptInv, TypeOK
  <2>3. ASSUME NEW u \in GameThreads, MessageOp(u) PROVE FALSE
      BY <2>3 DEF MessageOp, PreemptInv, TypeOK
  <2>4. ASSUME status' = status PROVE FALSE
      BY <2>4
  <2> QED
      BY <2>1, <2>2, <2>3, <2>4
         DEF Next, Code, Timer, Raise, Check, StartTimer, StopTimer, StartGame, Schedule, Poll,
             Enter, Gates, Mask, BeginEdit, EndEdit, Unmask, threads
<1> QED BY Inductive, <1>1, PTL DEF Spec, OneYieldPerTick
=============================================================================
