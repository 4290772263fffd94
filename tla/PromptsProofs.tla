--------------------------- MODULE PromptsProofs ---------------------------
(* For any number of prompts and any interleaving of the two threads: an   *)
(* action of a prompt runs at most once, the context is never shown twice  *)
(* nor hidden when it is not shown, the buttons on the screen belong to    *)
(* its text, and the last question stays until it is answered.             *)
EXTENDS Prompts, TLAPS

USE PromptsAssumption

-----------------------------------------------------------------------------
\* Only the renderer's thread answers, and it does everything inside a frame.
Pressed   == {"confirm", "cancel", "confirmed", "cancelled", "hide"}
Answering == pc["ui"] \in {"confirmed", "cancelled", "hide"}
InFrame ==
    /\ pc["main"] \notin Pressed
    /\ pc["ui"] # "out" \/ stage["ui"] # "none" => drawing
    /\ pc["ui"] \in Pressed => shown

\* close_prompt has run the cancel action and not yet hidden the prompt.
Shutting(t) == pc[t] \in {"closeLeave", "closePage", "closeHide"}

\* What is_context_shown said stays true until the thread has acted on it: the mutex keeps
\* other openers out and the frame lock the answers.  Files dropped on the page in front of a
\* prompt may take it down meanwhile, but then the renderer's thread stays in its frame.
Acting(t) == pc[t] \in {"supersede", "leave", "hidePage"} \/ Shutting(t)
DropWaits == stage["ui"] \in Downed \/ (stage["ui"] = "close" /\ pc["ui"] = "lock")
AnswersWait ==
    /\ Acting("main") => /\ ~Answering
                         /\ stage["ui"] \in {"none", "tab", "hideAll"} \/ DropWaits
                         /\ shown \/ DropWaits
    /\ Acting("ui") => shown
    /\ \A t \in Threads : pc[t] = "show" => ~shown /\ ~Answering

\* The prompt a thread opens is new: nothing it could run belongs to it but what it fills in.
Opening(t) == pc[t] \in {"lock", "fill", "check", "supersede", "show"}
OpensNew ==
    \A t \in Threads : Opening(t) =>
        /\ asking[t] \in Ids /\ ran[asking[t]] = <<>>
        /\ \A u \in Threads : moved[u] # asking[t]
        /\ \A u \in Threads \ {t} : Opening(u) => asking[u] # asking[t]
        /\ \A c \in Choices :
             IF pc[t] \in {"lock", "fill"} THEN actions[c] # asking[t]
                                           ELSE actions[c] \in {None, asking[t]}

\* Whatever may still be called belongs to a prompt none of whose actions ran.
Unrun(p) == p = None \/ ran[p] = <<>>
OnlyOnce ==
    /\ \A p \in Ids : Len(ran[p]) <= 1
    /\ shown /\ ~Answering /\ (\A t \in Threads : ~Shutting(t)) =>
         \A c \in Choices : Unrun(actions[c])
    /\ pc["ui"] \in {"confirmed", "cancelled"} => Unrun(moved["ui"])
    /\ \A t \in Threads :
         pc[t] = "supersede" \/ (pc[t] \in {"fill", "check"} /\ shown /\ ~Answering) =>
           Unrun(moved[t])

PromptsInv == PromptsTypeOK /\ InFrame /\ AnswersWait /\ OpensNew /\ OnlyOnce

LEMMA InitInv == Init => PromptsInv
<1> USE DEF Init, Threads, Nobody, None, Choices, Ids
<1>1. Init => PromptsTypeOK
  <2>1. <<>> \in Seq(Kinds) /\ <<>> \in Seq(Seq(Choices)) /\ Len(<<>>) = 0
    OBVIOUS
  <2> QED BY <2>1 DEF PromptsTypeOK, Locked
<1>2. Init => InFrame /\ AnswersWait /\ OpensNew
  BY DEF InFrame, AnswersWait, Acting, Shutting, OpensNew, Pressed, Answering, Opening
<1>3. Init => OnlyOnce
  BY DEF OnlyOnce, Answering, Unrun
<1> QED BY <1>1, <1>2, <1>3 DEF PromptsInv

-----------------------------------------------------------------------------
\* A new prompt has a number of its own and no history.
LEMMA AskKeeps ==
    ASSUME PromptsInv, NEW t \in Threads, NEW kind \in Kinds, Ask(t, kind),
           pc[t] = "out", t = "ui" => drawing,
           page' \in {"closed", "front", "behind"},
           \/ stage' = stage
           \/ /\ stage[t] # "none"
              /\ \E place \in {"none", "hideAll", "notice", "close"} :
                   /\ stage' = [stage EXCEPT ![t] = place]
                   /\ stage[t] \in Downed => place \in {"notice", "close"}
                   /\ place = "hideAll" => stage[t] = "tab"
                   /\ place \in {"notice", "close"} => stage[t] \in Downed
    PROVE  PromptsInv'
<1> DEFINE new == Len(asked) + 1
<1> USE DEF PromptsInv, Ask, Goto, Threads, Nobody, None, Choices, user, locks
<1>1. /\ asked' \in Seq(Kinds) /\ ran' \in Seq(Seq(Choices)) /\ Len(ran') = Len(asked')
      /\ new \notin Ids /\ new # None /\ Ids' = Ids \cup {new}
      /\ ran'[new] = <<>> /\ \A p \in Ids : ran'[p] = ran[p]
  <2>1. asked \in Seq(Kinds) /\ ran \in Seq(Seq(Choices)) /\ Len(ran) = Len(asked)
    BY DEF PromptsTypeOK
  <2>2. asked' = Append(asked, kind) /\ ran' = Append(ran, <<>>)
    OBVIOUS
  <2>3. <<>> \in Seq(Choices)
    OBVIOUS
  <2> QED BY <2>1, <2>2, <2>3 DEF Ids
<1>2. PromptsTypeOK'
  BY <1>1 DEF PromptsTypeOK, Locked
<1>3. InFrame' /\ AnswersWait'
  BY DEF PromptsTypeOK, InFrame, AnswersWait, Acting, Shutting, DropWaits, Downed, Pressed, Answering
<1>4. OpensNew'
  <2>1. ASSUME NEW u \in Threads, Opening(u)
        PROVE  u # t /\ asking[u] \in Ids /\ asking'[u] = asking[u] /\ pc'[u] = pc[u]
    BY <2>1 DEF PromptsTypeOK, OpensNew, Opening
  <2>2. ASSUME NEW u \in Threads, Opening(u)' PROVE u = t \/ Opening(u)
    BY <2>2 DEF PromptsTypeOK, Opening
  <2>3. asking'[t] = new /\ pc'[t] = "lock"
    BY DEF PromptsTypeOK
  <2>4. /\ \A u \in Threads : moved'[u] = moved[u] /\ moved[u] \in Ids \cup {None}
        /\ \A c \in Choices : actions'[c] = actions[c] /\ actions[c] \in Ids \cup {None}
    BY DEF PromptsTypeOK
  <2>5. ASSUME NEW u \in Threads, Opening(u)'
        PROVE  /\ asking'[u] \in Ids' /\ ran'[asking'[u]] = <<>>
               /\ \A v \in Threads : moved'[v] # asking'[u]
               /\ \A v \in Threads \ {u} : Opening(v)' => asking'[v] # asking'[u]
               /\ \A c \in Choices :
                    IF pc'[u] \in {"lock", "fill"} THEN actions'[c] # asking'[u]
                                                   ELSE actions'[c] \in {None, asking'[u]}
    <3> HIDE DEF new
    <3>1. CASE u = t
      BY ONLY <1>1, <2>1, <2>2, <2>3, <2>4, <3>1
    <3>2. CASE u # t
      <4>1. Opening(u) /\ asking'[u] = asking[u] /\ pc'[u] = pc[u] /\ asking[u] \in Ids
        BY <2>1, <2>2, <2>5, <3>2
      <4>2. /\ ran[asking[u]] = <<>> /\ \A v \in Threads : moved[v] # asking[u]
            /\ \A v \in Threads \ {u} : Opening(v) => asking[v] # asking[u]
            /\ \A c \in Choices :
                 IF pc[u] \in {"lock", "fill"} THEN actions[c] # asking[u]
                                               ELSE actions[c] \in {None, asking[u]}
        BY <4>1 DEF OpensNew
      <4>3. \A v \in Threads \ {u} : Opening(v)' => asking'[v] # asking'[u]
        BY <1>1, <2>1, <2>2, <2>3, <4>1, <4>2
      <4> QED BY ONLY <1>1, <2>4, <4>1, <4>2, <4>3
    <3> QED BY <3>1, <3>2
  <2> QED BY <2>5 DEF OpensNew
<1>5. OnlyOnce'
  <2>1. \A p \in Ids \cup {None} : Unrun(p) => Unrun(p)'
    BY <1>1 DEF Unrun
  <2>2. \A p \in Ids' : Len(ran'[p]) <= 1
    <3>1. Len(<<>>) = 0
      OBVIOUS
    <3>2. Len(ran'[new]) = 0
      BY <1>1, <3>1, Zenon
    <3>3. \A p \in Ids : Len(ran[p]) <= 1 /\ ran'[p] = ran[p]
      BY <1>1 DEF OnlyOnce
    <3>4. \A p \in Ids : Len(ran'[p]) <= 1
      BY <3>3, Zenon
    <3> HIDE DEF new
    <3> QED BY ONLY <1>1, <3>2, <3>4
  <2>3. /\ \A u \in Threads : pc'[u] = "lock" \/ pc'[u] = pc[u]
        /\ \A u \in Threads : moved[u] \in Ids \cup {None}
        /\ \A c \in Choices : actions[c] \in Ids \cup {None}
        /\ pc["ui"] = "out" \/ pc'["ui"] = pc["ui"]
    BY DEF PromptsTypeOK
  <2>4. \A u \in Threads : Shutting(u) => Shutting(u)'
    BY DEF PromptsTypeOK, Shutting
  <2>5. Answering => Answering'
    BY DEF PromptsTypeOK, Answering
  <2> QED BY <2>1, <2>2, <2>3, <2>4, <2>5 DEF OnlyOnce
<1> QED BY <1>2, <1>3, <1>4, <1>5

\* An action of a prompt none of whose actions ran becomes the first to run.
LEMMA RunOnce ==
    ASSUME PromptsInv, NEW p \in Ids \cup {None}, NEW choice \in Choices, Unrun(p),
           Run(p, choice), asked' = asked
    PROVE  /\ ran' \in Seq(Seq(Choices)) /\ Len(ran') = Len(asked) /\ Ids' = Ids
           /\ started' \in BOOLEAN /\ quit' \in BOOLEAN /\ dirty' \in BOOLEAN
           /\ \A q \in Ids : Len(ran'[q]) <= 1 /\ (q # p => ran'[q] = ran[q])
<1>1. asked \in Seq(Kinds) /\ ran \in Seq(Seq(Choices)) /\ Len(ran) = Len(asked)
  BY DEF PromptsInv, PromptsTypeOK
<1>2. CASE p = None
  BY <1>1, <1>2 DEF PromptsInv, PromptsTypeOK, OnlyOnce, Run, user, Ids
<1>3. CASE p # None
  <2>1. ran[p] = <<>> /\ p \in 1 .. Len(ran)
    BY <1>1, <1>3 DEF Unrun, Ids
  <2>2. ran' = [ran EXCEPT ![p] = Append(@, choice)]
    BY <1>3 DEF Run
  <2>3. Append(ran[p], choice) \in Seq(Choices) /\ Len(Append(ran[p], choice)) = 1
    BY <2>1
  <2>4. ran' \in Seq(Seq(Choices)) /\ Len(ran') = Len(ran)
    BY <1>1, <2>1, <2>2, <2>3
  <2>5. started' \in BOOLEAN /\ quit' \in BOOLEAN /\ dirty' \in BOOLEAN
    BY <1>3 DEF Run, PromptsInv, PromptsTypeOK
  <2>6. \A q \in Ids : Len(ran'[q]) <= 1 /\ (q # p => ran'[q] = ran[q])
    BY <1>1, <2>1, <2>2, <2>3 DEF PromptsInv, OnlyOnce, Ids
  <2> QED BY <1>1, <2>4, <2>5, <2>6 DEF Ids
<1> QED BY <1>2, <1>3

\* A thread that goes on opening its prompt, while nothing new is moved out or becomes an
\* action, still has a new one.
LEMMA StaysNew ==
    ASSUME PromptsTypeOK, OpensNew, asked' = asked, asking' = asking,
           \A u \in Threads : Opening(u)' => Opening(u) /\ ran'[asking[u]] = <<>>,
           \A u \in Threads : Opening(u)' =>
               (pc'[u] \in {"lock", "fill"} <=> pc[u] \in {"lock", "fill"}),
           \A u \in Threads : moved'[u] \in {moved[u], None},
           \A c \in Choices : actions'[c] \in {actions[c], None}
    PROVE  OpensNew'
<1>1. Ids' = Ids /\ \A p \in Ids : p # None
  BY DEF PromptsTypeOK, Ids, None
<1> SUFFICES ASSUME NEW u \in Threads, Opening(u)'
             PROVE  /\ asking'[u] \in Ids' /\ ran'[asking'[u]] = <<>>
                    /\ \A v \in Threads : moved'[v] # asking'[u]
                    /\ \A v \in Threads \ {u} : Opening(v)' => asking'[v] # asking'[u]
                    /\ \A c \in Choices :
                         IF pc'[u] \in {"lock", "fill"} THEN actions'[c] # asking'[u]
                                                       ELSE actions'[c] \in {None, asking'[u]}
  BY DEF OpensNew
<1>2. /\ asking[u] \in Ids /\ \A v \in Threads : moved[v] # asking[u]
      /\ \A v \in Threads \ {u} : Opening(v) => asking[v] # asking[u]
      /\ \A c \in Choices :
           IF pc[u] \in {"lock", "fill"} THEN actions[c] # asking[u]
                                         ELSE actions[c] \in {None, asking[u]}
  BY DEF OpensNew
<1> QED BY <1>1, <1>2

\* The rest of an action that closes the page: nothing moves but the page and the thread.
LEMMA PageKeeps ==
    ASSUME PromptsInv, NEW t \in Threads,
           NEW at, NEW hides, NEW next,
           <<at, hides, next>> \in {<<"leave", "hidePage", "out">>,
                                    <<"closeLeave", "closePage", "closeHide">>},
           FindPage(t, at, hides, next) \/ HidePage(t, hides, next)
    PROVE  PromptsInv'
<1> USE DEF PromptsInv, Threads, Nobody, Pressed, Answering, Opening, Locked, Acting, Shutting
<1>1. /\ pc[t] \in {at, hides} /\ UiFree(t) /\ mutex = t
      /\ \E place \in {hides, next} :
            /\ pc' = [pc EXCEPT ![t] = place]
            /\ mutex' = IF place = "out" THEN Nobody ELSE mutex
      /\ page' \in {"closed", "front", "behind"}
      /\ UNCHANGED <<asked, ran, user, drawing, pressing, shown, content, actions, moved, asking, stage>>
  BY DEF FindPage, HidePage, Proceed, Goto, PromptsTypeOK, prompt
<1>2. PromptsTypeOK'
  BY <1>1 DEF PromptsTypeOK, user, Ids
<1>3. InFrame' /\ AnswersWait'
  BY <1>1 DEF PromptsTypeOK, InFrame, AnswersWait, DropWaits, UiFree
<1>4. OpensNew'
  <2>1. \A u \in Threads : Opening(u)' => Opening(u) /\ ran'[asking[u]] = <<>> /\ pc'[u] = pc[u]
    BY <1>1 DEF PromptsTypeOK, OpensNew
  <2> QED BY ONLY PromptsInv, <1>1, <2>1, StaysNew DEF PromptsInv, Opening
<1>5. OnlyOnce'
  BY <1>1 DEF PromptsTypeOK, AnswersWait, OpensNew, OnlyOnce, Unrun, Ids
<1> QED BY <1>2, <1>3, <1>4, <1>5

-----------------------------------------------------------------------------
\* One step per action of open_choice_prompt and its siblings, and of close_prompt.
LEMMA OpensKeep == ASSUME PromptsInv, NEW t \in Threads, Opens(t) PROVE PromptsInv'
<1> USE DEF PromptsInv, Goto, Proceed, UiFree, ContextFree, locks, prompt, user, Threads, Nobody, None,
            Choices, Ids, Pressed, Answering, Opening, Locked, Acting, Shutting, DropWaits, Downed
<1>1. CASE Lock(t)
  <2>1. PromptsTypeOK'
    BY <1>1 DEF Lock, PromptsTypeOK
  <2>2. InFrame' /\ AnswersWait'
    BY <1>1 DEF Lock, PromptsTypeOK, InFrame, AnswersWait
  <2>3. OpensNew'
    BY <1>1 DEF Lock, PromptsTypeOK, OpensNew
  <2>4. OnlyOnce'
    BY <1>1 DEF Lock, PromptsTypeOK, InFrame, OnlyOnce, Unrun
  <2> QED BY <2>1, <2>2, <2>3, <2>4, Zenon
<1>2. CASE Fill(t)
  <2>1. PromptsTypeOK'
    BY <1>2 DEF Fill, PromptsTypeOK, OpensNew, ActionOf, Acts
  <2>2. InFrame' /\ AnswersWait'
    BY <1>2 DEF Fill, PromptsTypeOK, InFrame, AnswersWait
  <2>3. OpensNew'
    BY <1>2 DEF Fill, PromptsTypeOK, OpensNew, ActionOf
  <2>4. OnlyOnce'
    BY <1>2 DEF Fill, PromptsTypeOK, OpensNew, OnlyOnce, Unrun, ActionOf
  <2> QED BY <2>1, <2>2, <2>3, <2>4, Zenon
<1>3. CASE Check(t)
  <2>1. PromptsTypeOK'
    BY <1>3 DEF Check, PromptsTypeOK
  <2>2. InFrame' /\ AnswersWait'
    BY <1>3 DEF Check, PromptsTypeOK, InFrame, AnswersWait
  <2>3. OpensNew'
    BY <1>3 DEF Check, PromptsTypeOK, OpensNew
  <2>4. OnlyOnce'
    BY <1>3 DEF Check, PromptsTypeOK, InFrame, OnlyOnce, Unrun
  <2> QED BY <2>1, <2>2, <2>3, <2>4, Zenon
<1>4. CASE Supersede(t)
  <2>1. moved[t] \in Ids \cup {None} /\ Unrun(moved[t]) /\ Run(moved[t], "cancel") /\ asked' = asked
    BY <1>4 DEF Supersede, PromptsTypeOK, OnlyOnce
  <2>2. /\ ran' \in Seq(Seq(Choices)) /\ Len(ran') = Len(asked)
        /\ started' \in BOOLEAN /\ quit' \in BOOLEAN /\ dirty' \in BOOLEAN
        /\ \A q \in Ids : Len(ran'[q]) <= 1 /\ (q # moved[t] => ran'[q] = ran[q])
    BY <2>1, RunOnce
  <2>3. PromptsTypeOK'
    BY <1>4, <2>2 DEF Supersede, PromptsTypeOK
  <2>4. InFrame' /\ AnswersWait'
    BY <1>4 DEF Supersede, PromptsTypeOK, InFrame, AnswersWait
  <2>5. OpensNew'
    <3>0. /\ pc' = [pc EXCEPT ![t] = IF Leaves(moved[t]) THEN "leave" ELSE "out"]
          /\ asking' = asking
      BY <1>4 DEF Supersede
    <3>1. \A u \in Threads : Opening(u)' => Opening(u) /\ ran'[asking[u]] = <<>> /\ pc'[u] = pc[u]
      <4> SUFFICES ASSUME NEW u \in Threads, Opening(u)'
                   PROVE  Opening(u) /\ ran'[asking[u]] = <<>> /\ pc'[u] = pc[u]
        OBVIOUS
      <4>1. pc'[u] = pc[u] /\ Opening(u)
        BY <3>0 DEF PromptsTypeOK
      <4>2. asking[u] \in Ids /\ asking[u] # moved[t] /\ ran[asking[u]] = <<>>
        BY <4>1 DEF OpensNew
      <4> QED BY ONLY <2>2, <4>1, <4>2
    <3>2. /\ asked' = asked /\ asking' = asking /\ actions' = actions
          /\ \A u \in Threads : moved'[u] \in {moved[u], None}
      BY <1>4 DEF Supersede, PromptsTypeOK
    <3> QED BY ONLY PromptsInv, <3>1, <3>2, StaysNew DEF PromptsInv, Opening
  <2>6. OnlyOnce'
    <3>1. \A c \in Choices : Unrun(actions[c])'
      <4>1. \A c \in Choices : actions[c] \in {None, asking[t]}
        BY <1>4 DEF Supersede, OpensNew
      <4>2. asking[t] \in Ids /\ asking[t] # moved[t] /\ ran[asking[t]] = <<>>
        BY <1>4 DEF Supersede, OpensNew
      <4>3. actions' = actions
        BY <1>4 DEF Supersede
      <4> QED BY ONLY <2>2, <4>1, <4>2, <4>3 DEF Unrun
    <3>2. ~Answering' /\ \A u \in Threads : pc'[u] \notin {"fill", "check", "supersede"}
      BY <1>4 DEF Supersede, PromptsTypeOK, InFrame, AnswersWait
    <3> QED BY <1>4, <2>2, <3>1, <3>2 DEF Supersede, OnlyOnce
  <2> QED BY <2>3, <2>4, <2>5, <2>6, Zenon
<1>5. CASE Show(t)
  <2>1. PromptsTypeOK'
    BY <1>5 DEF Show, PromptsTypeOK, Covered
  <2>2. InFrame' /\ AnswersWait'
    BY <1>5 DEF Show, PromptsTypeOK, InFrame, AnswersWait
  <2>3. OpensNew'
    BY <1>5 DEF Show, PromptsTypeOK, OpensNew
  <2>4. OnlyOnce'
    BY <1>5 DEF Show, PromptsTypeOK, AnswersWait, OpensNew, OnlyOnce, Unrun
  <2> QED BY <2>1, <2>2, <2>3, <2>4, Zenon
<1>6. CASE FindPage(t, "leave", "hidePage", "out") \/ HidePage(t, "hidePage", "out")
  BY <1>6, PageKeeps
<1> QED BY <1>1, <1>2, <1>3, <1>4, <1>5, <1>6 DEF Opens

LEMMA ClosesKeep == ASSUME PromptsInv, NEW t \in Threads, Closes(t) PROVE PromptsInv'
<1> USE DEF PromptsInv, Goto, Proceed, UiFree, locks, prompt, user, Threads, Nobody, None, Choices,
            Ids, Pressed, Answering, Opening, Locked, Acting, Shutting, DropWaits, Downed
<1>1. CASE CloseLock(t)
  BY <1>1 DEF CloseLock, PromptsTypeOK, InFrame, AnswersWait, OpensNew, OnlyOnce, Unrun
<1>2. CASE CloseCheck(t) /\ ~shown
  <2>0. /\ pc[t] = "closeCheck" /\ pc' = [pc EXCEPT ![t] = "out"] /\ mutex = t /\ mutex' = Nobody
        /\ ~shown /\ UNCHANGED <<asked, ran, user, drawing, pressing, prompt, moved, asking, stage>>
    BY <1>2 DEF CloseCheck, PromptsTypeOK
  <2>1. PromptsTypeOK'
    BY <2>0 DEF PromptsTypeOK
  <2>2. InFrame' /\ AnswersWait'
    BY <2>0 DEF PromptsTypeOK, InFrame, AnswersWait
  <2>3. OpensNew'
    <3>1. \A u \in Threads : Opening(u)' => Opening(u) /\ ran'[asking[u]] = <<>> /\ pc'[u] = pc[u]
      BY <2>0 DEF PromptsTypeOK, OpensNew
    <3> QED BY ONLY PromptsInv, <2>0, <3>1, StaysNew DEF PromptsInv, Opening, prompt
  <2>4. OnlyOnce'
    BY <2>0 DEF PromptsTypeOK, OnlyOnce, Unrun
  <2> QED BY <2>1, <2>2, <2>3, <2>4, Zenon
<1>3. CASE CloseCheck(t) /\ shown
  <2> DEFINE p == actions["cancel"]
  <2>1. p \in Ids \cup {None} /\ Unrun(p) /\ Run(p, "cancel") /\ asked' = asked
    BY <1>3 DEF CloseCheck, PromptsTypeOK, InFrame, OnlyOnce
  <2>2. /\ ran' \in Seq(Seq(Choices)) /\ Len(ran') = Len(asked)
        /\ started' \in BOOLEAN /\ quit' \in BOOLEAN /\ dirty' \in BOOLEAN
        /\ \A q \in Ids : Len(ran'[q]) <= 1 /\ (q # p => ran'[q] = ran[q])
    BY <2>1, RunOnce
  <2> DEFINE place == IF Leaves(p) THEN "closeLeave" ELSE "closeHide"
  <2>0. /\ pc[t] = "closeCheck" /\ mutex = t /\ UiFree(t) /\ pc' = [pc EXCEPT ![t] = place]
        /\ UNCHANGED <<asked, locks, prompt, moved, asking, stage>>
    BY <1>3 DEF CloseCheck, PromptsTypeOK
  <2>3. PromptsTypeOK'
    BY <2>0, <2>2 DEF PromptsTypeOK
  <2>4. InFrame' /\ AnswersWait'
    <3>1. shown /\ (t = "main" => ~drawing)
      BY <1>3, <2>0
    <3> QED BY <2>0, <3>1 DEF PromptsTypeOK, InFrame, AnswersWait
  <2>5. OpensNew'
    <3>1. \A u \in Threads : Opening(u)' => /\ Opening(u) /\ u # t /\ pc[u] = "lock"
                                            /\ ran'[asking[u]] = <<>> /\ pc'[u] = "lock"
      BY <2>0, <2>2 DEF PromptsTypeOK, OpensNew
    <3> QED BY ONLY PromptsInv, <2>1, <2>0, <3>1, StaysNew DEF PromptsInv, Opening, prompt
  <2>6. OnlyOnce'
    <3>1. ~Answering' /\ \A u \in Threads : pc'[u] \notin {"fill", "check", "supersede"}
      BY <2>0 DEF PromptsTypeOK, InFrame
    <3>2. Shutting(t)' /\ asked' = asked
      BY <2>0 DEF PromptsTypeOK
    <3> QED BY <2>2, <3>1, <3>2 DEF OnlyOnce
  <2> QED BY <2>3, <2>4, <2>5, <2>6, Zenon
<1>4. CASE CloseHide(t)
  <2>1. PromptsTypeOK'
    BY <1>4 DEF CloseHide, PromptsTypeOK, Uncovered
  <2>2. InFrame' /\ AnswersWait'
    BY <1>4 DEF CloseHide, PromptsTypeOK, InFrame, AnswersWait
  <2>3. OpensNew' /\ OnlyOnce'
    BY <1>4 DEF CloseHide, PromptsTypeOK, OpensNew, OnlyOnce, Unrun
  <2> QED BY <2>1, <2>2, <2>3, Zenon
<1>5. CASE \/ FindPage(t, "closeLeave", "closePage", "closeHide")
           \/ HidePage(t, "closePage", "closeHide")
  BY <1>5, PageKeeps
<1> QED BY <1>1, <1>2, <1>3, <1>4, <1>5 DEF Closes

-----------------------------------------------------------------------------
\* The renderer's thread answers.
LEMMA AnswersKeep == ASSUME PromptsInv, Answers PROVE PromptsInv'
<1> USE DEF PromptsInv, Goto, locks, prompt, user, Threads, Nobody, None, Choices, Ids,
            Pressed, Answering, Opening, Locked, Acting, Shutting, DropWaits
<1>1. ASSUME NEW choice \in Choices, Answer(choice) PROVE PromptsInv'
  BY <1>1 DEF Answer, PromptsTypeOK, InFrame, AnswersWait, OpensNew, OnlyOnce, Unrun
<1>2. ASSUME NEW place \in {"confirmed", "cancelled"}, NEW choice \in Choices, Act(place, choice)
      PROVE  PromptsInv'
  <2>1. /\ moved["ui"] \in Ids \cup {None} /\ Unrun(moved["ui"])
        /\ Run(moved["ui"], choice) /\ asked' = asked
    BY <1>2 DEF Act, PromptsTypeOK, OnlyOnce
  <2>2. /\ ran' \in Seq(Seq(Choices)) /\ Len(ran') = Len(asked)
        /\ started' \in BOOLEAN /\ quit' \in BOOLEAN /\ dirty' \in BOOLEAN
        /\ \A q \in Ids : Len(ran'[q]) <= 1 /\ (q # moved["ui"] => ran'[q] = ran[q])
    BY <2>1, RunOnce
  <2>3. PromptsTypeOK'
    BY <1>2, <2>2 DEF Act, PromptsTypeOK
  <2>4. InFrame' /\ AnswersWait'
    BY <1>2 DEF Act, PromptsTypeOK, InFrame, AnswersWait
  <2>5. OpensNew'
    <3>0. /\ pc' = [pc EXCEPT !["ui"] = "hide"] /\ asked' = asked /\ asking' = asking
          /\ actions' = actions /\ \A u \in Threads : moved'[u] \in {moved[u], None}
      BY <1>2 DEF Act, PromptsTypeOK
    <3>1. \A u \in Threads : Opening(u)' => Opening(u) /\ ran'[asking[u]] = <<>> /\ pc'[u] = pc[u]
      <4> SUFFICES ASSUME NEW u \in Threads, Opening(u)'
                   PROVE  Opening(u) /\ ran'[asking[u]] = <<>> /\ pc'[u] = pc[u]
        OBVIOUS
      <4>1. pc'[u] = pc[u] /\ Opening(u)
        BY <3>0 DEF PromptsTypeOK
      <4>2. asking[u] \in Ids /\ asking[u] # moved["ui"] /\ ran[asking[u]] = <<>>
        BY <4>1 DEF OpensNew
      <4> QED BY ONLY <2>2, <4>1, <4>2
    <3> QED BY ONLY PromptsInv, <3>0, <3>1, StaysNew DEF PromptsInv, Opening
  <2>6. OnlyOnce'
    BY <1>2, <2>2 DEF Act, PromptsTypeOK, InFrame, AnswersWait, OpensNew, OnlyOnce, Unrun
  <2> QED BY <2>3, <2>4, <2>5, <2>6, Zenon
<1>3. CASE Hide
  <2>1. PromptsTypeOK'
    BY <1>3 DEF Hide, PromptsTypeOK, Uncovered
  <2>2. InFrame' /\ AnswersWait'
    BY <1>3 DEF Hide, PromptsTypeOK, InFrame, AnswersWait
  <2>3. OpensNew'
    <3>1. \A u \in Threads : Opening(u)' => Opening(u) /\ ran'[asking[u]] = <<>> /\ pc'[u] = pc[u]
      BY <1>3 DEF Hide, PromptsTypeOK, OpensNew
    <3> QED BY ONLY PromptsInv, <1>3, <3>1, StaysNew DEF PromptsInv, Opening, Hide
  <2>4. OnlyOnce'
    BY <1>3 DEF Hide, PromptsTypeOK, OnlyOnce, Unrun
  <2> QED BY <2>1, <2>2, <2>3, <2>4, Zenon
<1> QED BY <1>1, <1>2, <1>3 DEF Answers

\* drop_files, on either thread.
LEMMA InstallsKeep == ASSUME PromptsInv, NEW t \in Threads, Installs(t) PROVE PromptsInv'
<1> USE DEF PromptsInv, Enter
<1>0. t = "ui" /\ stage[t] # "none" => drawing
  BY DEF InFrame
<1>1. ASSUME stage[t] # "none", pc[t] = "out",
             NEW place \in {"none", "hideAll", "showPage", "opened", "notice"},
             stage' = [stage EXCEPT ![t] = place],
             stage[t] \in Downed <=> place \in Downed, stage[t] # "close",
             page' \in {"closed", "front", "behind"},
             UNCHANGED <<asked, ran, user, locks, shown, content, actions, moved, asking, pc>>
      PROVE  PromptsInv'
  <2>1. PromptsTypeOK' /\ InFrame'
    BY <1>0, <1>1 DEF PromptsTypeOK, InFrame, locks, user, Threads, Ids, Pressed, Locked
  <2>2. AnswersWait'
    BY <1>0, <1>1 DEF PromptsTypeOK, AnswersWait, Acting, Shutting, DropWaits, Downed, Answering, Threads
  <2>3. OpensNew' /\ OnlyOnce'
    BY <1>1 DEF OpensNew, OnlyOnce, Unrun, Ids, Answering, Opening, Shutting
  <2> QED BY <2>1, <2>2, <2>3
<1>2. CASE \/ LeaveTab(t, "tab", "hideAll") \/ LeaveTab(t, "opened", "notice")
           \/ LookForPage(t) \/ ShowPage(t)
  <2>1. page \in {"closed", "front", "behind"}
    BY DEF PromptsTypeOK
  <2> QED BY <1>0, <1>1, <1>2, <2>1, AskKeeps DEF LeaveTab, LookForPage, ShowPage, Kinds, Downed, prompt
<1>3. CASE Notify(t) \/ Report(t)
  <2>1. page \in {"closed", "front", "behind"}
    BY DEF PromptsTypeOK
  <2> QED BY <1>0, <1>1, <1>3, <2>1, AskKeeps DEF Notify, Report, Kinds, Downed, prompt
<1>4. CASE HideAll(t)
  <2> USE DEF HideAll, UiFree, locks, user, Threads
  <2>1. PromptsTypeOK'
    BY <1>4 DEF PromptsTypeOK, Ids, Locked
  <2>2. InFrame' /\ AnswersWait'
    BY <1>4 DEF PromptsTypeOK, InFrame, AnswersWait, Acting, Shutting, DropWaits, Downed, Pressed, Answering
  <2>3. OpensNew' /\ OnlyOnce'
    BY <1>4 DEF OpensNew, OnlyOnce, Unrun, Ids, Answering, Opening, Shutting
  <2> QED BY <2>1, <2>2, <2>3
<1> QED BY <1>2, <1>3, <1>4 DEF Installs

\* What the user does.
LEMMA UsesKeep == ASSUME PromptsInv, Uses PROVE PromptsInv'
<1> USE DEF PromptsInv, Idle
<1>0. page \in {"closed", "front", "behind"}
  BY DEF PromptsTypeOK
<1>1. ASSUME UNCHANGED <<asked, ran, locks, shown, content, actions, moved, asking, pc, stage>>,
             started' \in BOOLEAN, quit' \in BOOLEAN, dirty' \in BOOLEAN,
             page' \in {"closed", "front", "behind"}
      PROVE  PromptsInv'
  <2>1. PromptsTypeOK'
    BY <1>1 DEF PromptsTypeOK, locks, Ids, Locked
  <2> QED BY <1>1, <2>1 DEF InFrame, AnswersWait, OpensNew, OnlyOnce, Unrun, locks, Ids,
                            Pressed, Answering, Opening, Acting, Shutting, DropWaits
<1>2. CASE Edit \/ StartGame
  BY <1>0, <1>1, <1>2 DEF Edit, StartGame, PromptsTypeOK, prompt
<1>a. ASSUME NEW t \in Threads, AskToQuit(t), pc[t] = "out", t = "ui" => drawing PROVE PromptsInv'
  BY <1>0, <1>1, <1>a, AskKeeps DEF AskToQuit, Kinds, PromptsTypeOK
<1>b. CASE CloseWindow \/ PressQuit
  BY <1>a, <1>b DEF CloseWindow, PressQuit, OnPage, Threads
<1>c. CASE OpenPage \/ ClosePage \/ ChangeTab
  <2>1. drawing /\ pc["ui"] = "out" /\ "ui" \in Threads /\ stage' = stage
        /\ page' \in {"closed", "front", "behind"}
    BY <1>0, <1>c DEF OpenPage, ClosePage, ChangeTab, OnPage, Threads
  <2>2. CASE \E kind \in {"apply", "leave"} : Ask("ui", kind)
    BY <2>1, <2>2, AskKeeps DEF Kinds
  <2>3. CASE UNCHANGED <<asked, ran, user, locks, shown, content, actions, moved, asking, pc>>
    BY <1>1, <2>1, <2>3 DEF user, PromptsTypeOK
  <2> QED BY <1>c, <2>2, <2>3 DEF OpenPage, ClosePage, ChangeTab
<1>3. ASSUME NEW choice \in Choices, Press(choice) PROVE PromptsInv'
  <2> USE DEF Press, Goto, prompt, user, Threads, Choices, Nobody, None, Ids,
              Pressed, Answering, Opening, Locked, Acting, Shutting, DropWaits
  <2>1. PromptsTypeOK'
    BY <1>3 DEF PromptsTypeOK
  <2>2. InFrame' /\ AnswersWait'
    BY <1>3 DEF PromptsTypeOK, InFrame, AnswersWait
  <2>3. OpensNew'
    BY <1>3 DEF PromptsTypeOK, OpensNew
  <2>4. OnlyOnce'
    BY <1>3 DEF PromptsTypeOK, OnlyOnce, Unrun
  <2> QED BY <2>1, <2>2, <2>3, <2>4, Zenon
<1>4. ASSUME NEW t \in Threads, DropFiles(t) PROVE PromptsInv'
  <2> USE <1>4 DEF DropFiles, OnPage, Enter, Threads
  <2>1. PromptsTypeOK' /\ InFrame'
    BY DEF PromptsTypeOK, InFrame, locks, prompt, user, Ids, Pressed, Locked
  <2>2. AnswersWait'
    BY DEF PromptsTypeOK, AnswersWait, Acting, Shutting, DropWaits, Downed, prompt, Answering
  <2>3. OpensNew' /\ OnlyOnce'
    BY DEF OpensNew, OnlyOnce, Unrun, prompt, Ids, Answering, Opening, Shutting
  <2> QED BY <2>1, <2>2, <2>3
<1> QED BY <1>2, <1>b, <1>c, <1>3, <1>4 DEF Uses

LEMMA StepInv == PromptsInv /\ [Next]_vars => PromptsInv'
<1> SUFFICES ASSUME PromptsInv, [Next]_vars PROVE PromptsInv'
  OBVIOUS
<1>1. ASSUME NEW t \in Threads, ThreadSteps(t) PROVE PromptsInv'
  BY <1>1, OpensKeep, ClosesKeep, InstallsKeep DEF ThreadSteps
<1>2. CASE BeginDraw \/ EndDraw
  <2>1. /\ drawing' \in BOOLEAN /\ (drawing' \/ Idle("ui"))
        /\ UNCHANGED <<asked, ran, user, mutex, pressing, prompt, moved, asking, pc, stage>>
    BY <1>2 DEF BeginDraw, EndDraw
  <2>2. PromptsTypeOK' /\ InFrame'
    BY <2>1 DEF PromptsInv, PromptsTypeOK, InFrame, Idle, prompt, user, Ids, Pressed, Locked
  <2>3. AnswersWait' /\ OpensNew' /\ OnlyOnce'
    BY <2>1 DEF PromptsInv, AnswersWait, OpensNew, OnlyOnce, Unrun, prompt, Ids, Answering, Opening,
                Acting, Shutting, DropWaits
  <2> QED BY <2>2, <2>3 DEF PromptsInv
<1>3. CASE UNCHANGED vars
  BY <1>3 DEF vars, PromptsInv, PromptsTypeOK, InFrame, AnswersWait, OpensNew, OnlyOnce, Unrun,
        locks, prompt, user, Ids, Pressed, Answering, Opening, Locked, Acting, Shutting, DropWaits
<1> QED BY <1>1, <1>2, <1>3, AnswersKeep, UsesKeep DEF Next, Frames, Threads

LEMMA Inductive == Spec => []PromptsInv
  BY InitInv, StepInv, PTL DEF Spec

-----------------------------------------------------------------------------
\* The state is well typed and prompt_state.mutex is held exactly inside the operations.
THEOREM PromptsTypeCorrect == Spec => []PromptsTypeOK
  BY Inductive, PTL DEF PromptsInv

\* Of a prompt's actions at most one ever runs: a superseding prompt and close_prompt call the
\* cancel action only of a prompt that is still shown, and an answer takes the frame lock.
THEOREM PromptsAnsweredOnce == Spec => []AnsweredOnce
<1>1. PromptsInv => AnsweredOnce
  BY DEF PromptsInv, OnlyOnce, AnsweredOnce
<1> QED BY Inductive, <1>1, PTL

\* What is_context_shown answered still holds when the context is shown or hidden.
THEOREM PromptsShownOnce == Spec => []ShownOnce
<1>1. PromptsInv => ShownOnce
  BY DEF PromptsInv, PromptsTypeOK, InFrame, AnswersWait, Acting, Shutting, DropWaits, Downed,
        ShownOnce, UiFree, Pressed, Threads
<1> QED BY Inductive, <1>1, PTL

-----------------------------------------------------------------------------
\* What is on the screen, and what became of the question that was there.

LiveActs == \A c \in Choices : actions[c] = ActionOf(content, c)
Filling  == \E t \in Threads : pc[t] = "fill" \/ Shutting(t)
Filled(t) == pc[t] \in {"check", "supersede", "show"}

\* Somebody is about to put a prompt where the one on the screen is.
Replacing == \E t \in Threads : stage[t] \in Downed \/ Opening(t)

\* The last prompt asks something and was never answered.
Owes == content # None /\ Acts(asked[content]) # {} /\ ran[content] = <<>>

\* The prompt on the screen is unanswered and has its own actions.
OnScreen == shown /\ ~Answering /\ ~Filling => content \in Ids /\ ran[content] = <<>> /\ LiveActs

\* So is the one that was just filled in.
FilledIn == \A t \in Threads : Filled(t) => content = asking[t] /\ LiveActs

\* The renderer's thread presses a button or goes through drop_files, not both.
OneThing == /\ pc["ui"] \in Pressed => stage["ui"] = "none"

\* An answer that was taken out is that of the prompt on the screen.
Taken == \A c \in Choices : pc["ui"] = (IF c = "confirm" THEN "confirmed" ELSE "cancelled") =>
            Replacing \/ (content # None /\ moved["ui"] = ActionOf(content, c))

\* Nothing is taken off the screen before it was answered.
Kept == /\ pc["ui"] = "hide" \/ ~shown => Replacing \/ ~Owes
        /\ \A t \in Threads : Shutting(t) => ~Owes

PromptsLive == OnScreen /\ FilledIn /\ OneThing /\ Taken /\ Kept

LEMMA InitLive == Init => PromptsLive
BY DEF Init, Shutting, PromptsLive, OnScreen, FilledIn, OneThing, Taken, Kept, Filled, Owes, Pressed, Answering,
       Threads, Choices, None

\* Asking: from here on the prompt on the screen is about to be replaced.
LEMMA AskLive ==
    ASSUME PromptsInv, PromptsLive, NEW t \in Threads, NEW kind \in Kinds, Ask(t, kind),
           pc[t] = "out", \A u \in Threads \ {t} : stage'[u] = stage[u]
    PROVE  PromptsLive'
<1> USE DEF Shutting
<1>1. /\ pc' = [pc EXCEPT ![t] = "lock"] /\ asked' = Append(asked, kind)
      /\ asking' = [asking EXCEPT ![t] = Len(asked) + 1]
      /\ ran' = Append(ran, <<>>)
      /\ shown' = shown /\ content' = content /\ actions' = actions /\ moved' = moved
  BY DEF Ask, Goto
<1>2. /\ pc'[t] = "lock" /\ \A u \in Threads \ {t} : pc'[u] = pc[u]
      /\ \A u \in Threads \ {t} : asking'[u] = asking[u]
  BY <1>1 DEF PromptsInv, PromptsTypeOK
<1>3. \A p \in Ids : /\ p \in Ids' /\ asked'[p] = asked[p] /\ p # None /\ ran'[p] = ran[p]
                     /\ \A c \in Choices : ActionOf(p, c)' = ActionOf(p, c)
  BY <1>1 DEF PromptsInv, PromptsTypeOK, Ids, None, ActionOf
<1>4. Replacing'
  BY <1>2 DEF Replacing, Opening
<1>5. content \in Ids \cup {None} /\ \A u \in Threads : Filled(u) => asking[u] \in Ids
  BY DEF PromptsInv, PromptsTypeOK, OpensNew, Opening, Filled
<1>6. OnScreen'
  BY <1>1, <1>2, <1>3 DEF PromptsLive, OnScreen, LiveActs, Answering, Filling, Threads
<1>7. FilledIn'
  BY <1>1, <1>2, <1>3, <1>5 DEF PromptsLive, FilledIn, LiveActs, Filled
<1>8. OneThing'
  BY <1>1, <1>2 DEF PromptsLive, OneThing, Pressed, Threads
<1>9. Taken' /\ Kept'
  BY <1>1, <1>2, <1>3, <1>4, <1>5 DEF PromptsLive, Taken, Kept, Owes, None
<1> QED BY <1>6, <1>7, <1>8, <1>9 DEF PromptsLive

\* A step that leaves the screen and the history alone.
LEMMA SameLive ==
    ASSUME PromptsInv, PromptsLive,
           UNCHANGED <<asked, ran, shown, content, actions, moved, asking, pc>>,
           Replacing => Replacing', pc["ui"] \in Pressed => stage'["ui"] = stage["ui"]
    PROVE  PromptsLive'
<1>1. (LiveActs' <=> LiveActs) /\ (Owes' <=> Owes) /\ (Filling' <=> Filling)
  BY DEF LiveActs, ActionOf, Owes, Filling, Shutting
<1>2. OnScreen' /\ FilledIn' /\ OneThing'
  BY <1>1 DEF PromptsLive, OnScreen, FilledIn, OneThing, Filled, Answering, Ids
<1>3. Taken'
  BY DEF PromptsLive, Taken, ActionOf
<1>4. Kept'
  BY <1>1 DEF PromptsLive, Kept, Shutting
<1> QED BY <1>2, <1>3, <1>4 DEF PromptsLive

\* Opening a prompt.
\* The rest of an action that closes the page.
LEMMA PageLive ==
    ASSUME PromptsInv, PromptsLive, NEW t \in Threads,
           NEW at, NEW hides, NEW next,
           <<at, hides, next>> \in {<<"leave", "hidePage", "out">>,
                                    <<"closeLeave", "closePage", "closeHide">>},
           FindPage(t, at, hides, next) \/ HidePage(t, hides, next)
    PROVE  PromptsLive'
<1>1. /\ pc[t] \in {at, hides}
      /\ \E place \in {hides, next} : pc' = [pc EXCEPT ![t] = place]
      /\ UNCHANGED <<asked, ran, shown, content, actions, moved, asking, stage>>
  BY DEF FindPage, HidePage, Proceed, Goto, prompt
<1>2. /\ pc'[t] \in {hides, next} /\ \A u \in Threads \ {t} : pc'[u] = pc[u]
  BY <1>1 DEF PromptsInv, PromptsTypeOK
<1>3. /\ (LiveActs' <=> LiveActs) /\ (Owes' <=> Owes) /\ (Replacing' <=> Replacing)
      /\ (Answering' <=> Answering) /\ (Filling' <=> Filling)
      /\ \A u \in Threads : (Filled(u)' <=> Filled(u)) /\ (Shutting(u)' <=> Shutting(u))
  BY <1>1, <1>2 DEF LiveActs, ActionOf, Owes, Replacing, Opening, Answering, Filling, Filled, Shutting
<1>4. OnScreen' /\ FilledIn'
  BY <1>1, <1>3 DEF PromptsLive, OnScreen, FilledIn, Ids
<1>5. OneThing' /\ Taken' /\ Kept'
  BY <1>1, <1>2, <1>3 DEF PromptsLive, OneThing, Taken, Kept, ActionOf, Pressed, Threads, Choices
<1> QED BY <1>4, <1>5 DEF PromptsLive

LEMMA OpensLive == ASSUME PromptsInv, PromptsLive, NEW t \in Threads, Opens(t) PROVE PromptsLive'
<1> USE DEF Shutting
<1>1. CASE Lock(t)
  <2>1. /\ pc[t] = "lock" /\ pc' = [pc EXCEPT ![t] = "fill"] /\ mutex = Nobody
        /\ UNCHANGED <<asked, ran, shown, content, asking, stage>>
        /\ \A u \in Threads \ {t} : moved'[u] = moved[u]
    BY <1>1 DEF Lock, Goto, PromptsInv, PromptsTypeOK
  <2>2. \A u \in Threads : ~Filled(u) /\ ~Filled(u)' /\ ~Shutting(u)'
    BY <2>1 DEF PromptsInv, PromptsTypeOK, Locked, Filled, Nobody, Threads
  <2>3. pc'[t] = "fill" /\ \A u \in Threads \ {t} : pc'[u] = pc[u]
    BY <2>1 DEF PromptsInv, PromptsTypeOK
  <2>4. Replacing' /\ Filling'
    BY <2>3 DEF Replacing, Opening, Filling
  <2> QED BY <2>1, <2>2, <2>3, <2>4
          DEF PromptsLive, OnScreen, FilledIn, OneThing, Taken, Kept, Threads, Pressed
<1>2. CASE Fill(t)
  <2>1. /\ pc[t] = "fill" /\ pc' = [pc EXCEPT ![t] = "check"] /\ mutex = t
        /\ content' = asking[t] /\ actions' = [c \in Choices |-> ActionOf(asking[t], c)]
        /\ UNCHANGED <<asked, ran, shown, moved, asking, stage>>
    BY <1>2 DEF Fill, Goto, PromptsInv, PromptsTypeOK, Locked
  <2>2. asking[t] \in Ids /\ ran[asking[t]] = <<>>
    BY <2>1 DEF PromptsInv, OpensNew, Opening
  <2>3. LiveActs'
    BY <2>1 DEF LiveActs, ActionOf
  <2>4. pc'[t] = "check" /\ \A u \in Threads \ {t} : pc'[u] = pc[u]
    BY <2>1 DEF PromptsInv, PromptsTypeOK
  <2>5. \A u \in Threads : ~Shutting(u)' /\ (Filled(u)' => u = t)
    BY <2>1, <2>4 DEF PromptsInv, PromptsTypeOK, Locked, Filled
  <2>6. Replacing'
    BY <2>4 DEF Replacing, Opening
  <2>7. content' \in Ids'
    BY <2>1, <2>2 DEF Ids
  <2> QED BY <2>1, <2>2, <2>3, <2>4, <2>5, <2>6, <2>7
          DEF PromptsLive, OnScreen, FilledIn, OneThing, Taken, Kept, Threads, Pressed
<1>3. CASE Check(t)
  <2>1. /\ pc[t] = "check" /\ mutex = t /\ (t = "main" => ~drawing)
        /\ pc' = [pc EXCEPT ![t] = IF shown THEN "supersede" ELSE "show"]
        /\ UNCHANGED <<asked, ran, shown, content, actions, moved, asking, stage>>
    BY <1>3 DEF Check, Goto, UiFree, prompt, PromptsInv, PromptsTypeOK, Locked, Threads
  <2>2. /\ pc'[t] = (IF shown THEN "supersede" ELSE "show")
        /\ \A u \in Threads \ {t} : pc'[u] = pc[u]
    BY <2>1 DEF PromptsInv, PromptsTypeOK
  <2>3. Replacing' /\ Filled(t) /\ \A u \in Threads : Filled(u)' => Filled(u)
    BY <2>1, <2>2 DEF Replacing, Opening, Filled
  <2>4. LiveActs' <=> LiveActs
    BY <2>1 DEF LiveActs, ActionOf
  <2>5. (Answering' <=> Answering) /\ (Filling' <=> Filling)
    BY <2>1, <2>2 DEF Answering, Filling
  <2>6. \A u \in Threads : ~Shutting(u)'
    BY <2>1, <2>2 DEF PromptsInv, PromptsTypeOK, Locked
  <2>7. OnScreen' /\ FilledIn'
    BY <2>1, <2>3, <2>4, <2>5 DEF PromptsLive, OnScreen, FilledIn, Ids
  <2> QED BY <2>1, <2>2, <2>3, <2>6, <2>7 DEF PromptsLive, OneThing, Taken, Kept, Threads, Pressed
<1>4. CASE Supersede(t)
  <2>1. /\ pc[t] = "supersede" /\ mutex = t /\ Run(moved[t], "cancel")
        /\ pc' = [pc EXCEPT ![t] = IF Leaves(moved[t]) THEN "leave" ELSE "out"]
        /\ UNCHANGED <<asked, shown, content, actions, asking, stage>>
        /\ \A u \in Threads \ {t} : moved'[u] = moved[u]
    BY <1>4 DEF Supersede, Proceed, Goto, prompt, PromptsInv, PromptsTypeOK, Locked
  <2>2. moved[t] \in Ids \cup {None} /\ Unrun(moved[t])
    BY <2>1 DEF PromptsInv, PromptsTypeOK, OnlyOnce
  <2>3. \A q \in Ids : q # moved[t] => ran'[q] = ran[q]
    BY <2>1, <2>2, RunOnce DEF Choices
  <2>4. /\ content = asking[t] /\ LiveActs /\ content \in Ids
        /\ content # moved[t] /\ ran[content] = <<>>
    BY <2>1 DEF PromptsInv, PromptsLive, FilledIn, Filled, OpensNew, Opening
  <2>5. ran'[content'] = <<>> /\ content' \in Ids' /\ LiveActs'
    BY <2>1, <2>3, <2>4 DEF LiveActs, ActionOf, Ids
  <2>6. pc'[t] \in {"leave", "out"} /\ \A u \in Threads \ {t} : pc'[u] = pc[u] /\ ~Locked(u)
    BY <2>1 DEF PromptsInv, PromptsTypeOK
  <2>7. shown' \/ Replacing'
    BY <2>1, <2>6 DEF PromptsInv, AnswersWait, Acting, DropWaits, Replacing, Opening, Threads
  <2>8. \A u \in Threads : ~Filled(u)' /\ ~Shutting(u)'
    BY <2>6 DEF Filled, Locked
  <2>9. pc'["ui"] \notin {"confirmed", "cancelled", "hide"}
    BY <2>1, <2>6 DEF PromptsInv, AnswersWait, Acting, Answering, Threads
  <2> QED BY <2>1, <2>5, <2>6, <2>7, <2>8, <2>9
          DEF PromptsLive, OnScreen, FilledIn, OneThing, Taken, Kept, Threads, Pressed, Choices
<1>5. CASE Show(t)
  <2>1. /\ pc[t] = "show" /\ mutex = t /\ shown' = TRUE /\ pc' = [pc EXCEPT ![t] = "out"]
        /\ UNCHANGED <<asked, ran, content, actions, asking, stage>>
    BY <1>5 DEF Show, Goto, PromptsInv, PromptsTypeOK, Locked
  <2>2. content = asking[t] /\ LiveActs /\ content \in Ids /\ ran[content] = <<>> /\ ~Answering
    BY <2>1 DEF PromptsInv, PromptsLive, FilledIn, Filled, OpensNew, Opening, AnswersWait
  <2>3. ran'[content'] = <<>> /\ content' \in Ids' /\ LiveActs'
    BY <2>1, <2>2 DEF LiveActs, ActionOf, Ids
  <2>4. pc'[t] = "out" /\ \A u \in Threads \ {t} : pc'[u] = pc[u] /\ ~Locked(u)
    BY <2>1 DEF PromptsInv, PromptsTypeOK
  <2>5. \A u \in Threads : ~Filled(u)' /\ ~Shutting(u)'
    BY <2>4 DEF Filled, Locked
  <2>6. pc'["ui"] \notin {"confirmed", "cancelled", "hide"}
    BY <2>1, <2>2, <2>4 DEF Answering, Threads
  <2> QED BY <2>1, <2>3, <2>4, <2>5, <2>6
          DEF PromptsLive, OnScreen, FilledIn, OneThing, Taken, Kept, Threads, Pressed, Choices
<1>6. CASE FindPage(t, "leave", "hidePage", "out") \/ HidePage(t, "hidePage", "out")
  BY <1>6, PageLive
<1> QED BY <1>1, <1>2, <1>3, <1>4, <1>5, <1>6 DEF Opens

\* close_prompt answers what it takes off the screen.
LEMMA ClosesLive == ASSUME PromptsInv, PromptsLive, NEW t \in Threads, Closes(t) PROVE PromptsLive'
<1> USE DEF Shutting
<1>1. CASE CloseLock(t)
  <2>1. /\ pc[t] = "out" /\ stage[t] = "close" /\ pc' = [pc EXCEPT ![t] = "closeCheck"]
        /\ stage' = [stage EXCEPT ![t] = "report"]
        /\ UNCHANGED <<asked, ran, shown, content, actions, moved, asking>>
    BY <1>1 DEF CloseLock, Goto, prompt
  <2>2. /\ pc'[t] = "closeCheck" /\ stage'[t] = "report"
        /\ \A u \in Threads \ {t} : pc'[u] = pc[u] /\ stage'[u] = stage[u]
    BY <2>1 DEF PromptsInv, PromptsTypeOK
  <2>3. /\ (LiveActs' <=> LiveActs) /\ (Owes' <=> Owes) /\ (Replacing => Replacing')
        /\ (Answering' <=> Answering) /\ (Filling' <=> Filling)
    BY <2>1, <2>2 DEF LiveActs, ActionOf, Owes, Replacing, Opening, Downed, Answering, Filling
  <2>4. OnScreen'
    BY <2>1, <2>3 DEF PromptsLive, OnScreen, Ids
  <2>5. FilledIn' /\ OneThing'
    BY <2>1, <2>2, <2>3 DEF PromptsLive, FilledIn, OneThing, Filled, Pressed, Threads
  <2>6. Taken'
    BY <2>1, <2>2, <2>3 DEF PromptsLive, Taken, ActionOf, Choices, Threads
  <2>7. Kept'
    BY <2>1, <2>2, <2>3 DEF PromptsLive, Kept, Threads
  <2> QED BY <2>4, <2>5, <2>6, <2>7 DEF PromptsLive
<1>2. CASE CloseCheck(t) /\ ~shown
  <2>1. /\ pc[t] = "closeCheck" /\ pc' = [pc EXCEPT ![t] = "out"]
        /\ UNCHANGED <<asked, ran, shown, content, actions, moved, asking, stage>>
    BY <1>2 DEF CloseCheck, Proceed, Goto, prompt
  <2>2. pc'[t] = "out" /\ \A u \in Threads \ {t} : pc'[u] = pc[u]
    BY <2>1 DEF PromptsInv, PromptsTypeOK
  <2>3. /\ (LiveActs' <=> LiveActs) /\ (Owes' <=> Owes) /\ (Replacing => Replacing')
        /\ (Answering' <=> Answering) /\ (Filling' <=> Filling)
    BY <2>1, <2>2 DEF LiveActs, ActionOf, Owes, Replacing, Opening, Downed, Answering, Filling
  <2>4. OnScreen'
    BY <2>1, <2>3 DEF PromptsLive, OnScreen, Ids
  <2>5. FilledIn' /\ OneThing'
    BY <2>1, <2>2, <2>3 DEF PromptsLive, FilledIn, OneThing, Filled, Pressed, Threads
  <2>6. Taken'
    BY <2>1, <2>2, <2>3 DEF PromptsLive, Taken, ActionOf, Choices, Threads
  <2>7. Kept'
    BY <2>1, <2>2, <2>3 DEF PromptsLive, Kept, Threads
  <2> QED BY <2>4, <2>5, <2>6, <2>7 DEF PromptsLive
<1>3. CASE CloseCheck(t) /\ shown
  <2> DEFINE place == IF Leaves(actions["cancel"]) THEN "closeLeave" ELSE "closeHide"
  <2>1. /\ pc[t] = "closeCheck" /\ mutex = t /\ (t = "main" => ~drawing) /\ shown
        /\ Run(actions["cancel"], "cancel") /\ pc' = [pc EXCEPT ![t] = place]
        /\ UNCHANGED <<asked, shown, content, actions, moved, asking, stage>>
    BY <1>3 DEF CloseCheck, Proceed, Goto, UiFree, prompt, PromptsInv, PromptsTypeOK, Locked, Threads
  <2>2. /\ \A u \in Threads \ {t} : pc'[u] = pc[u] /\ ~Locked(u)
        /\ pc'[t] \in {"closeLeave", "closeHide"}
    BY <2>1 DEF PromptsInv, PromptsTypeOK
  <2>3. ~Answering /\ ~Filling
    BY <2>1, <2>2 DEF PromptsInv, InFrame, Answering, Filling, Locked, Threads
  <2>4. content \in Ids /\ ran[content] = <<>> /\ LiveActs
    BY <2>1, <2>3 DEF PromptsLive, OnScreen
  <2>5. ~Owes'
    <3>1. CASE Acts(asked[content]) = {}
      BY <2>1, <3>1 DEF Owes
    <3>2. CASE Acts(asked[content]) # {}
      <4>1. actions["cancel"] = content /\ content # None
        BY <2>4, <3>2 DEF LiveActs, ActionOf, Acts, Choices, Ids, None
      <4>2. ran' = [ran EXCEPT ![content] = Append(@, "cancel")]
        BY <2>1, <4>1 DEF Run
      <4>3. /\ content \in 1 .. Len(ran) /\ ran \in Seq(Seq(Choices)) /\ "cancel" \in Choices
            /\ ran[content] = <<>>
        BY <2>4 DEF PromptsInv, PromptsTypeOK, Ids, Choices
      <4>4. ran'[content] # <<>>
        BY ONLY <4>2, <4>3
      <4>5. content' = content
        BY <2>1
      <4> QED BY ONLY <4>4, <4>5 DEF Owes
    <3> QED BY <3>1, <3>2
  <2>6. \A u \in Threads : ~Filled(u)' /\ pc'[u] \notin {"confirmed", "cancelled", "hide"}
    BY <2>2, <2>3 DEF Filled, Locked, Answering, Threads, PromptsInv, InFrame, Pressed
  <2>7. Filling'
    BY <2>2 DEF Filling
  <2>8. OneThing'
    BY <2>1, <2>2 DEF PromptsLive, OneThing, Pressed, Threads
  <2> QED BY <2>1, <2>5, <2>6, <2>7, <2>8
          DEF PromptsLive, OnScreen, FilledIn, Taken, Kept, Threads, Choices
<1>4. CASE CloseHide(t)
  <2>1. /\ pc[t] = "closeHide" /\ mutex = t /\ (t = "main" => ~drawing) /\ ~shown'
        /\ pc' = [pc EXCEPT ![t] = "out"]
        /\ UNCHANGED <<asked, ran, content, actions, moved, asking, stage>>
    BY <1>4 DEF CloseHide, Goto, UiFree, prompt, PromptsInv, PromptsTypeOK, Locked, Threads
  <2>2. /\ \A u \in Threads \ {t} : pc'[u] = pc[u] /\ ~Locked(u)
        /\ pc'[t] = "out"
    BY <2>1 DEF PromptsInv, PromptsTypeOK
  <2>3. ~Owes /\ (Owes' <=> Owes)
    BY <2>1 DEF PromptsLive, Kept, Owes
  <2>4. \A u \in Threads : ~Filled(u)' /\ ~Shutting(u)' /\ pc'[u] \notin Pressed
    BY <2>1, <2>2 DEF Filled, Locked, Threads, PromptsInv, InFrame, Pressed
  <2>5. OnScreen' /\ FilledIn' /\ Kept'
    BY <2>1, <2>3, <2>4 DEF OnScreen, FilledIn, Kept
  <2>6. OneThing' /\ Taken'
    BY <2>4 DEF OneThing, Taken, Filled, Pressed, Threads
  <2> QED BY <2>5, <2>6 DEF PromptsLive
<1>5. CASE \/ FindPage(t, "closeLeave", "closePage", "closeHide")
           \/ HidePage(t, "closePage", "closeHide")
  BY <1>5, PageLive
<1> QED BY <1>1, <1>2, <1>3, <1>4, <1>5 DEF Closes

\* The renderer's thread answers.
LEMMA AnswersLive == ASSUME PromptsInv, PromptsLive, Answers PROVE PromptsLive'
<1> USE DEF Shutting
<1>1. ASSUME NEW choice \in Choices, Answer(choice) PROVE PromptsLive'
  <2> DEFINE place == IF choice = "confirm" THEN "confirmed" ELSE "cancelled"
  <2>1. /\ pc["ui"] = choice /\ mutex = Nobody /\ shown /\ pc' = [pc EXCEPT !["ui"] = place]
        /\ moved' = [moved EXCEPT !["ui"] = actions[choice]]
        /\ UNCHANGED <<asked, ran, shown, content, asking, stage>>
    BY <1>1 DEF Answer, Goto, Choices, PromptsInv, InFrame, Pressed
  <2>2. pc'["ui"] = place /\ pc'["main"] = pc["main"] /\ moved'["ui"] = actions[choice]
    BY <2>1 DEF PromptsInv, PromptsTypeOK, Threads
  <2>3. \A u \in Threads : ~Locked(u)
    BY <2>1 DEF PromptsInv, PromptsTypeOK, Nobody, Threads
  <2>4. ~Answering /\ ~Filling
    BY <2>1, <2>3 DEF Answering, Filling, Locked, Choices
  <2>5. content \in Ids /\ content # None /\ actions[choice] = ActionOf(content, choice)
    BY <2>1, <2>4 DEF PromptsLive, OnScreen, LiveActs, Ids, None
  <2>6. \A u \in Threads : ~Filled(u)' /\ ~Shutting(u)'
    BY <2>2, <2>3 DEF Filled, Locked, Threads
  <2>7. Answering' /\ pc'["ui"] # "hide"
    BY <2>2 DEF Answering
  <2>8. OnScreen' /\ FilledIn' /\ Kept'
    BY <2>1, <2>6, <2>7 DEF OnScreen, FilledIn, Kept
  <2>9. OneThing'
    BY <2>1, <2>2 DEF PromptsLive, OneThing, Pressed, Choices
  <2>10. Taken'
    BY <2>1, <2>2, <2>5 DEF Taken, ActionOf, Choices
  <2> QED BY <2>8, <2>9, <2>10 DEF PromptsLive
<1>2. ASSUME NEW choice \in Choices,
             Act(IF choice = "confirm" THEN "confirmed" ELSE "cancelled", choice)
      PROVE  PromptsLive'
  <2> DEFINE place == IF choice = "confirm" THEN "confirmed" ELSE "cancelled"
  <2>1. /\ pc["ui"] = place /\ Run(moved["ui"], choice) /\ pc' = [pc EXCEPT !["ui"] = "hide"]
        /\ UNCHANGED <<asked, shown, content, actions, asking, stage>>
    BY <1>2 DEF Act, Goto, prompt
  <2>2. pc'["ui"] = "hide" /\ pc'["main"] = pc["main"]
    BY <2>1 DEF PromptsInv, PromptsTypeOK, Threads
  <2>3. Answering /\ Answering' /\ shown /\ pc["ui"] \in Pressed
    BY <2>1, <2>2 DEF Answering, PromptsInv, InFrame, Pressed
  <2>4. moved["ui"] \in Ids \cup {None} /\ Unrun(moved["ui"])
    BY <2>1 DEF PromptsInv, PromptsTypeOK, OnlyOnce, Threads
  <2>5. Replacing \/ (content # None /\ moved["ui"] = ActionOf(content, choice))
    BY <2>1 DEF PromptsLive, Taken
  <2>6. Replacing => Replacing'
    BY <2>1, <2>2 DEF Replacing, Opening, Threads
  <2>7. Replacing' \/ ~Owes'
    <3>1. CASE Replacing
      BY <2>6, <3>1
    <3>2. CASE Acts(asked[content]) = {}
      BY <2>1, <3>2 DEF Owes
    <3>3. CASE ~Replacing /\ Acts(asked[content]) # {}
      <4>1. moved["ui"] = content /\ content # None /\ content \in Ids
        BY <2>4, <2>5, <3>3 DEF ActionOf, Acts, Choices
      <4>2. ran' = [ran EXCEPT ![content] = Append(@, choice)]
        BY <2>1, <4>1 DEF Run
      <4>3. /\ content \in 1 .. Len(ran) /\ ran \in Seq(Seq(Choices)) /\ choice \in Choices
            /\ ran[content] = <<>>
        BY <2>4, <4>1 DEF PromptsInv, PromptsTypeOK, Ids, Unrun
      <4>4. ran'[content] # <<>>
        BY ONLY <4>2, <4>3
      <4>5. content' = content
        BY <2>1
      <4> QED BY ONLY <4>4, <4>5 DEF Owes
    <3> QED BY <3>1, <3>2, <3>3
  <2>8. \A u \in Threads : ~Shutting(u)' /\ pc'[u] # "show" /\ (pc'[u] = "supersede" => FALSE)
    BY <2>2, <2>3 DEF PromptsInv, InFrame, AnswersWait, Acting, Threads
  <2>9. FilledIn'
    BY <2>1, <2>2 DEF PromptsLive, FilledIn, Filled, LiveActs, ActionOf, Threads
  <2>10. OneThing'
    BY <2>1, <2>2, <2>3 DEF PromptsLive, OneThing
  <2>11. Taken'
    BY <2>2 DEF Taken
  <2> QED BY <2>3, <2>7, <2>8, <2>9, <2>10, <2>11 DEF PromptsLive, OnScreen, Kept
<1>3. CASE Hide
  <2>1. /\ pc["ui"] = "hide" /\ shown' = FALSE /\ pc' = [pc EXCEPT !["ui"] = "out"]
        /\ UNCHANGED <<asked, ran, content, actions, moved, asking, stage>>
    BY <1>3 DEF Hide, Goto
  <2>2. pc'["ui"] = "out" /\ pc'["main"] = pc["main"]
    BY <2>1 DEF PromptsInv, PromptsTypeOK, Threads
  <2>3. (Replacing => Replacing') /\ (Owes' <=> Owes)
    BY <2>1, <2>2 DEF Replacing, Opening, Owes, Threads
  <2>4. \A u \in Threads : ~Shutting(u)'
    BY <2>1, <2>2 DEF PromptsInv, AnswersWait, Acting, Answering, Threads
  <2>5. OnScreen' /\ Kept'
    BY <2>1, <2>3, <2>4 DEF PromptsLive, OnScreen, Kept
  <2>6. FilledIn'
    BY <2>1, <2>2 DEF PromptsLive, FilledIn, Filled, LiveActs, ActionOf, Threads
  <2>7. OneThing' /\ Taken'
    BY <2>2 DEF OneThing, Taken, Pressed
  <2> QED BY <2>5, <2>6, <2>7 DEF PromptsLive
<1>4. Act("confirmed", "confirm") \/ Act("cancelled", "cancel") => PromptsLive'
  BY <1>2 DEF Choices
<1> QED BY <1>1, <1>3, <1>4 DEF Answers

\* drop_files hides what is shown only to put the notice in its place.
LEMMA InstallsLive == ASSUME PromptsInv, PromptsLive, NEW t \in Threads, Installs(t) PROVE PromptsLive'
<1> USE DEF Shutting
<1>1. ASSUME NEW place, pc[t] = "out", stage' = [stage EXCEPT ![t] = place]
      PROVE  \A u \in Threads \ {t} : stage'[u] = stage[u]
  BY <1>1 DEF PromptsInv, PromptsTypeOK
<1>2. ASSUME NEW place, Enter(t, place), place \in Downed \/ stage[t] \notin Downed,
             UNCHANGED <<asked, ran, shown, content, actions, moved, asking, pc>>
      PROVE  PromptsLive'
  <2>1. stage'[t] = place /\ \A u \in Threads \ {t} : stage'[u] = stage[u]
    BY <1>2 DEF Enter, PromptsInv, PromptsTypeOK
  <2>2. Replacing => Replacing'
    BY <1>2, <2>1 DEF Replacing, Opening
  <2>3. pc["ui"] \in Pressed => stage'["ui"] = stage["ui"]
    BY <1>2, <2>1 DEF Enter, Pressed, Threads
  <2> QED BY <1>2, <2>2, <2>3, SameLive
<1>3. CASE \/ LeaveTab(t, "tab", "hideAll") \/ LeaveTab(t, "opened", "notice")
           \/ LookForPage(t) \/ ShowPage(t)
  BY <1>1, <1>2, <1>3, AskLive DEF LeaveTab, LookForPage, ShowPage, Enter, Kinds, Downed, prompt, locks
<1>4. CASE Notify(t) \/ Report(t)
  BY <1>1, <1>2, <1>4, AskLive DEF Notify, Report, Enter, Kinds, Downed, prompt, locks
<1>5. CASE HideAll(t)
  <2>1. /\ stage[t] = "hideAll" /\ pc[t] = "out" /\ (t = "main" => ~drawing) /\ shown' = FALSE
        /\ stage' = [stage EXCEPT ![t] = "open"]
        /\ UNCHANGED <<asked, ran, content, actions, moved, asking, pc>>
    BY <1>5 DEF HideAll, Enter, UiFree, Threads
  <2>2. stage'[t] = "open"
    BY <2>1 DEF PromptsInv, PromptsTypeOK
  <2>3. Replacing' /\ (Owes' <=> Owes)
    BY <2>1, <2>2 DEF Replacing, Downed, Owes
  <2>4. pc["ui"] = "out"
    BY <2>1 DEF PromptsInv, InFrame, Threads
  <2>5. OnScreen' /\ Kept'
    BY <2>1, <2>3 DEF PromptsLive, OnScreen, Kept
  <2>6. FilledIn'
    BY <2>1 DEF PromptsLive, FilledIn, Filled, LiveActs, ActionOf
  <2>7. OneThing' /\ Taken'
    BY <2>1, <2>4 DEF OneThing, Taken, Pressed
  <2> QED BY <2>5, <2>6, <2>7 DEF PromptsLive
<1> QED BY <1>3, <1>4, <1>5 DEF Installs

\* What the user does.
LEMMA UsesLive == ASSUME PromptsInv, PromptsLive, Uses PROVE PromptsLive'
<1> USE DEF Shutting
<1>1. CASE Edit \/ StartGame
  BY <1>1, SameLive DEF Edit, StartGame, Replacing, Opening, prompt, locks
<1>2. ASSUME UNCHANGED <<asked, ran, shown, content, actions, moved, asking, pc, stage>>
      PROVE  PromptsLive'
  BY <1>2, SameLive DEF Replacing, Opening
<1>a. ASSUME NEW t \in Threads, AskToQuit(t), pc[t] = "out" PROVE PromptsLive'
  BY <1>2, <1>a, AskLive DEF AskToQuit, Kinds
<1>b. CASE CloseWindow \/ PressQuit
  BY <1>a, <1>b DEF CloseWindow, PressQuit, OnPage, Idle, Threads
<1>c. CASE OpenPage \/ ClosePage \/ ChangeTab
  BY <1>2, <1>c, AskLive DEF OpenPage, ClosePage, ChangeTab, OnPage, Idle, Kinds, Threads
<1>3. ASSUME NEW choice \in Choices, Press(choice) PROVE PromptsLive'
  <2>1. /\ pc["ui"] = "out" /\ stage["ui"] = "none" /\ shown /\ pc' = [pc EXCEPT !["ui"] = choice]
        /\ asking' = [asking EXCEPT !["ui"] = content]
        /\ UNCHANGED <<asked, ran, shown, content, actions, moved, stage>>
    BY <1>3 DEF Press, Idle, Goto, prompt
  <2>2. /\ pc'["ui"] = choice /\ pc'["main"] = pc["main"] /\ asking'["main"] = asking["main"]
    BY <2>1 DEF PromptsInv, PromptsTypeOK, Threads
  <2>3. /\ (LiveActs' <=> LiveActs) /\ (Owes' <=> Owes) /\ (Replacing => Replacing')
        /\ (Answering' <=> Answering) /\ (Filling' <=> Filling)
    BY <2>1, <2>2 DEF LiveActs, ActionOf, Owes, Replacing, Opening, Answering, Filling, Threads, Choices
  <2>4. OnScreen'
    BY <2>1, <2>3 DEF PromptsLive, OnScreen, Ids
  <2>5. FilledIn'
    BY <2>1, <2>2, <2>3 DEF PromptsLive, FilledIn, Filled, Threads, Choices
  <2>6. OneThing' /\ Taken'
    BY <2>1, <2>2 DEF OneThing, Taken, Choices
  <2>7. Kept'
    BY <2>1, <2>2, <2>3 DEF PromptsLive, Kept, Threads, Choices
  <2> QED BY <2>4, <2>5, <2>6, <2>7 DEF PromptsLive
<1>4. ASSUME NEW t \in Threads, DropFiles(t) PROVE PromptsLive'
  <2>1. /\ pc[t] = "out" /\ stage[t] = "none" /\ stage' = [stage EXCEPT ![t] = "tab"]
        /\ UNCHANGED <<asked, ran, shown, content, actions, moved, asking, pc>>
    BY <1>4 DEF DropFiles, prompt, Idle, Enter
  <2>2. \A u \in Threads \ {t} : stage'[u] = stage[u]
    BY <2>1 DEF PromptsInv, PromptsTypeOK
  <2>3. Replacing => Replacing'
    BY <2>1, <2>2 DEF Replacing, Opening, Downed
  <2>4. pc["ui"] \in Pressed => stage'["ui"] = stage["ui"]
    BY <2>1, <2>2 DEF Pressed, Threads
  <2> QED BY <2>1, <2>3, <2>4, SameLive
<1> QED BY <1>1, <1>b, <1>c, <1>3, <1>4 DEF Uses

LEMMA StepLive == PromptsInv /\ PromptsLive /\ [Next]_vars => PromptsLive'
<1> SUFFICES ASSUME PromptsInv, PromptsLive, [Next]_vars PROVE PromptsLive'
  OBVIOUS
<1>1. ASSUME NEW t \in Threads, ThreadSteps(t) PROVE PromptsLive'
  BY <1>1, OpensLive, ClosesLive, InstallsLive DEF ThreadSteps
<1>2. CASE BeginDraw \/ EndDraw \/ UNCHANGED vars
  BY <1>2, SameLive DEF BeginDraw, EndDraw, vars, Replacing, Opening, prompt
<1> QED BY <1>1, <1>2, AnswersLive, UsesLive DEF Next, Frames, Threads

LEMMA AlwaysLive == Spec => []PromptsLive
BY InitLive, StepLive, Inductive, PTL DEF Spec

-----------------------------------------------------------------------------
\* The buttons of the prompt on the screen do what it says, and it waits for its answer.
THEOREM ShownStayLive == Spec => []ShownAreLive
<1>1. PromptsLive => ShownAreLive
  <2> SUFFICES ASSUME PromptsLive, Settled, shown PROVE ran[content] = <<>> /\ LiveActs
    BY DEF ShownAreLive, LiveActs
  <2>1. ~Answering /\ ~Filling
    BY DEF Settled, Answering, Filling, Shutting, Threads
  <2> QED BY <2>1 DEF PromptsLive, OnScreen
<1> QED BY <1>1, AlwaysLive, PTL

\* The last question does not leave the screen unanswered.
THEOREM QuestionsAreKept == Spec => []NoQuestionLost
<1>1. PromptsLive => NoQuestionLost
  BY DEF PromptsLive, Kept, Owes, NoQuestionLost, Settled, Replacing, Opening
<1> QED BY <1>1, AlwaysLive, PTL

=============================================================================
