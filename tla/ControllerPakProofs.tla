------------------------- MODULE ControllerPakProofs -------------------------
(***************************************************************************)
(* Proofs about ControllerPak for every number of ports and blocks, every  *)
(* block content and every bound on failures, crashes and exits.           *)
(***************************************************************************)
EXTENDS ControllerPak, TLAPS

\* The inductive invariant: types, the protocol of lock, stage and save, and the
\* relation of clean paks to their files.  Neither of the last two is inductive
\* alone: a clean pak equals its file because the renamed temporary equals memory,
\* which holds because nobody writes memory while a save is in progress.  The last
\* part keeps an unreadable file out of reach of a save.
ValidMeansReadable == \A p \in Ports : valid[p] => file[p] # BadFile
IInv == TypeOK /\ LockProtocol /\ CleanMeansSaved /\ ValidMeansReadable

LEMMA InitEstablishes == Init => IInv
<1> SUFFICES ASSUME Init PROVE IInv
  OBVIOUS
<1> USE PakAssumption DEF Init, Unloaded, Ports
<1>1. TypeOK
  BY DEF TypeOK
<1>2. LockProtocol
  BY DEF LockProtocol
<1>3. CleanMeansSaved
  BY DEF CleanMeansSaved
<1>4. ValidMeansReadable
  BY DEF ValidMeansReadable
<1> QED BY <1>1, <1>2, <1>3, <1>4 DEF IInv

LEMMA StepPreserves == IInv /\ [Next]_vars => IInv'
<1> SUFFICES ASSUME IInv, [Next]_vars PROVE IInv'
  OBVIOUS
<1> USE PakAssumption DEF IInv, disk, flags, ends
<1>1. ASSUME NEW o \in {"read", "write"}, NEW p \in Ports, NEW b \in 0 .. NumBlocks,
             NEW d \in Data, Request(o, p, b, d)
      PROVE IInv'
  <2>1. TypeOK' BY <1>1 DEF Request, TypeOK, Requests
  <2>2. LockProtocol' BY <1>1 DEF Request, TypeOK, LockProtocol, Requests, Target
  <2>3. CleanMeansSaved' BY <1>1 DEF Request, CleanMeansSaved
  <2>4. ValidMeansReadable' BY <1>1 DEF Request, ValidMeansReadable
  <2> QED BY <2>1, <2>2, <2>3, <2>4
<1>2. CASE LockForGame
  <2>1. TypeOK' BY <1>2 DEF LockForGame, TypeOK
  <2>2. LockProtocol' BY <1>2 DEF LockForGame, TypeOK, LockProtocol, Target
  <2>3. CleanMeansSaved' BY <1>2 DEF LockForGame, CleanMeansSaved
  <2>4. ValidMeansReadable' BY <1>2 DEF LockForGame, ValidMeansReadable
  <2> QED BY <2>1, <2>2, <2>3, <2>4
<1>3. CASE ProbeFails
  <2> USE <1>3 DEF ProbeFails, Answer, InEnsure, Fault
  <2>0. req \in Requests BY DEF LockProtocol
  <2>1. TypeOK' BY <2>0 DEF TypeOK, Requests
  <2>2. LockProtocol' BY <2>0 DEF TypeOK, LockProtocol, Requests, Target
  <2>3. CleanMeansSaved' BY <2>0 DEF CleanMeansSaved, TypeOK, Requests
  <2>4. ValidMeansReadable' BY <2>0 DEF ValidMeansReadable, TypeOK, Requests
  <2> QED BY <2>1, <2>2, <2>3, <2>4
<1>4. CASE LoadImage
  <2> USE <1>4 DEF LoadImage, InEnsure
  <2>0. req \in Requests BY DEF LockProtocol
  <2>1. TypeOK' BY <2>0 DEF TypeOK, Requests
  <2>2. LockProtocol' BY <2>0 DEF TypeOK, LockProtocol, Requests, Target
  <2>3. CleanMeansSaved' BY <2>0 DEF CleanMeansSaved, TypeOK, Requests
  <2>4. ValidMeansReadable' BY <2>0 DEF ValidMeansReadable, TypeOK, Requests
  <2> QED BY <2>1, <2>2, <2>3, <2>4
<1>5. CASE LoadFails
  <2> USE <1>5 DEF LoadFails, Answer, InEnsure, Fault
  <2>0. req \in Requests BY DEF LockProtocol
  <2>1. TypeOK' BY <2>0 DEF TypeOK, Requests
  <2>2. LockProtocol' BY <2>0 DEF TypeOK, LockProtocol, Requests, Target
  <2>3. CleanMeansSaved' BY <2>0 DEF CleanMeansSaved, LockProtocol, TypeOK, Requests
  <2>4. ValidMeansReadable' BY <2>0 DEF ValidMeansReadable, LockProtocol, TypeOK, Requests
  <2> QED BY <2>1, <2>2, <2>3, <2>4
<1>6. CASE FormatBlank
  <2> USE <1>6 DEF FormatBlank, InEnsure
  <2>0. req \in Requests BY DEF LockProtocol
  <2>1. TypeOK' BY <2>0 DEF TypeOK, Requests
  <2>2. LockProtocol' BY <2>0 DEF TypeOK, LockProtocol, Requests, Target
  <2>3. CleanMeansSaved' BY <2>0 DEF CleanMeansSaved, TypeOK, Requests
  <2>4. ValidMeansReadable' BY <2>0 DEF ValidMeansReadable, TypeOK, Requests
  <2> QED BY <2>1, <2>2, <2>3, <2>4
<1>7. CASE AlreadyLoaded
  <2> USE <1>7 DEF AlreadyLoaded, InEnsure, Answer
  <2>0. req \in Requests BY DEF LockProtocol
  <2>1. TypeOK' BY <2>0 DEF TypeOK, Requests
  <2>2. LockProtocol' BY <2>0 DEF TypeOK, LockProtocol, Requests, Target
  <2>3. CleanMeansSaved' BY <2>0 DEF CleanMeansSaved
  <2>4. ValidMeansReadable' BY <2>0 DEF ValidMeansReadable, TypeOK
  <2> QED BY <2>1, <2>2, <2>3, <2>4
<1>8. CASE ReadBlock
  <2> USE <1>8 DEF ReadBlock, Answer
  <2>0. req \in Requests BY DEF LockProtocol
  <2>1. TypeOK' BY <2>0 DEF TypeOK, Requests, Images
  <2>2. LockProtocol' BY <2>0 DEF TypeOK, LockProtocol, Requests, Target
  <2>3. CleanMeansSaved' BY <2>0 DEF CleanMeansSaved
  <2>4. ValidMeansReadable' BY <2>0 DEF ValidMeansReadable, TypeOK
  <2> QED BY <2>1, <2>2, <2>3, <2>4
<1>9. CASE WriteBlock
  <2> USE <1>9 DEF WriteBlock, Answer
  <2>0. req \in Requests BY DEF LockProtocol
  <2>1. TypeOK' BY <2>0 DEF TypeOK, Requests, Images
  <2>2. LockProtocol' BY <2>0 DEF TypeOK, LockProtocol, Requests, Target
  <2>3. CleanMeansSaved' BY <2>0 DEF CleanMeansSaved, TypeOK, Requests, Images
  <2>4. ValidMeansReadable' BY <2>0 DEF ValidMeansReadable, TypeOK, Requests, Images
  <2> QED BY <2>1, <2>2, <2>3, <2>4
<1>10. CASE FlushBegin \/ FlushSkip \/ FlushPort \/ FlushEnd
  <2> USE <1>10 DEF FlushBegin, FlushSkip, FlushPort, FlushEnd, InFlush
  <2>1. TypeOK' BY DEF TypeOK, Ports
  <2>2. LockProtocol' BY DEF TypeOK, LockProtocol, Target, Ports
  <2>3. CleanMeansSaved' BY DEF CleanMeansSaved
  <2>4. ValidMeansReadable' BY DEF ValidMeansReadable, TypeOK
  <2> QED BY <2>1, <2>2, <2>3, <2>4
<1>11. ASSUME saving # "no" PROVE Target \in Ports
  BY <1>11 DEF LockProtocol, TypeOK, Target, Requests, Ports
<1>12. CASE OpenTemp
  <2> USE <1>11, <1>12 DEF OpenTemp
  <2>1. TypeOK' BY DEF TypeOK
  <2>2. LockProtocol' BY DEF TypeOK, LockProtocol, Target
  <2>3. CleanMeansSaved' BY DEF CleanMeansSaved
  <2>4. ValidMeansReadable' BY DEF ValidMeansReadable, TypeOK
  <2> QED BY <2>1, <2>2, <2>3, <2>4
<1>13. CASE WriteTemp
  <2> USE <1>11, <1>13 DEF WriteTemp
  <2>1. TypeOK' BY DEF TypeOK
  <2>2. LockProtocol' BY DEF TypeOK, LockProtocol, Target
  <2>3. CleanMeansSaved' BY DEF CleanMeansSaved
  <2>4. ValidMeansReadable' BY DEF ValidMeansReadable, TypeOK
  <2> QED BY <2>1, <2>2, <2>3, <2>4
<1>14. CASE ReplaceFile
  <2> USE <1>11, <1>14 DEF ReplaceFile, SaveReturns
  <2>0. temp[Target] = mem[Target] /\ mem[Target] \in Images /\ BadFile \notin Images
    BY DEF LockProtocol, TypeOK
  <2>1. TypeOK' BY <2>0 DEF TypeOK, LockProtocol, Ports
  <2>2. LockProtocol' BY DEF TypeOK, LockProtocol, Target
  <2>3. CleanMeansSaved' BY <2>0 DEF CleanMeansSaved, TypeOK
  <2>4. ValidMeansReadable' BY <2>0 DEF ValidMeansReadable, TypeOK
  <2> QED BY <2>1, <2>2, <2>3, <2>4
<1>15. CASE SaveFails
  <2> USE <1>11, <1>15 DEF SaveFails, SaveReturns, Fault
  <2>1. TypeOK' BY DEF TypeOK, LockProtocol, Ports
  <2>2. LockProtocol' BY DEF TypeOK, LockProtocol, Target
  <2>3. CleanMeansSaved' BY DEF CleanMeansSaved
  <2>4. ValidMeansReadable' BY DEF ValidMeansReadable, TypeOK
  <2> QED BY <2>1, <2>2, <2>3, <2>4
<1>16. CASE Crash \/ Quit
  <2> USE <1>16 DEF Crash, Quit, Restart, Unloaded
  <2>a. /\ mem' \in [Ports -> Images]
        /\ loaded' \in [Ports -> BOOLEAN]
        /\ valid' \in [Ports -> BOOLEAN]
        /\ dirty' \in [Ports -> BOOLEAN]
    OBVIOUS
  <2>b. next' \in 0 .. NumPorts /\ crashes' \in Nat /\ quits' \in Nat /\ crashes' + quits' <= MaxEnds
    BY DEF TypeOK
  <2>1. TypeOK' BY <2>a, <2>b DEF TypeOK
  <2>2. LockProtocol' BY DEF TypeOK, LockProtocol, Target
  <2>3. CleanMeansSaved' BY DEF CleanMeansSaved
  <2>4. ValidMeansReadable' BY DEF ValidMeansReadable, TypeOK
  <2> QED BY <2>1, <2>2, <2>3, <2>4
<1>17. CASE UNCHANGED vars
  BY <1>17 DEF vars, TypeOK, LockProtocol, CleanMeansSaved, ValidMeansReadable, Target
<1> QED
  BY <1>1, <1>2, <1>3, <1>4, <1>5, <1>6, <1>7, <1>8, <1>9, <1>10, <1>12, <1>13,
     <1>14, <1>15, <1>16, <1>17 DEF Next

LEMMA Invariance == Spec => []IInv
<1>1. QED BY InitEstablishes, StepPreserves, PTL DEF Spec

\* Type correctness, for every instance.
THEOREM TypeCorrect == Spec => []TypeOK
<1>1. IInv => TypeOK BY DEF IInv
<1>2. QED BY <1>1, Invariance, PTL

\* A save in progress is alone with its pak: the mutex, the stages of the two
\* threads and the flags agree, in every instance.
THEOREM ProtocolHolds == Spec => []LockProtocol
<1>1. IInv => LockProtocol BY DEF IInv
<1>2. QED BY <1>1, Invariance, PTL

\* Clearing dirty is right: a valid pak whose dirty flag is down is on disk as it is
\* in memory, whatever failed and wherever the process was killed.
THEOREM CleanPaksAreSaved == Spec => []CleanMeansSaved
<1>1. IInv => CleanMeansSaved BY DEF IInv
<1>2. QED BY <1>1, Invariance, PTL

\* The rename in persist_mempak happens to a pak that is loaded, valid and dirty,
\* and installs what memory holds.
LEMMA ReplaceInstalls ==
    ASSUME IInv, ReplaceFile
    PROVE  /\ Target \in Ports
           /\ loaded[Target] /\ valid[Target]
           /\ mem[Target] \in Images
           /\ file' = [file EXCEPT ![Target] = mem[Target]]
           /\ UNCHANGED <<mem, loaded, valid, reply>>
<1>1. Target \in Ports /\ temp[Target] = mem[Target] /\ dirty[Target]
  BY PakAssumption DEF ReplaceFile, IInv, LockProtocol, TypeOK, Target, Requests, Ports
<1>2. loaded[Target] /\ valid[Target] /\ mem[Target] \in Images
  BY <1>1 DEF IInv, LockProtocol, TypeOK
<1> QED BY <1>1, <1>2 DEF ReplaceFile

\* No other step touches a save file.
LEMMA OnlyReplaceWrites == [Next]_vars /\ ~ReplaceFile => UNCHANGED file
BY DEF Next, vars, disk, Request, LockForGame, ProbeFails, LoadImage, LoadFails,
   FormatBlank, AlreadyLoaded, ReadBlock, WriteBlock, FlushBegin, FlushSkip,
   FlushPort, FlushEnd, OpenTemp, WriteTemp, SaveFails, Crash, Quit, Restart, Answer

\* Every change of a save file installs a complete image, the one in memory.
THEOREM WholeSaves == Spec => SavesAreWhole
<1>1. IInv /\ [Next]_vars => SaveIsWhole
  BY ReplaceInstalls, OnlyReplaceWrites DEF SaveIsWhole, IInv, TypeOK
<1>2. QED BY <1>1, Invariance, PTL DEF Spec, SavesAreWhole

\* A file the store could not read stays as it is until the process ends.
THEOREM UnreadableStays == Spec => UnreadablePreserved
<1>1. IInv /\ [Next]_vars => UnreadableKept
  BY ReplaceInstalls, OnlyReplaceWrites DEF UnreadableKept, IInv, TypeOK, ValidMeansReadable
<1>2. QED BY <1>1, Invariance, PTL DEF Spec, UnreadablePreserved


-----------------------------------------------------------------------------
(* Refinement of PakStore.                                                 *)

\* The view of a port moves only with the four variables it is built from.
LEMMA ViewUnchanged ==
    ASSUME UNCHANGED <<file, mem, loaded, valid>>
    PROVE  UNCHANGED View
BY DEF View, ViewOf

LEMMA InitRefines == Init => Store!Init
<1> SUFFICES ASSUME Init PROVE Store!Init
  OBVIOUS
<1> USE PakAssumption DEF Init, Unloaded
<1>1. file \in [Ports -> Store!Images \union {NoFile, BadFile}]
  BY DEF Store!Images, Images
<1>2. View = [p \in Ports |-> Store!Recover(file[p])]
  <2>1. ASSUME NEW p \in Ports PROVE ViewOf(p) = Store!Recover(file[p])
    BY <2>1 DEF ViewOf, Store!Recover
  <2> QED BY <2>1 DEF View
<1> QED BY <1>1, <1>2 DEF Store!Init

\* Every step of the store is a step of PakStore or leaves its view alone.
LEMMA StepRefines ==
    ASSUME IInv, [Next]_vars
    PROVE  [Store!Next]_(Store!storeVars)
<1> USE PakAssumption DEF IInv, disk, flags, ends
<1> SUFFICES ASSUME TRUE
             PROVE  Store!Next \/ (UNCHANGED <<View, file, reply>>)
  BY DEF Store!storeVars
<1>1. ASSUME NEW o \in {"read", "write"}, NEW p \in Ports, NEW b \in 0 .. NumBlocks,
             NEW d \in Data, Request(o, p, b, d)
      PROVE Store!Next
  <2>1. UNCHANGED <<View, file>>
    BY <1>1, ViewUnchanged DEF Request
  <2>2. Store!Ask \/ Store!Refuse
    BY <1>1, <2>1 DEF Request, Store!Ask, Store!Refuse
  <2> QED BY <2>2 DEF Store!Next
<1>2. CASE LockForGame \/ FlushBegin \/ FlushSkip \/ FlushPort \/ FlushEnd
           \/ OpenTemp \/ WriteTemp \/ SaveFails \/ UNCHANGED vars
  BY <1>2, ViewUnchanged DEF LockForGame, FlushBegin, FlushSkip, FlushPort, FlushEnd,
     OpenTemp, WriteTemp, SaveFails, vars
<1>3. CASE ProbeFails
  <2>0. req \in Requests BY <1>3 DEF ProbeFails, InEnsure, LockProtocol
  <2>1. ASSUME NEW p \in Ports PROVE ViewOf(p)' = ViewOf(p)
    BY <1>3, <2>0, <2>1 DEF ProbeFails, Answer, ViewOf, TypeOK, Requests
  <2>2. UNCHANGED <<View, file>> BY <1>3, <2>1 DEF View, ProbeFails, Answer
  <2> QED BY <1>3, <2>2 DEF ProbeFails, Answer, Store!Refuse, Store!Next
<1>4. CASE LoadImage \/ FormatBlank
  <2>0. req \in Requests BY <1>4 DEF LoadImage, FormatBlank, InEnsure, LockProtocol
  <2>1. ASSUME NEW p \in Ports PROVE ViewOf(p)' = ViewOf(p)
    BY <1>4, <2>0, <2>1 DEF LoadImage, FormatBlank, ViewOf, TypeOK, Requests
  <2>2. UNCHANGED View BY <2>1 DEF View
  <2> QED BY <1>4, <2>2 DEF LoadImage, FormatBlank
<1>5. CASE LoadFails
  <2>0. req \in Requests BY <1>5 DEF LoadFails, InEnsure, LockProtocol
  <2>a. ~valid[req.port] BY <1>5, <2>0 DEF LoadFails, LockProtocol, Requests
  <2>1. ASSUME NEW p \in Ports
        PROVE ViewOf(p)' = IF p = req.port THEN Unavailable ELSE ViewOf(p)
    BY <1>5, <2>0, <2>a, <2>1 DEF LoadFails, Answer, ViewOf, TypeOK, Requests
  <2>2. View' = [View EXCEPT ![req.port] = Unavailable]
    BY <2>1 DEF View
  <2>3. Store!Withdraw(req.port)
    BY <1>5, <2>2 DEF Store!Withdraw, LoadFails, Answer
  <2> QED BY <2>0, <2>3 DEF Store!Next, Requests
<1>6. CASE AlreadyLoaded
  <2>1. UNCHANGED <<View, file>>
    BY <1>6, ViewUnchanged DEF AlreadyLoaded, Answer
  <2> QED BY <1>6, <2>1 DEF AlreadyLoaded, Answer, Store!Refuse, Store!Next
<1>7. CASE ReadBlock
  <2>0. req \in Requests /\ loaded[req.port] /\ valid[req.port]
    BY <1>7 DEF ReadBlock, LockProtocol
  <2>1. UNCHANGED <<View, file>> BY <1>7, ViewUnchanged DEF ReadBlock, Answer
  <2>2. View[req.port] = mem[req.port] /\ View[req.port] # Unavailable
    BY <2>0 DEF View, ViewOf, Requests, TypeOK
  <2>3. Store!Read(req.port, req.block)
    BY <1>7, <2>1, <2>2 DEF ReadBlock, Answer, Store!Read
  <2> QED BY <2>0, <2>3 DEF Store!Next, Requests
<1>8. CASE WriteBlock
  <2>0. req \in Requests /\ loaded[req.port] /\ valid[req.port]
    BY <1>8 DEF WriteBlock, LockProtocol
  <2>2. View[req.port] = mem[req.port] /\ View[req.port] # Unavailable
    BY <2>0 DEF View, ViewOf, Requests, TypeOK
  <2>3. ASSUME NEW p \in Ports
        PROVE ViewOf(p)' = IF p = req.port THEN [mem[p] EXCEPT ![req.block] = req.data]
                                           ELSE ViewOf(p)
    BY <1>8, <2>0, <2>3 DEF WriteBlock, Answer, ViewOf, TypeOK, Requests
  <2>4. View' = [View EXCEPT ![req.port][req.block] = req.data]
    BY <2>0, <2>2, <2>3 DEF View, Requests
  <2>5. Store!Write(req.port, req.block, req.data)
    BY <1>8, <2>2, <2>4 DEF WriteBlock, Answer, Store!Write
  <2> QED BY <2>0, <2>5 DEF Store!Next, Requests
<1>9. CASE ReplaceFile
  <2>1. /\ Target \in Ports /\ loaded[Target] /\ valid[Target]
        /\ mem[Target] \in Images
        /\ file' = [file EXCEPT ![Target] = mem[Target]]
        /\ UNCHANGED <<mem, loaded, valid, reply>>
    BY <1>9, ReplaceInstalls
  <2>2. ASSUME NEW p \in Ports PROVE ViewOf(p)' = ViewOf(p)
    BY <2>1, <2>2 DEF ViewOf, TypeOK
  <2>3. UNCHANGED View BY <2>2 DEF View
  <2>4. View[Target] = mem[Target] /\ View[Target] # Unavailable
    BY <2>1 DEF View, ViewOf
  <2>5. Store!Save(Target) BY <2>1, <2>3, <2>4 DEF Store!Save
  <2> QED BY <2>1, <2>5 DEF Store!Next
<1>10. CASE Crash \/ Quit
  <2> USE <1>10 DEF Crash, Quit, Restart, Unloaded
  <2>1. ASSUME NEW p \in Ports PROVE ViewOf(p)' = Store!Recover(file[p])
    BY <2>1 DEF ViewOf, Store!Recover, TypeOK
  <2>2. View' = [p \in Ports |-> Store!Recover(file[p])]
    BY <2>1 DEF View
  <2> QED BY <2>2 DEF Store!Restart, Store!Next
<1> QED
  BY <1>1, <1>2, <1>3, <1>4, <1>5, <1>6, <1>7, <1>8, <1>9, <1>10 DEF Next

\* The store with threads, mutex, temporary files, failures and crashes does nothing
\* the abstract store would not do.
THEOREM Refinement == Spec => ImplementsStore
<1>1. IInv /\ [Next]_vars => [Store!Next]_(Store!storeVars)
  BY StepRefines
<1>2. QED
  BY InitRefines, Invariance, <1>1, PTL DEF Spec, ImplementsStore, Store!Spec
=============================================================================
