---------------------------- MODULE ControllerPak ----------------------------
(***************************************************************************)
(* The Controller Pak store of src/src/main/bar_input.cpp: 32 KiB per port *)
(* in memory, loaded on first use, written by the emulated SI on the game  *)
(* thread and saved by the main thread once a frame, both under            *)
(* g_mempak_mutex.  A save is a temporary file renamed over the old one.   *)
(* Any file operation may fail and the process may die between any two.    *)
(***************************************************************************)
EXTENDS Naturals

CONSTANTS
    NumPorts,    \* controller ports: 4 in the code
    NumBlocks,   \* 32-byte blocks per pak: 0x400 in the code
    Data,        \* contents a block can have
    Blank,       \* the image format_empty_mempak builds
    Zeros,       \* the all-zero image
    NoFile, BadFile, Partial,       \* a file that is absent, unreadable, half written
    Unavailable,
    NoReply, Failed, Done,          \* answers of mempak_read and mempak_write
    NoRequest,                      \* the game thread is in no pak operation
    MaxFaults,   \* bound: file operations that fail
    MaxEnds      \* bound: times the process is killed or the player quits

Ports  == 0 .. NumPorts - 1
Blocks == 0 .. NumBlocks - 1
Images == [Blocks -> Data]

ASSUME PakAssumption ==
    /\ NumPorts \in Nat \ {0}
    /\ NumBlocks \in Nat \ {0}
    /\ {Blank, Zeros} \subseteq Images
    /\ {NoFile, BadFile, Partial, Unavailable} \cap Images = {}
    /\ NoFile # BadFile
    /\ {NoReply, Failed, Done} \cap Data = {}
    /\ NoRequest \notin [op : {"read", "write"}, port : Ports, block : Blocks, data : Data]
    /\ MaxFaults \in Nat
    /\ MaxEnds \in Nat

Requests == [op : {"read", "write"}, port : Ports, block : Blocks, data : Data]

VARIABLES
    file,    \* mempak_p<port>.pak
    temp,    \* mempak_p<port>.pak.tmp
    mem,     \* g_mempak
    loaded,  \* g_mempak_loaded
    valid,   \* g_mempak_valid
    dirty,   \* g_mempak_dirty
    lock,    \* the holder of g_mempak_mutex
    req,     \* the operation the game thread is in
    stage,   \* where in that operation the game thread is
    next,    \* the flush loop's port; NumPorts outside the loop
    saving,  \* where in persist_mempak the holder of the lock is
    reply,   \* the last answer the game thread got
    faults, crashes, quits  \* failures and process ends so far

disk  == <<file, temp>>
ends  == <<crashes, quits>>
flags == <<loaded, valid, dirty>>
vars  == <<file, temp, mem, loaded, valid, dirty, lock, req, stage, next,
           saving, reply, faults, crashes, quits>>

Unloaded == [p \in Ports |-> FALSE]

Init ==
    /\ file \in [Ports -> Images \union {NoFile, BadFile}]
    /\ temp \in [Ports -> Images \union {NoFile, Partial}]
    /\ mem = [p \in Ports |-> Zeros]
    /\ loaded = Unloaded /\ valid = Unloaded /\ dirty = Unloaded
    /\ lock = "free" /\ saving = "no"
    /\ req = NoRequest /\ stage = "idle"
    /\ next = NumPorts
    /\ reply = NoReply
    /\ faults = 0 /\ crashes = 0 /\ quits = 0

Fault == faults < MaxFaults /\ faults' = faults + 1

-----------------------------------------------------------------------------
(* The game thread: mempak_read and mempak_write.                          *)

\* The range checks before the lock; a block past the end is refused at once.
Request(o, p, b, d) ==
    /\ stage = "idle"
    /\ \/ /\ b \in Blocks
          /\ req' = [op |-> o, port |-> p, block |-> b, data |-> d]
          /\ stage' = "lock"
          /\ reply' = NoReply
       \/ /\ b \notin Blocks
          /\ reply' = Failed
          /\ UNCHANGED <<req, stage>>
    /\ UNCHANGED <<disk, mem, flags, lock, next, saving, faults, ends>>

LockForGame ==
    /\ stage = "lock"
    /\ lock = "free"
    /\ lock' = "game"
    /\ stage' = "ensure"
    /\ UNCHANGED <<disk, mem, flags, req, next, saving, reply, faults, ends>>

\* Mutant of Answer: an early return that leaves the mutex locked.
AnswerKeepsLock(r) ==
    /\ reply' = r
    /\ stage' = "idle"
    /\ req' = NoRequest
    /\ UNCHANGED <<disk, lock, next, saving, ends>>

\* Leaving the operation with an answer releases the lock_guard.
Answer(r) ==
    /\ reply' = r
    /\ lock' = "free"
    /\ stage' = "idle"
    /\ req' = NoRequest
    /\ UNCHANGED <<disk, next, saving, ends>>

InEnsure == stage = "ensure" /\ saving = "no"

\* exists() itself failed: nothing is latched, the next operation tries again.
ProbeFails ==
    /\ InEnsure /\ ~loaded[req.port]
    /\ Fault
    /\ mem' = [mem EXCEPT ![req.port] = Zeros]
    /\ Answer(Failed)
    /\ UNCHANGED flags

\* Mutant of LoadImage: a leftover temporary file is taken for the newest save.
LoadImageFromTemp ==
    /\ InEnsure /\ ~loaded[req.port]
    /\ file[req.port] \in Images
    /\ mem'    = [mem EXCEPT ![req.port] = IF temp[req.port] \in Images
                                          THEN temp[req.port] ELSE file[req.port]]
    /\ loaded' = [loaded EXCEPT ![req.port] = TRUE]
    /\ valid'  = [valid EXCEPT ![req.port] = TRUE]
    /\ stage'  = "access"
    /\ UNCHANGED <<disk, dirty, lock, req, next, saving, reply, faults, ends>>

LoadImage ==
    /\ InEnsure /\ ~loaded[req.port]
    /\ file[req.port] \in Images
    /\ mem'    = [mem EXCEPT ![req.port] = file[req.port]]
    /\ loaded' = [loaded EXCEPT ![req.port] = TRUE]
    /\ valid'  = [valid EXCEPT ![req.port] = TRUE]
    /\ stage'  = "access"
    /\ UNCHANGED <<disk, dirty, lock, req, next, saving, reply, faults, ends>>

\* Wrong size or a short read: latched as loaded but invalid, file left alone.
LoadFails ==
    /\ InEnsure /\ ~loaded[req.port]
    /\ \/ file[req.port] = BadFile /\ UNCHANGED faults
       \/ file[req.port] \in Images /\ Fault
    /\ \E junk \in Images : mem' = [mem EXCEPT ![req.port] = junk]
    /\ loaded' = [loaded EXCEPT ![req.port] = TRUE]
    /\ Answer(Failed)
    /\ UNCHANGED <<valid, dirty>>

\* Mutant of FormatBlank: a file that cannot be read is treated as absent.
FormatBlankOverUnreadable ==
    /\ InEnsure /\ ~loaded[req.port]
    /\ file[req.port] \in {NoFile, BadFile}
    /\ mem'    = [mem EXCEPT ![req.port] = Blank]
    /\ loaded' = [loaded EXCEPT ![req.port] = TRUE]
    /\ valid'  = [valid EXCEPT ![req.port] = TRUE]
    /\ dirty'  = [dirty EXCEPT ![req.port] = TRUE]
    /\ saving' = "open"
    /\ UNCHANGED <<disk, lock, req, stage, next, reply, faults, ends>>

\* No file: format a blank pak and persist it before answering.
FormatBlank ==
    /\ InEnsure /\ ~loaded[req.port]
    /\ file[req.port] = NoFile
    /\ mem'    = [mem EXCEPT ![req.port] = Blank]
    /\ loaded' = [loaded EXCEPT ![req.port] = TRUE]
    /\ valid'  = [valid EXCEPT ![req.port] = TRUE]
    /\ dirty'  = [dirty EXCEPT ![req.port] = TRUE]
    /\ saving' = "open"
    /\ UNCHANGED <<disk, lock, req, stage, next, reply, faults, ends>>

AlreadyLoaded ==
    /\ InEnsure /\ loaded[req.port]
    /\ \/ /\ valid[req.port]
          /\ stage' = "access"
          /\ UNCHANGED <<disk, mem, lock, req, next, saving, reply, ends>>
       \/ /\ ~valid[req.port]
          /\ Answer(Failed)
          /\ UNCHANGED mem
    /\ UNCHANGED <<flags, faults>>

ReadBlock ==
    /\ stage = "access" /\ req.op = "read"
    /\ Answer(mem[req.port][req.block])
    /\ UNCHANGED <<mem, flags, faults>>

\* Only bytes that differ mark the pak dirty.
WriteBlock ==
    /\ stage = "access" /\ req.op = "write"
    /\ mem' = [mem EXCEPT ![req.port][req.block] = req.data]
    /\ dirty' = [dirty EXCEPT ![req.port] = @ \/ mem[req.port][req.block] # req.data]
    /\ Answer(Done)
    /\ UNCHANGED <<loaded, valid, faults>>

-----------------------------------------------------------------------------
(* The main thread: mempak_flush_all, once per frame.                      *)

\* Mutant of FlushBegin: the loop starts at the second port.
FlushBeginAtOne ==
    /\ lock = "free"
    /\ lock' = "main"
    /\ next' = 1
    /\ UNCHANGED <<disk, mem, flags, req, stage, saving, reply, faults, ends>>

FlushBegin ==
    /\ lock = "free"
    /\ lock' = "main"
    /\ next' = 0
    /\ UNCHANGED <<disk, mem, flags, req, stage, saving, reply, faults, ends>>

InFlush == lock = "main" /\ saving = "no" /\ next < NumPorts

FlushSkip ==
    /\ InFlush /\ ~(loaded[next] /\ dirty[next])
    /\ next' = next + 1
    /\ UNCHANGED <<disk, mem, flags, lock, req, stage, saving, reply, faults, ends>>

FlushPort ==
    /\ InFlush /\ loaded[next] /\ dirty[next]
    /\ saving' = "open"
    /\ UNCHANGED <<disk, mem, flags, lock, req, stage, next, reply, faults, ends>>

FlushEnd ==
    /\ lock = "main" /\ next = NumPorts
    /\ lock' = "free"
    /\ UNCHANGED <<disk, mem, flags, req, stage, next, saving, reply, faults, ends>>

-----------------------------------------------------------------------------
(* persist_mempak, run by whichever thread holds the lock.                 *)

Target == IF lock = "game" THEN req.port ELSE next

\* Back to the caller: the game thread goes on, the flush loop to its next port.
SaveReturns ==
    /\ saving' = "no"
    /\ next' = IF lock = "main" THEN next + 1 ELSE next

\* Mutant of OpenTemp: the save is opened in place, truncating the old one.
OpenInPlace ==
    /\ saving = "open"
    /\ file' = [file EXCEPT ![Target] = BadFile]
    /\ saving' = "write"
    /\ UNCHANGED <<temp, mem, flags, lock, req, stage, next, reply, faults, ends>>

OpenTemp ==
    /\ saving = "open"
    /\ temp' = [temp EXCEPT ![Target] = Partial]
    /\ saving' = "write"
    /\ UNCHANGED <<file, mem, flags, lock, req, stage, next, reply, faults, ends>>

WriteTemp ==
    /\ saving = "write"
    /\ temp' = [temp EXCEPT ![Target] = mem[Target]]
    /\ saving' = "rename"
    /\ UNCHANGED <<file, mem, flags, lock, req, stage, next, reply, faults, ends>>

\* The rename replaces the old file; only now is the pak clean.
ReplaceFile ==
    /\ saving = "rename"
    /\ file' = [file EXCEPT ![Target] = temp[Target]]
    /\ temp' = [temp EXCEPT ![Target] = NoFile]
    /\ dirty' = [dirty EXCEPT ![Target] = FALSE]
    /\ SaveReturns
    /\ UNCHANGED <<mem, loaded, valid, lock, req, stage, reply, faults, ends>>

\* Mutant of SaveFails: the result of persist_mempak is ignored.
SaveFailsButClean ==
    /\ saving # "no"
    /\ Fault
    /\ dirty' = [dirty EXCEPT ![Target] = FALSE]
    /\ SaveReturns
    /\ UNCHANGED <<disk, mem, loaded, valid, lock, req, stage, reply, ends>>

\* Opening, writing or renaming failed: the pak stays dirty, temp stays behind.
SaveFails ==
    /\ saving # "no"
    /\ Fault
    /\ SaveReturns
    /\ UNCHANGED <<disk, mem, flags, lock, req, stage, reply, ends>>

-----------------------------------------------------------------------------
(* The process ends and is started again.                                  *)

Restart ==
    /\ mem' = [p \in Ports |-> Zeros]
    /\ loaded' = Unloaded /\ valid' = Unloaded /\ dirty' = Unloaded
    /\ lock' = "free" /\ saving' = "no"
    /\ req' = NoRequest /\ stage' = "idle"
    /\ next' = NumPorts
    /\ reply' = NoReply
    /\ UNCHANGED <<disk, faults>>

\* Killed anywhere, in the middle of a save included.
Crash ==
    /\ crashes + quits < MaxEnds
    /\ crashes' = crashes + 1
    /\ Restart
    /\ UNCHANGED quits

\* recomp::start returns between two update_gfx calls and main() exits: no last flush.
Quit ==
    /\ crashes + quits < MaxEnds
    /\ lock # "main"
    /\ quits' = quits + 1
    /\ Restart
    /\ UNCHANGED crashes

Next ==
    \/ \E o \in {"read", "write"}, p \in Ports, b \in 0 .. NumBlocks, d \in Data :
          Request(o, p, b, d)
    \/ LockForGame \/ ProbeFails \/ LoadImage \/ LoadFails \/ FormatBlank
    \/ AlreadyLoaded \/ ReadBlock \/ WriteBlock
    \/ FlushBegin \/ FlushSkip \/ FlushPort \/ FlushEnd
    \/ OpenTemp \/ WriteTemp \/ ReplaceFile \/ SaveFails
    \/ Crash \/ Quit

\* The frame loop keeps calling mempak_flush_all and gets the mutex in the end,
\* and a thread inside an operation keeps going.
Fairness ==
    /\ SF_vars(FlushBegin)
    /\ WF_vars(FlushSkip \/ FlushPort \/ FlushEnd)
    /\ WF_vars(OpenTemp \/ WriteTemp \/ ReplaceFile)
    /\ SF_vars(LockForGame)
    /\ WF_vars(LoadImage \/ LoadFails \/ FormatBlank \/ AlreadyLoaded)
    /\ WF_vars(ReadBlock \/ WriteBlock)

Spec     == Init /\ [][Next]_vars
FairSpec == Spec /\ Fairness

-----------------------------------------------------------------------------
(* Properties.                                                             *)

TypeOK ==
    /\ file \in [Ports -> Images \union {NoFile, BadFile}]
    /\ temp \in [Ports -> Images \union {NoFile, Partial}]
    /\ mem \in [Ports -> Images]
    /\ loaded \in [Ports -> BOOLEAN]
    /\ valid \in [Ports -> BOOLEAN]
    /\ dirty \in [Ports -> BOOLEAN]
    /\ lock \in {"free", "game", "main"}
    /\ req \in Requests \union {NoRequest}
    /\ stage \in {"idle", "lock", "ensure", "access"}
    /\ next \in 0 .. NumPorts
    /\ saving \in {"no", "open", "write", "rename"}
    /\ reply \in Data \union {NoReply, Failed, Done}
    /\ faults \in 0 .. MaxFaults
    /\ crashes \in Nat /\ quits \in Nat /\ crashes + quits <= MaxEnds

\* How the two threads, the mutex and a save in progress fit together: a save runs
\* under the lock, on a pak that is loaded, valid and still dirty; a pak in use or
\* dirty is a valid one; and a file about to be renamed holds what memory holds,
\* because nobody can write memory between the write and the rename.
LockProtocol ==
    /\ lock = "game" <=> stage \in {"ensure", "access"}
    /\ stage # "idle" => req \in Requests
    /\ stage = "access" => saving = "no" /\ loaded[req.port] /\ valid[req.port]
    /\ saving # "no" =>
          /\ lock = "main" => next < NumPorts
          /\ lock # "free" /\ dirty[Target]
          /\ saving = "rename" => temp[Target] = mem[Target]
    /\ \A p \in Ports : (valid[p] => loaded[p]) /\ (dirty[p] => valid[p])

\* A pak the game uses whose dirty flag is down is on disk exactly as it is in
\* memory, however many saves failed before: mempak_flush_all may skip it.
CleanMeansSaved ==
    \A p \in Ports : loaded[p] /\ valid[p] /\ ~dirty[p] => file[p] = mem[p]

\* A save file changes only to the complete image the game sees at that moment,
\* whatever is interrupted: atomic replacement in persist_mempak.
SaveIsWhole ==
    \A p \in Ports : file'[p] # file[p] => file'[p] \in Images /\ file'[p] = mem[p]
SavesAreWhole == [][SaveIsWhole]_vars

\* "existing file preserved": neither a file that cannot be read, nor a good one
\* whose load failed in this session, is ever replaced.
UnreadableKept ==
    \A p \in Ports : file[p] = BadFile \/ (loaded[p] /\ ~valid[p]) => file'[p] = file[p]
UnreadablePreserved == [][UnreadableKept]_vars

\* Failed saves are retried on later frames until the pak is on disk.
DirtyIsSaved == \A p \in Ports : dirty[p] ~> ~dirty[p]

\* The game thread gets an answer to every pak operation, past the frame loop that
\* keeps taking the same mutex and past failing saves.
Answered == (stage # "idle") ~> (stage = "idle")

\* MACOS_REVIEW.md:59: Controller Pak data survives restart.  What the game sees
\* when the player quits between two pak operations is what the next start finds.
SurvivesQuit ==
    [][quits' # quits /\ stage = "idle" =>
            \A p \in Ports : loaded[p] /\ valid[p] => file[p] = mem[p]]_vars

\* The abstract store: what the game sees is memory once loaded, otherwise what
\* loading would find.
ViewOf(p) ==
    CASE loaded[p] /\ valid[p]               -> mem[p]
      [] loaded[p] /\ ~valid[p]              -> Unavailable
      [] ~loaded[p] /\ file[p] = NoFile      -> Blank
      [] ~loaded[p] /\ file[p] = BadFile     -> Unavailable
      [] ~loaded[p] /\ file[p] \in Images    -> file[p]

View == [p \in Ports |-> ViewOf(p)]

Store == INSTANCE PakStore WITH view <- View, saved <- file

\* The store with its threads, locks, temporary files and crashes implements the
\* abstract store.
ImplementsStore == Store!Spec
=============================================================================
