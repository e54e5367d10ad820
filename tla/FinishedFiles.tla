---------------------------- MODULE FinishedFiles ----------------------------
(***************************************************************************)
(* What becomes of a file once its last segment has arrived, and of the    *)
(* queue when the client dies: QueueManager::moveFile, the FileMover and   *)
(* Rechecker threads with the flag that starts them, Queue.xml as          *)
(* saveQueue writes and loadQueue reads it, the orderly shutdown, crashes. *)
(*                                                                         *)
(* What a file consists of is in SegmentedDownload; here a temporary or    *)
(* target file is absent, incomplete or whole, and that a transfer which   *)
(* ends leaves a whole temporary file is SegmentedDownload!KeepsPromise,   *)
(* with its exceptions; a target written in place is left to that module.  *)
(* Files are items of different names or contents: two of the same bare    *)
(* name and TTH would share one temporary file (QueueItem::getTempTarget). *)
(* A transfer stands for all the transfers of its file.                    *)
(* FileMover::moveFile is called with                                      *)
(* QueueManager::cs held, Rechecker::add by the user interface alone, so   *)
(* each worker has one caller at a time.                                   *)
(***************************************************************************)
EXTENDS Integers, Sequences

CONSTANTS
    Files,          \* the items, each with a temporary file of its own
    Name,           \* their bare file names, without the directories
    Settings,       \* values of SETTING(KEEP_FINISHED_FILES), and which files are
                    \* larger than MOVER_LIMIT, fixed in a behaviour
    MaxFaults,      \* BOUND: failures, crashes and shutdowns in a behaviour
    MaxRechecks     \* BOUND: rechecks asked for

ASSUME FilesAssumption ==
    /\ DOMAIN Name = Files
    /\ Settings \subseteq [keep : BOOLEAN, big : SUBSET Files]
    /\ {MaxFaults, MaxRechecks} \subseteq Nat

Workers  == {"mover", "rechecker"}
Contents == {"none", "part", "whole"}

VARIABLES
    item,       \* "queued", "finished" (kept), "reset" (once finished, then
                \* rechecked: unfinished, but in no UserQueue), "none"
    temp, target,   \* what is in the temporary and in the target file
    aside,      \* whole files moveFile_ could only rename, to their bare names
    running,    \* files a connection is writing
    files,      \* FileMover::files, Rechecker::files
    active,     \* FileMover::active, Rechecker::active
    thread,     \* the thread of each worker
    caller,     \* the thread inside moveFile or Rechecker::add
    moving,     \* moveFile_ under way in the mover's or the caller's thread
    check,      \* the file the Rechecker is at and how far it is
    saving,     \* saveQueue has deleted Queue.xml
    dirty,      \* QueueManager::dirty
    xml,        \* Queue.xml, NoXml if there is none
    phase,      \* the client is "up", "stopping", "joined" or "down"
    keep,       \* SETTING(KEEP_FINISHED_FILES)
    big,        \* the files larger than MOVER_LIMIT, the same in a behaviour
    owed,       \* history: the files of Queue.xml that were not given up since
    late,       \* history: files put into the queue of a thread that had found it empty
    used        \* how much of the bounds is used up

disk == <<temp, target, aside>>
set == <<keep, big>>
inbox == <<files, active, late>>
work == <<inbox, thread, caller, moving, check>>
rest == <<saving, dirty, xml, phase, set, owed>>
vars == <<item, disk, running, work, rest, used>>

NoFile == "no file"
NoXml  == [f \in {} |-> "none"]
NoCall == [file |-> NoFile, step |-> "none", stuck |-> FALSE]
NoMove == [file |-> NoFile, step |-> "none", what |-> "none"]
Move(f) == [file |-> f, step |-> "rename", what |-> "none"]
NoCheck == [file |-> NoFile, step |-> "none", good |-> FALSE]

Init ==
    /\ item = [f \in Files |-> "queued"] /\ xml = item
    /\ temp = [f \in Files |-> "none"] /\ target = temp /\ aside = {}
    /\ running = {}
    /\ files = [w \in Workers |-> <<>>]
    /\ active = [w \in Workers |-> FALSE]
    /\ thread = [w \in Workers |-> "none"]
    /\ caller = [w \in Workers |-> NoCall]
    /\ moving = [t \in {"mover", "caller"} |-> NoMove]
    /\ check = NoCheck
    /\ saving = FALSE /\ dirty = FALSE
    /\ phase = "up" /\ \E s \in Settings : keep = s.keep /\ big = s.big
    /\ owed = Files
    /\ late = [w \in Workers |-> {}]
    /\ used = [faults |-> 0, rechecks |-> 0]

Use(what, max) == used[what] < max /\ used' = [used EXCEPT ![what] = @ + 1]
Fault == Use("faults", MaxFaults)

\* QueueManager::cs is free: nobody is in moveFile or in saveQueue.
CsFree == caller["mover"] = NoCall /\ ~saving /\ phase # "down"

-----------------------------------------------------------------------------
(* FileMover and Rechecker: a queue, a flag, and a thread that is started  *)
(* by whoever finds the flag clear and ends when it finds the queue empty. *)

Push(w) ==
    /\ caller[w].step = "push"
    /\ files' = [files EXCEPT ![w] = Append(@, caller[w].file)]
    /\ late' = [late EXCEPT ![w] = IF thread[w] = "leave" THEN @ \cup {caller[w].file} ELSE @]
    /\ caller' = [caller EXCEPT ![w].step = "flag"]
    /\ UNCHANGED <<item, disk, running, active, thread, moving, check, rest, used>>

\* FileMover::moveFile and Rechecker::add return; the first to putDownload or
\* moveStuckFile.
Returned(w) ==
    [caller EXCEPT ![w] = IF w = "mover" THEN [@ EXCEPT !.step = "done"] ELSE NoCall]

TestAndSet(w) ==
    /\ caller[w].step = "flag"
    /\ active' = [active EXCEPT ![w] = TRUE]
    /\ caller' = IF active[w] THEN Returned(w) ELSE [caller EXCEPT ![w].step = "start"]
    /\ UNCHANGED <<item, disk, running, files, late, thread, moving, check, rest, used>>

\* Mutant: the flag is cleared as soon as the thread runs.
StartClears(w) ==
    /\ caller[w].step = "start"
    /\ thread[w] \in {"none", "ended"}
    /\ thread' = [thread EXCEPT ![w] = "pop"]
    /\ late' = [late EXCEPT ![w] = {}]
    /\ active' = [active EXCEPT ![w] = FALSE]
    /\ caller' = Returned(w)
    /\ UNCHANGED <<item, disk, running, files, moving, check, rest, used>>

\* Thread::start joins the thread before it starts it again.
Start(w) ==
    /\ caller[w].step = "start"
    /\ thread[w] \in {"none", "ended"}
    /\ thread' = [thread EXCEPT ![w] = "pop"]
    /\ late' = [late EXCEPT ![w] = {}]
    /\ caller' = Returned(w)
    /\ UNCHANGED <<item, disk, running, files, active, moving, check, rest, used>>

\* FileMover::run and Rechecker::run take the next file or leave the loop.
Pop(w) ==
    /\ thread[w] = "pop"
    /\ IF files[w] = <<>>
       THEN thread' = [thread EXCEPT ![w] = "leave"] /\ UNCHANGED <<files, moving, check>>
       ELSE /\ thread' = [thread EXCEPT ![w] = "work"]
            /\ files' = [files EXCEPT ![w] = Tail(@)]
            /\ IF w = "mover"
               THEN /\ moving' = [moving EXCEPT !["mover"] = Move(Head(files[w]))]
                    /\ UNCHANGED check
               ELSE /\ check' = [file |-> Head(files[w]), step |-> "look", good |-> FALSE]
                    /\ UNCHANGED moving
    /\ UNCHANGED <<item, disk, running, active, late, caller, rest, used>>

\* The scope guard of run() clears the flag; then the thread is gone.
Leave(w) ==
    /\ thread[w] = "leave"
    /\ thread' = [thread EXCEPT ![w] = "exit"]
    /\ active' = [active EXCEPT ![w] = FALSE]
    /\ UNCHANGED <<item, disk, running, files, late, caller, moving, check, rest, used>>

Exit(w) ==
    /\ thread[w] = "exit"
    /\ thread' = [thread EXCEPT ![w] = "ended"]
    /\ UNCHANGED <<item, disk, running, inbox, caller, moving, check, rest, used>>

-----------------------------------------------------------------------------
(* QueueManager::moveFile_, in the mover's thread or, for a small file, in *)
(* the caller's.                                                           *)

\* Mutant: the mover's thread moves one file.
ThroughLeaves(t) ==
    /\ moving' = [moving EXCEPT ![t] = NoMove]
    /\ IF t = "mover"
       THEN thread' = [thread EXCEPT !["mover"] = "leave"] /\ UNCHANGED caller
       ELSE caller' = [caller EXCEPT !["mover"].step = "done"] /\ UNCHANGED thread

\* The thread t goes on after moveFile_.
Through(t) ==
    /\ moving' = [moving EXCEPT ![t] = NoMove]
    /\ IF t = "mover"
       THEN thread' = [thread EXCEPT !["mover"] = "pop"] /\ UNCHANGED caller
       ELSE caller' = [caller EXCEPT !["mover"].step = "done"] /\ UNCHANGED thread

movedBy == <<item, running, inbox, check, rest>>

\* File::renameFile on one volume.
Rename(t) ==
    LET f == moving[t].file
    IN  /\ moving[t].step = "rename" /\ temp[f] # "none"
        /\ target' = [target EXCEPT ![f] = temp[f]]
        /\ temp' = [temp EXCEPT ![f] = "none"]
        /\ Through(t)
        /\ UNCHANGED <<aside, movedBy, used>>

\* Mutant: the source goes before the copy is complete.
CopyDestroys(t) ==
    LET f == moving[t].file
    IN  /\ moving[t].step = "rename" /\ temp[f] # "none"
        /\ target' = [target EXCEPT ![f] = "part"]
        /\ temp' = [temp EXCEPT ![f] = "none"]
        /\ moving' = [moving EXCEPT ![t].step = "copy", ![t].what = temp[f]]
        /\ UNCHANGED <<aside, thread, caller, movedBy, used>>

\* From one volume to another: File::copyFile, then File::deleteFile.
Copy(t) ==
    LET f == moving[t].file
    IN  /\ moving[t].step = "rename" /\ temp[f] # "none"
        /\ target' = [target EXCEPT ![f] = "part"]
        /\ moving' = [moving EXCEPT ![t].step = "copy", ![t].what = temp[f]]
        /\ UNCHANGED <<temp, aside, thread, caller, movedBy, used>>

Copied(t) ==
    /\ moving[t].step = "copy"
    /\ target' = [target EXCEPT ![moving[t].file] = moving[t].what]
    /\ moving' = [moving EXCEPT ![t].step = "delete"]
    /\ UNCHANGED <<temp, aside, thread, caller, movedBy, used>>

DeleteSource(t) ==
    /\ moving[t].step = "delete"
    /\ temp' = [temp EXCEPT ![moving[t].file] = "none"]
    /\ Through(t)
    /\ UNCHANGED <<target, aside, movedBy, used>>

\* The target cannot be written: the file is at least given its own bare name
\* where it is, if that works, in place of any file that has got the name before.
MoveFails(t) ==
    LET f     == moving[t].file
        there == {g \in aside : Name[g] = Name[f]}
    IN  /\ moving[t].step \in {"rename", "copy"} /\ temp[f] # "none"
        /\ Fault
        /\ \/ UNCHANGED <<temp, aside, owed>>
           \/ /\ aside' = (aside \ there) \cup (IF temp[f] = "whole" THEN {f} ELSE {})
              /\ temp' = [temp EXCEPT ![f] = "none"]
              /\ owed' = owed \ (there \ {f})
        /\ Through(t)
        /\ UNCHANGED <<target, item, running, inbox, check, saving, dirty, xml, phase, set>>

\* There is nothing to move (any more).
NothingToMove(t) ==
    /\ moving[t].step = "rename" /\ temp[moving[t].file] = "none"
    /\ Through(t)
    /\ UNCHANGED <<disk, movedBy, used>>

Moves(t) ==
    \/ Rename(t) \/ Copy(t) \/ Copied(t) \/ DeleteSource(t) \/ MoveFails(t)
    \/ NothingToMove(t)

-----------------------------------------------------------------------------
(* The queue: transfers, the user, rechecks.                               *)

\* QueueManager::moveFile is called, with cs held.
MoveFile(f, stuck) ==
    LET large == temp[f] # "none" /\ f \in big
    IN  /\ caller' = [caller EXCEPT !["mover"] =
                        [file |-> f, step |-> IF large THEN "push" ELSE "here", stuck |-> stuck]]
        /\ moving' = IF large THEN moving
                     ELSE [moving EXCEPT !["caller"] = Move(f)]

\* getDownload and Download::open.
Download(f) ==
    /\ phase = "up" /\ CsFree
    /\ item[f] = "queued" /\ f \notin running
    /\ running' = running \cup {f}
    /\ temp' = [temp EXCEPT ![f] = IF @ = "none" THEN "part" ELSE @]
    /\ owed' = IF check.file = f THEN owed \ {f} ELSE owed
    /\ UNCHANGED <<item, target, aside, work, saving, dirty, xml, phase, set, used>>

\* putDownload(d, true) of the last segment, up to the move.
Finish(f) ==
    /\ CsFree /\ f \in running /\ item[f] # "none"
    /\ running' = running \ {f}
    /\ temp' = [temp EXCEPT ![f] = IF @ = "none" THEN "none" ELSE "whole"]
    /\ MoveFile(f, FALSE)
    /\ UNCHANGED <<item, target, aside, inbox, thread, check, rest, used>>

\* The rest of putDownload or, without setDirty, of moveStuckFile.
Complete ==
    LET c == caller["mover"]
    IN  /\ c.step = "done"
        /\ item' = [item EXCEPT ![c.file] = IF keep THEN "finished" ELSE "none"]
        /\ dirty' = (dirty \/ ~c.stuck)
        /\ caller' = [caller EXCEPT !["mover"] = NoCall]
        /\ thread' = IF c.stuck THEN [thread EXCEPT !["rechecker"] = "pop"] ELSE thread
        /\ UNCHANGED <<disk, running, inbox, moving, check, saving, xml, phase, set,
                       owed, used>>

\* putDownload(d, false), or of a download whose item is gone: then the
\* temporary file is deleted.  What was not verified may have been overwritten.
Abort(f) ==
    /\ CsFree /\ f \in running
    /\ running' = running \ {f}
    /\ \/ /\ item[f] = "none"
          /\ temp' = [temp EXCEPT ![f] = "none"]
          /\ UNCHANGED used
       \/ /\ item[f] # "none" /\ Fault
          /\ temp' \in {temp, [temp EXCEPT ![f] = IF @ = "none" THEN "none" ELSE "part"]}
    /\ UNCHANGED <<item, target, aside, work, rest>>

\* QueueManager::remove.
Remove(f) ==
    /\ phase = "up" /\ CsFree
    /\ item[f] # "none"
    /\ item' = [item EXCEPT ![f] = "none"]
    /\ temp' = IF f \in running THEN temp ELSE [temp EXCEPT ![f] = "none"]
    /\ dirty' = TRUE
    /\ owed' = owed \ {f}
    /\ UNCHANGED <<target, aside, running, work, saving, xml, phase, set, used>>

\* QueueManager::recheck.
Recheck(f) ==
    /\ phase = "up" /\ caller["rechecker"] = NoCall /\ Use("rechecks", MaxRechecks)
    /\ item[f] # "none"
    /\ caller' = [caller EXCEPT !["rechecker"] =
                    [file |-> f, step |-> "push", stuck |-> FALSE]]
    /\ UNCHANGED <<item, disk, running, inbox, thread, moving, check, rest>>

\* `continue' in Rechecker::run.
NextCheck == check' = NoCheck /\ thread' = [thread EXCEPT !["rechecker"] = "pop"]

RecheckLook ==
    /\ check.step = "look" /\ CsFree
    /\ IF item[check.file] # "none" /\ temp[check.file] # "none" /\ check.file \notin running
       THEN check' = [check EXCEPT !.step = "reset"] /\ UNCHANGED thread
       ELSE NextCheck
    /\ UNCHANGED <<item, disk, running, inbox, caller, moving, rest, used>>

\* There may be no tree to check with.
RecheckReset ==
    /\ check.step = "reset" /\ CsFree
    /\ \/ /\ item[check.file] # "none"
          /\ item' = [item EXCEPT ![check.file] = IF @ = "finished" THEN "reset" ELSE @]
          /\ check' = [check EXCEPT !.step = "read"] /\ UNCHANGED thread
       \/ UNCHANGED item /\ NextCheck
    /\ UNCHANGED <<disk, running, inbox, caller, moving, rest, used>>

RecheckRead ==
    /\ check.step = "read"
    /\ check' = [check EXCEPT !.step = "judge", !.good = temp[check.file] = "whole"]
    /\ UNCHANGED <<item, disk, running, inbox, thread, caller, moving, rest, used>>

\* A whole file is moved although it was not known to be finished, even if a
\* transfer of it was started meanwhile, whose end deletes the temporary file.
RecheckJudge ==
    LET f == check.file
    IN  /\ check.step = "judge" /\ CsFree
        /\ \/ /\ item[f] # "none" /\ check.good
              /\ MoveFile(f, TRUE)
              /\ check' = NoCheck
              /\ UNCHANGED <<thread, dirty>>
           \/ /\ item[f] = "none" \/ ~check.good
              /\ NextCheck
              /\ dirty' = (dirty \/ item[f] # "none")
              /\ UNCHANGED <<caller, moving>>
        /\ UNCHANGED <<item, disk, running, inbox, saving, xml, phase, set, owed, used>>

-----------------------------------------------------------------------------
(* Queue.xml, the end of the client and its next start.                    *)

\* saveQueue holds cs: Queue.xml.tmp is written, which nobody reads, Queue.xml
\* deleted ...
SaveDeletes ==
    /\ CsFree
    /\ saving' = TRUE /\ xml' = NoXml
    /\ UNCHANGED <<item, disk, running, work, dirty, set, owed>>

\* ... and Queue.xml.tmp given its name, ...
SaveRenames ==
    /\ saving /\ saving' = FALSE
    /\ xml' = item /\ dirty' = FALSE
    /\ UNCHANGED <<item, disk, running, work, phase, set, owed, used>>

\* ... which may fail.
SaveFails ==
    /\ saving /\ saving' = FALSE
    /\ Fault
    /\ UNCHANGED <<item, disk, running, work, dirty, xml, phase, set, owed>>

\* on(TimerManagerListener::Second).
Save ==
    \/ phase = "up" /\ dirty /\ SaveDeletes /\ UNCHANGED <<phase, used>>
    \/ SaveRenames \/ SaveFails

\* shutdown(): the connections are gone, the queue is saved, ...
Shutdown ==
    /\ phase = "up" /\ running = {} /\ caller["rechecker"] = NoCall
    /\ Fault
    /\ phase' = "stopping"
    /\ SaveDeletes

\* Mutant: the members are destroyed in the order of their declaration.
JoinInOrder == IF phase = "stopping" THEN "mover" ELSE "rechecker"

\* ... then ~QueueManager destroys its members, the last declared one first: a
\* Rechecker may still call the mover.
Join == IF phase = "stopping" THEN "rechecker" ELSE "mover"

JoinWorkers ==
    /\ phase \in {"stopping", "joined"} /\ ~saving
    /\ thread[Join] \in {"none", "ended"}
    /\ phase' = IF phase = "stopping" THEN "joined" ELSE "down"
    /\ UNCHANGED <<item, disk, running, work, saving, dirty, xml, set, owed, used>>

\* loadQueue: a queue that cannot be read is empty.
Loaded ==
    IF xml = NoXml THEN [f \in Files |-> "none"]
    ELSE [f \in Files |-> IF xml[f] = "reset" THEN "queued" ELSE xml[f]]

\* What a process leaves behind, and the start of the next one.
Reborn ==
    /\ item' = Loaded
    /\ dirty' = (xml = NoXml)
    /\ running' = {}
    /\ files' = [w \in Workers |-> <<>>]
    /\ active' = [w \in Workers |-> FALSE]
    /\ late' = [w \in Workers |-> {}]
    /\ thread' = [w \in Workers |-> "none"]
    /\ caller' = [w \in Workers |-> NoCall]
    /\ moving' = [t \in {"mover", "caller"} |-> NoMove]
    /\ check' = NoCheck
    /\ saving' = FALSE
    /\ phase' = "up"
    /\ owed' = IF xml = NoXml THEN {} ELSE owed
    /\ UNCHANGED <<disk, xml, set>>

Crash   == phase # "down" /\ Fault /\ Reborn
Restart == phase = "down" /\ Reborn /\ UNCHANGED used

-----------------------------------------------------------------------------
Worker(w) == Pop(w) \/ Leave(w) \/ Exit(w)
Caller(w) == Push(w) \/ TestAndSet(w) \/ Start(w)
Rechecks  == RecheckLook \/ RecheckReset \/ RecheckRead \/ RecheckJudge

Next ==
    \/ \E w \in Workers : Worker(w) \/ Caller(w)
    \/ \E t \in {"mover", "caller"} : Moves(t)
    \/ Complete \/ Rechecks
    \/ \E f \in Files :
          \/ Download(f) \/ Finish(f) \/ Abort(f)
          \/ Remove(f) \/ Recheck(f)
    \/ Save \/ Shutdown \/ JoinWorkers
    \/ Crash \/ Restart

Spec == Init /\ [][Next]_vars

-----------------------------------------------------------------------------
(* Properties                                                              *)

TypeOK ==
    /\ item \in [Files -> {"queued", "finished", "reset", "none"}]
    /\ temp \in [Files -> Contents] /\ target \in [Files -> Contents]
    /\ aside \subseteq Files /\ running \subseteq Files /\ owed \subseteq Files
    /\ late \in [Workers -> SUBSET Files]
    /\ \A w \in Workers : files[w] \in Seq(Files)
    /\ active \in [Workers -> BOOLEAN]
    /\ thread \in [Workers -> {"none", "pop", "work", "leave", "exit", "ended"}]
    /\ caller \in [Workers -> [file : Files \cup {NoFile}, stuck : BOOLEAN,
                       step : {"none", "push", "flag", "start", "here", "done"}]]
    /\ moving \in [{"mover", "caller"} -> [file : Files \cup {NoFile},
                       step : {"none", "rename", "copy", "delete"}, what : Contents]]
    /\ check.step \in {"none", "look", "reset", "read", "judge"}
    /\ saving \in BOOLEAN /\ dirty \in BOOLEAN
    /\ phase \in {"up", "stopping", "joined", "down"} /\ keep \in BOOLEAN /\ big \subseteq Files

\* A file Queue.xml once held is still to be downloaded, or it is there, whole:
\* under its name, beside its temporary name or still under that; whatever
\* crashes, moves that fail half-way and saves that fail.  It is given up when
\*   - the user removes it, a kept finished entry included (QueueManager::remove);
\*   - the client starts without a Queue.xml: after a crash between the two steps
\*     of a save, or after a save that failed and was not repeated, be the end
\*     orderly or not (saveQueue, loadQueue);
\*   - a download of it is started while it is being rechecked (Rechecker::run);
\*   - another file of the same bare name cannot be moved either and is renamed
\*     over the copy in the temporary directory (moveFile_);
\* and by nothing else.
NothingVanishes ==
    \A f \in owed : \/ item[f] \in {"queued", "reset"}
                    \/ temp[f] = "whole" \/ target[f] = "whole" \/ f \in aside

\* The thread that moves a finished file to the mover, and with it everybody who
\* wants QueueManager::cs, never waits for a file to be moved: the mover it joins
\* in Thread::start is past its last file.
JoinIsShort ==
    \A w \in Workers : caller[w].step = "start" => thread[w] \in {"none", "exit", "ended"}

\* When the client has ended in order no file is left half moved by it: there is
\* no mover any more, nor anybody who could start one.
EndsInOrder ==
    phase = "down" => /\ \A w \in Workers : thread[w] \in {"none", "ended"}
                      /\ moving["mover"] = NoMove /\ caller["mover"] = NoCall

\* A file waits for a thread that is not coming only if it was put into the queue
\* after the last thread had found it empty and before that cleared its flag.
OnlyLateWait ==
    \A w \in Workers :
        \/ files[w] = <<>>
        \/ caller[w].step \in {"flag", "start"} \/ thread[w] \in {"pop", "work"}
        \/ \A i \in DOMAIN files[w] : files[w][i] \in late[w]
=============================================================================
