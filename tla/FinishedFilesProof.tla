------------------------- MODULE FinishedFilesProof -------------------------
(***************************************************************************)
(* Proofs about finished files and the two worker threads, for any number  *)
(* of files, failures and rechecks.                                        *)
(***************************************************************************)
EXTENDS FinishedFiles, TLAPS

-----------------------------------------------------------------------------
(* Types                                                                   *)

Items  == {"queued", "finished", "reset", "none"}
Named  == Files \cup {NoFile}
Movers == {"mover", "caller"}

Calls  == [file : Named, stuck : BOOLEAN,
           step : {"none", "push", "flag", "start", "here", "done"}]
Copies == [file : Named, step : {"none", "rename", "copy", "delete"}, what : Contents]
Checks == [file : Named, step : {"none", "look", "reset", "read", "judge"}, good : BOOLEAN]

DiskType ==
    /\ item \in [Files -> Items]
    /\ temp \in [Files -> Contents] /\ target \in [Files -> Contents]
    /\ aside \subseteq Files /\ running \subseteq Files /\ owed \subseteq Files
    /\ xml = NoXml \/ xml \in [Files -> Items]
    /\ saving \in BOOLEAN /\ dirty \in BOOLEAN
    /\ phase \in {"up", "stopping", "joined", "down"}
    /\ keep \in BOOLEAN /\ big \subseteq Files

\* A call, a move or a check that is under way is about a file, and who moves a
\* small file is inside QueueManager::moveFile.
WorkType ==
    /\ files \in [Workers -> Seq(Files)]
    /\ active \in [Workers -> BOOLEAN]
    /\ late \in [Workers -> SUBSET Files]
    /\ thread \in [Workers -> {"none", "pop", "work", "leave", "exit", "ended"}]
    /\ caller \in [Workers -> Calls]
    /\ moving \in [Movers -> Copies]
    /\ check \in Checks
    /\ \A w \in Workers : caller[w] = NoCall \/ (caller[w].step # "none" /\ caller[w].file \in Files)
    /\ \A t \in Movers : moving[t] = NoMove \/ (moving[t].step # "none" /\ moving[t].file \in Files)
    /\ check.step # "none" => check.file \in Files
    /\ moving["caller"] # NoMove => caller["mover"].step = "here"

Types == DiskType /\ WorkType

\* The steps of the queues and of the worker threads.
LEMMA WorkersType ==
    ASSUME Types, NEW w \in Workers, Worker(w) \/ Caller(w)
    PROVE  Types'
<1> USE DEF Types
<1>1. DiskType'
  BY DEF Worker, Caller, Pop, Leave, Exit, Push, TestAndSet, Start, DiskType, disk, rest, set
<1>2. CASE Pop(w)
  <2>1. CASE files[w] = <<>>
    BY <1>1, <1>2, <2>1 DEF Pop, WorkType
  <2>2. CASE files[w] # <<>>
    <3>1. Head(files[w]) \in Files /\ Tail(files[w]) \in Seq(Files)
      BY <2>2 DEF WorkType
    <3>2. Move(Head(files[w])) \in Copies /\ Move(Head(files[w])).step # "none"
      BY <3>1 DEF Move, Copies, Named, Contents
    <3>3. [file |-> Head(files[w]), step |-> "look", good |-> FALSE] \in Checks
      BY <3>1 DEF Checks, Named
    <3>4. Move(Head(files[w])).file \in Files
      BY <3>1 DEF Move
    <3>5. moving' \in [Movers -> Copies]
          /\ \A t \in Movers :
                moving'[t] = NoMove \/ (moving'[t].step # "none" /\ moving'[t].file \in Files)
      BY <1>2, <2>2, <3>2, <3>4 DEF Pop, WorkType, Movers
    <3>6. check' \in Checks /\ (check'.step # "none" => check'.file \in Files)
      <4>1. CASE check' = check
        BY <4>1 DEF WorkType
      <4>2. CASE check' = [file |-> Head(files[w]), step |-> "look", good |-> FALSE]
        BY <3>1, <3>3, <4>2
      <4> QED
        BY <1>2, <2>2, <4>1, <4>2 DEF Pop
    <3>7. files' \in [Workers -> Seq(Files)]
      BY <1>2, <2>2, <3>1 DEF Pop, WorkType
    <3> QED
      BY <1>1, <1>2, <2>2, <3>5, <3>6, <3>7 DEF Pop, WorkType, Movers
  <2> QED
    BY <2>1, <2>2
<1>3. CASE Leave(w)
  BY <1>1, <1>3 DEF Leave, WorkType
<1>4. CASE Exit(w)
  BY <1>1, <1>4 DEF Exit, inbox, WorkType
<1>5. CASE Push(w)
  <2>1. caller[w].file \in Files
    BY <1>5 DEF Push, WorkType, NoCall
  <2>2. [caller[w] EXCEPT !.step = "flag"] \in Calls
    BY DEF WorkType, Calls
  <2>3. files' \in [Workers -> Seq(Files)] /\ late' \in [Workers -> SUBSET Files]
    BY <1>5, <2>1 DEF Push, WorkType
  <2> QED
    BY <1>1, <1>5, <2>1, <2>2, <2>3 DEF Push, WorkType, Calls
<1>6. CASE TestAndSet(w) \/ Start(w)
  <2>1. /\ caller[w].file \in Files /\ caller[w] \in Calls
        /\ caller[w].step # "none"
    BY <1>6 DEF TestAndSet, Start, WorkType, NoCall
  <2>2. /\ NoCall \in Calls
        /\ \A s \in {"start", "done"} : /\ [caller[w] EXCEPT !.step = s] \in Calls
                                        /\ [caller[w] EXCEPT !.step = s].step = s
                                        /\ [caller[w] EXCEPT !.step = s].file = caller[w].file
    BY <2>1 DEF Calls, NoCall, Named
  <2>3. \E call \in Calls :
            /\ caller' = [caller EXCEPT ![w] = call]
            /\ call = NoCall \/ (call.step # "none" /\ call.file \in Files)
    BY <1>6, <2>1, <2>2 DEF TestAndSet, Start, Returned
  <2>4. moving["caller"] # NoMove => caller'["mover"] = caller["mover"]
    BY <1>6, <2>3 DEF TestAndSet, Start, WorkType, Workers
  <2> QED
    BY <1>1, <1>6, <2>3, <2>4 DEF TestAndSet, Start, WorkType
<1> QED
  BY <1>2, <1>3, <1>4, <1>5, <1>6 DEF Worker, Caller

\* The steps of moveFile_.
LEMMA MovesType ==
    ASSUME Types, NEW t \in Movers, Moves(t)
    PROVE  Types'
<1> USE DEF Types
<1>1. /\ moving[t].file \in Files /\ moving[t] \in Copies /\ moving[t].what \in Contents
      /\ temp[moving[t].file] \in Contents
  BY DEF Moves, Rename, Copy, Copied, DeleteSource, MoveFails, NothingToMove, DiskType, WorkType,
     NoMove, Copies
<1>2. DiskType'
  <2>1. temp' \in [Files -> Contents] /\ target' \in [Files -> Contents] /\ aside' \subseteq Files
    BY <1>1 DEF Moves, Rename, Copy, Copied, DeleteSource, MoveFails, NothingToMove, DiskType,
       Contents, disk
  <2>2. /\ UNCHANGED <<item, running, xml, saving, dirty, phase, keep, big>>
        /\ owed' \subseteq owed
    BY DEF Moves, Rename, Copy, Copied, DeleteSource, MoveFails, NothingToMove, movedBy, rest, set
  <2> QED
    BY <2>1, <2>2 DEF DiskType
<1>3. UNCHANGED <<files, active, late, check>>
  BY DEF Moves, Rename, Copy, Copied, DeleteSource, MoveFails, NothingToMove, movedBy, inbox
<1>4. CASE Through(t)
  <2>1. NoMove \in Copies
    BY DEF NoMove, Copies, Named, Contents
  <2>2. t = "caller" => caller["mover"].step = "here"
    BY DEF Moves, Rename, Copy, Copied, DeleteSource, MoveFails, NothingToMove, WorkType, NoMove
  <2>3. caller' \in [Workers -> Calls] /\ \A w \in Workers :
           caller'[w] = NoCall \/ (caller'[w].step # "none" /\ caller'[w].file \in Files)
    <3>1. caller["mover"] \in Calls /\ [caller["mover"] EXCEPT !.step = "done"] \in Calls
      BY DEF WorkType, Calls, Workers
    <3>2. CASE t = "mover"
      BY <1>4, <3>2 DEF Through, WorkType
    <3>3. CASE t = "caller"
      <4>1. caller["mover"].file \in Files
        BY <2>2, <3>3 DEF WorkType, NoCall, Workers
      <4>2. caller' = [caller EXCEPT !["mover"] = [caller["mover"] EXCEPT !.step = "done"]]
        BY <1>4, <3>3 DEF Through
      <4> QED
        BY <3>1, <4>1, <4>2 DEF WorkType, Calls
    <3> QED
      BY <3>2, <3>3 DEF Movers
  <2>4. moving' \in [Movers -> Copies] /\ \A s \in Movers :
           moving'[s] = NoMove \/ (moving'[s].step # "none" /\ moving'[s].file \in Files)
    BY <1>4, <2>1 DEF Through, WorkType
  <2>5. thread' \in [Workers -> {"none", "pop", "work", "leave", "exit", "ended"}]
    BY <1>4 DEF Through, WorkType
  <2>6. moving'["caller"] # NoMove => caller'["mover"].step = "here"
    BY <1>4 DEF Through, WorkType, Movers
  <2> QED
    BY <1>2, <1>3, <1>4, <2>3, <2>4, <2>5, <2>6 DEF WorkType
<1>5. CASE UNCHANGED <<thread, caller>> /\ (Copy(t) \/ Copied(t))
  <2>1. PICK m \in Copies : /\ moving' = [moving EXCEPT ![t] = m]
                            /\ m.step # "none" /\ m.file \in Files
    <3>1. CASE Copy(t)
      <4>1. [moving[t] EXCEPT !.step = "copy", !.what = temp[moving[t].file]] \in Copies
        BY <1>1 DEF Copies
      <4> QED
        BY <1>1, <3>1, <4>1 DEF Copy, Copies
    <3>2. CASE Copied(t)
      <4>1. [moving[t] EXCEPT !.step = "delete"] \in Copies
        BY <1>1 DEF Copies
      <4> QED
        BY <1>1, <3>2, <4>1 DEF Copied, Copies
    <3> QED
      BY <1>5, <3>1, <3>2
  <2>2. moving'["caller"] # NoMove => moving["caller"] # NoMove
    BY <1>5, <2>1 DEF Copy, Copied, NoMove, WorkType, Movers
  <2> QED
    BY <1>2, <1>3, <1>5, <2>1, <2>2 DEF WorkType
<1> QED
  BY <1>4, <1>5 DEF Moves, Rename, Copy, Copied, DeleteSource, MoveFails, NothingToMove

\* QueueManager::moveFile is called for f.
LEMMA MoveFileType ==
    ASSUME WorkType, NEW f \in Files, NEW stuck \in BOOLEAN, MoveFile(f, stuck), CsFree
    PROVE  /\ caller' \in [Workers -> Calls] /\ moving' \in [Movers -> Copies]
           /\ \A w \in Workers :
                caller'[w] = NoCall \/ (caller'[w].step # "none" /\ caller'[w].file \in Files)
           /\ \A t \in Movers :
                moving'[t] = NoMove \/ (moving'[t].step # "none" /\ moving'[t].file \in Files)
           /\ moving'["caller"] # NoMove => caller'["mover"].step = "here"
<1>1. PICK s \in {"push", "here"} :
          caller' = [caller EXCEPT !["mover"] = [file |-> f, step |-> s, stuck |-> stuck]]
  BY DEF MoveFile
<1>2. \A s2 \in {"push", "here"} : [file |-> f, step |-> s2, stuck |-> stuck] \in Calls
  BY DEF Calls, Named
<1>3. moving' = moving \/ moving' = [moving EXCEPT !["caller"] = Move(f)]
  BY DEF MoveFile
<1>4. Move(f) \in Copies /\ Move(f).step # "none" /\ Move(f).file \in Files
  BY DEF Move, Copies, Named, Contents
<1>5. moving["caller"] = NoMove
  BY DEF WorkType, CsFree, NoCall
<1>6. moving'["caller"] # NoMove => caller'["mover"].step = "here"
  BY <1>5 DEF MoveFile, WorkType, Workers
<1>7. caller' \in [Workers -> Calls] /\ \A w \in Workers :
         caller'[w] = NoCall \/ (caller'[w].step # "none" /\ caller'[w].file \in Files)
  BY <1>1, <1>2 DEF WorkType
<1>8. moving' \in [Movers -> Copies] /\ \A t \in Movers :
         moving'[t] = NoMove \/ (moving'[t].step # "none" /\ moving'[t].file \in Files)
  BY <1>3, <1>4 DEF WorkType
<1> QED
  BY <1>6, <1>7, <1>8

\* The steps of the queue's operations.
LEMMA QueueType ==
    ASSUME Types, NEW f \in Files,
           Download(f) \/ Finish(f) \/ Abort(f) \/ Remove(f) \/ Recheck(f)
    PROVE  Types'
<1> USE DEF Types
<1>1. CASE Download(f)
  BY <1>1 DEF Download, DiskType, WorkType, work, inbox, set, Contents
<1>2. CASE Finish(f)
  <2>1. DiskType'
    BY <1>2 DEF Finish, DiskType, rest, set, Contents
  <2> QED
    BY <1>2, <2>1, MoveFileType DEF Finish, WorkType, inbox
<1>3. CASE Abort(f)
  <2>1. temp' \in [Files -> Contents]
    BY <1>3 DEF Abort, DiskType, Contents
  <2> QED
    BY <1>3, <2>1 DEF Abort, DiskType, WorkType, work, inbox, rest, set
<1>4. CASE Remove(f)
  BY <1>4 DEF Remove, DiskType, WorkType, work, inbox, set, Contents, Items
<1>5. CASE Recheck(f)
  <2>1. [file |-> f, step |-> "push", stuck |-> FALSE] \in Calls
    BY DEF Calls, Named
  <2>2. caller'["mover"] = caller["mover"]
    BY <1>5 DEF Recheck, WorkType, Workers
  <2> QED
    BY <1>5, <2>1, <2>2 DEF Recheck, DiskType, WorkType, disk, inbox, rest, set
<1> QED
  BY <1>1, <1>2, <1>3, <1>4, <1>5

\* The rest of putDownload, and the steps of a recheck.
LEMMA RecheckType ==
    ASSUME Types, Complete \/ Rechecks
    PROVE  Types'
<1> USE DEF Types
<1>1. CASE Complete
  <2>1. caller["mover"].file \in Files /\ NoCall \in Calls
    BY <1>1 DEF Complete, WorkType, Workers, NoCall, Calls, Named
  <2>2. DiskType'
    BY <1>1, <2>1 DEF Complete, DiskType, disk, set, Items
  <2> QED
    BY <1>1, <2>1, <2>2 DEF Complete, WorkType, inbox
<1>2. NoCheck \in Checks /\ NoCheck.step = "none"
  BY DEF NoCheck, Checks, Named
<1>3. CASE RecheckLook
  <2>1. [check EXCEPT !.step = "reset"] \in Checks
    BY DEF WorkType, Checks
  <2> QED
    BY <1>2, <1>3, <2>1 DEF RecheckLook, NextCheck, DiskType, WorkType, disk, inbox, rest, set, Checks
<1>4. CASE RecheckReset
  <2>1. [check EXCEPT !.step = "read"] \in Checks /\ check.file \in Files
    BY <1>4 DEF RecheckReset, WorkType, Checks
  <2>2. DiskType'
    BY <1>4, <2>1 DEF RecheckReset, DiskType, disk, rest, set, Items
  <2> QED
    BY <1>2, <1>4, <2>1, <2>2 DEF RecheckReset, NextCheck, WorkType, inbox, Checks
<1>5. CASE RecheckRead
  <2>1. check' \in Checks /\ check'.file \in Files
    BY <1>5 DEF RecheckRead, WorkType, Checks
  <2> QED
    BY <1>5, <2>1 DEF RecheckRead, DiskType, WorkType, disk, inbox, rest, set
<1>6. CASE RecheckJudge
  <2>1. check.file \in Files
    BY <1>6 DEF RecheckJudge, WorkType
  <2>2. DiskType'
    BY <1>6 DEF RecheckJudge, DiskType, disk, set
  <2> QED
    BY <1>2, <1>6, <2>1, <2>2, MoveFileType DEF RecheckJudge, NextCheck, WorkType, inbox
<1> QED
  BY <1>1, <1>3, <1>4, <1>5, <1>6 DEF Rechecks

\* Saving, ending and starting again.
LEMMA ProcessType ==
    ASSUME Types, Save \/ Shutdown \/ JoinWorkers \/ Crash \/ Restart
    PROVE  Types'
<1> USE DEF Types
<1>1. CASE Save \/ Shutdown
  BY <1>1 DEF Save, Shutdown, SaveDeletes, SaveRenames, SaveFails, DiskType, WorkType, disk, work,
     inbox, set
<1>2. CASE JoinWorkers
  BY <1>2 DEF JoinWorkers, DiskType, WorkType, disk, work, inbox, set
<1>3. CASE Reborn
  <2>1. Loaded \in [Files -> Items]
    BY DEF Loaded, DiskType, Items
  <2>2. DiskType'
    BY <1>3, <2>1 DEF Reborn, DiskType, disk, set
  <2>3. NoCall \in Calls /\ NoMove \in Copies /\ NoCheck \in Checks /\ NoCheck.step = "none"
    BY DEF NoCall, NoMove, NoCheck, Calls, Copies, Checks, Named, Contents
  <2>4. <<>> \in Seq(Files)
    OBVIOUS
  <2> QED
    BY <1>3, <2>2, <2>3, <2>4 DEF Reborn, WorkType, Movers
<1> QED
  BY <1>1, <1>2, <1>3 DEF Crash, Restart

\* Every step keeps the types, disk and work parts together.
LEMMA TypesStep ==
    ASSUME Types, [Next]_vars
    PROVE  Types'
<1>1. CASE UNCHANGED vars
  BY <1>1 DEF vars, Types, DiskType, WorkType, disk, work, inbox, rest, set
<1> QED
  BY <1>1, WorkersType, MovesType, QueueType, RecheckType, ProcessType DEF Next, Movers

\* The initial state has its types: nothing copied, moved or checked.
LEMMA TypesInit ==
    ASSUME Init
    PROVE  Types
<1>1. NoCall \in Calls /\ NoMove \in Copies /\ NoCheck \in Checks /\ NoCheck.step = "none"
  BY DEF NoCall, NoMove, NoCheck, Calls, Copies, Checks, Named, Contents
<1>2. <<>> \in Seq(Files)
  OBVIOUS
<1>3. DiskType
  BY FilesAssumption DEF Init, DiskType, Items, Contents
<1> QED
  BY <1>1, <1>2, <1>3 DEF Init, Types, WorkType, Movers

\* Everything the client keeps about finished files has its type.
THEOREM TypesHold == Spec => []TypeOK
<1>1. Init => Types
  BY TypesInit
<1>2. Types /\ [Next]_vars => Types'
  BY TypesStep
<1>3. Types => TypeOK
  BY DEF Types, DiskType, WorkType, TypeOK, Items, Movers, Calls, Copies, Checks, Named
<1> QED
  BY <1>1, <1>2, <1>3, PTL DEF Spec

-----------------------------------------------------------------------------
(* The flag, the threads and the end of the client                         *)

\* A worker's flag is set while its thread is before Leave or about to be
\* started; and whoever moves, checks or reports a stuck file is that thread.
WorkerInv ==
    /\ \A w \in Workers : active[w] <=> (thread[w] \in {"pop", "work", "leave"}
                                         \/ caller[w].step = "start")
    /\ JoinIsShort
    /\ moving["mover"] # NoMove => thread["mover"] = "work"
    /\ check.step # "none" => thread["rechecker"] = "work"
    /\ caller["mover"].stuck => thread["rechecker"] = "work" /\ check.step = "none"

\* After the connections only the rechecker calls the mover, and it ends first.
EndInv ==
    /\ phase # "up" => /\ running = {} /\ caller["rechecker"] = NoCall
                       /\ caller["mover"] = NoCall \/ caller["mover"].stuck
    /\ phase \in {"joined", "down"} => thread["rechecker"] \in {"none", "ended"}
    /\ phase = "down" => thread["mover"] \in {"none", "ended"}

Inv == Types /\ WorkerInv /\ EndInv

\* The values the proofs look up.
LEMMA Fields ==
    ASSUME Types
    PROVE  /\ Workers = {"mover", "rechecker"}
           /\ \A w \in Workers : caller[w] \in Calls
           /\ NoCall.step = "none" /\ NoCall.stuck = FALSE
           /\ NoMove.step = "none" /\ NoCheck.step = "none"
BY DEF Types, WorkType, Workers, NoCall, NoMove, NoCheck

\* A caller goes on to the next step of its call.
LEMMA CallerGoes ==
    ASSUME Types, NEW w \in Workers, NEW s, caller' = [caller EXCEPT ![w].step = s]
    PROVE  /\ caller'[w].step = s /\ caller'[w].stuck = caller[w].stuck
           /\ \A v \in Workers \ {w} : caller'[v] = caller[v]
BY DEF Types, WorkType, Calls

\* FileMover::moveFile or Rechecker::add returns.
LEMMA CallerReturns ==
    ASSUME Types, NEW w \in Workers, caller' = Returned(w)
    PROVE  /\ caller'[w].step \in {"done", "none"}
           /\ w = "mover" => caller'[w].stuck = caller[w].stuck
           /\ w = "rechecker" => caller'[w] = NoCall
           /\ \A v \in Workers \ {w} : caller'[v] = caller[v]
<1>1. CASE w = "mover"
  BY <1>1 DEF Types, WorkType, Calls, Returned, Workers
<1>2. CASE w = "rechecker"
  BY <1>2 DEF Types, WorkType, Calls, Returned, Workers, NoCall
<1> QED
  BY <1>1, <1>2 DEF Workers

\* The steps of the threads of the two workers.
LEMMA ThreadsInv ==
    ASSUME Inv, NEW w \in Workers, Worker(w)
    PROVE  WorkerInv' /\ EndInv'
<1>1. Types /\ WorkerInv /\ EndInv /\ UNCHANGED <<caller, phase, running>>
  BY DEF Inv, Worker, Pop, Leave, Exit, rest
<1>2. CASE Pop(w)
  <2>1. /\ thread[w] = "pop" /\ thread'[w] \in {"work", "leave"} /\ UNCHANGED active
        /\ \A v \in Workers \ {w} : thread'[v] = thread[v]
    BY <1>1, <1>2 DEF Pop, Types, WorkType
  <2>2. moving["mover"] = moving'["mover"] \/ (w = "mover" /\ thread'[w] = "work")
    BY <1>1, <1>2 DEF Pop, Types, WorkType, Workers
  <2>3. check = check' \/ (w = "rechecker" /\ thread'[w] = "work")
    BY <1>1, <1>2 DEF Pop, Types, WorkType, Workers
  <2>4. WorkerInv'
    BY <1>1, <2>1, <2>2, <2>3, Fields DEF WorkerInv, JoinIsShort
  <2> QED
    BY <1>1, <2>1, <2>4, Fields DEF EndInv
<1>3. CASE Leave(w)
  <2>1. /\ thread[w] = "leave" /\ thread'[w] = "exit" /\ ~active'[w]
        /\ \A v \in Workers \ {w} : thread'[v] = thread[v] /\ active'[v] = active[v]
        /\ UNCHANGED <<moving, check>>
    BY <1>1, <1>3 DEF Leave, Types, WorkType
  <2>2. WorkerInv'
    BY <1>1, <2>1, Fields DEF WorkerInv, JoinIsShort
  <2> QED
    BY <1>1, <2>1, <2>2, Fields DEF EndInv
<1>4. CASE Exit(w)
  <2>1. /\ thread[w] = "exit" /\ thread'[w] = "ended"
        /\ \A v \in Workers \ {w} : thread'[v] = thread[v]
        /\ UNCHANGED <<moving, check, active>>
    BY <1>1, <1>4 DEF Exit, Types, WorkType, inbox
  <2>2. WorkerInv'
    BY <1>1, <2>1, Fields DEF WorkerInv, JoinIsShort
  <2> QED
    BY <1>1, <2>1, <2>2, Fields DEF EndInv
<1> QED
  BY <1>2, <1>3, <1>4 DEF Worker

\* The steps of a thread in FileMover::moveFile or Rechecker::add.
LEMMA CallersInv ==
    ASSUME Inv, NEW w \in Workers, Caller(w)
    PROVE  WorkerInv' /\ EndInv'
<1>1. Types /\ WorkerInv /\ EndInv /\ UNCHANGED <<phase, running, moving, check>>
  BY DEF Inv, Caller, Push, TestAndSet, Start, rest
<1>2. caller[w].step \in {"push", "flag", "start"}
  BY DEF Caller, Push, TestAndSet, Start
<1>3. phase # "up" => w = "mover" /\ caller["mover"].stuck
  BY <1>1, <1>2, Fields DEF EndInv
<1>4. phase \notin {"joined", "down"}
  BY <1>1, <1>3 DEF EndInv, WorkerInv
<1>5. CASE Push(w)
  <2>1. /\ caller'[w].step = "flag" /\ caller'[w].stuck = caller[w].stuck
        /\ \A v \in Workers \ {w} : caller'[v] = caller[v]
    BY <1>1, <1>5, CallerGoes DEF Push
  <2>2. UNCHANGED <<thread, active>> /\ caller[w].step = "push"
    BY <1>5 DEF Push
  <2>3. WorkerInv'
    BY <1>1, <2>1, <2>2, Fields DEF WorkerInv, JoinIsShort
  <2> QED
    BY <1>1, <1>3, <1>4, <2>1, <2>3, Fields DEF EndInv
<1>6. CASE TestAndSet(w)
  <2>1. /\ active'[w] /\ (\A v \in Workers \ {w} : active'[v] = active[v])
        /\ UNCHANGED thread /\ caller[w].step = "flag"
    BY <1>1, <1>6 DEF TestAndSet, Types, WorkType
  <2>2. /\ caller'[w].step \in {"start", "done", "none"}
        /\ caller'[w].step = "start" <=> ~active[w]
        /\ w = "mover" => caller'[w].stuck = caller[w].stuck
        /\ \A v \in Workers \ {w} : caller'[v] = caller[v]
    <3>1. CASE active[w]
      BY <1>1, <1>6, <3>1, CallerReturns DEF TestAndSet
    <3>2. CASE ~active[w]
      <4>1. caller' = [caller EXCEPT ![w].step = "start"]
        BY <1>6, <3>2 DEF TestAndSet
      <4> QED
        BY <1>1, <3>2, <4>1, CallerGoes
    <3> QED
      BY <3>1, <3>2
  <2>3. thread[w] \in {"none", "pop", "work", "leave", "exit", "ended"}
    BY <1>1 DEF Types, WorkType
  <2>4. WorkerInv'
    <3>1. JoinIsShort'
      BY <1>1, <2>1, <2>2, <2>3 DEF WorkerInv, JoinIsShort
    <3>2. \A v \in Workers : active'[v] <=> (thread'[v] \in {"pop", "work", "leave"}
                                            \/ caller'[v].step = "start")
      BY <1>1, <2>1, <2>2, <2>3 DEF WorkerInv
    <3> QED
      BY <1>1, <2>1, <2>2, <3>1, <3>2, Fields DEF WorkerInv
  <2> QED
    BY <1>1, <1>3, <1>4, <2>2, <2>4, Fields DEF EndInv
<1>7. CASE Start(w)
  <2>1. /\ thread'[w] = "pop" /\ (\A v \in Workers \ {w} : thread'[v] = thread[v])
        /\ UNCHANGED active /\ caller[w].step = "start"
        /\ thread[w] \in {"none", "ended"}
    BY <1>1, <1>7 DEF Start, Types, WorkType
  <2>2. /\ caller'[w].step \in {"done", "none"}
        /\ w = "mover" => caller'[w].stuck = caller[w].stuck
        /\ \A v \in Workers \ {w} : caller'[v] = caller[v]
    BY <1>1, <1>7, CallerReturns DEF Start
  <2>3. WorkerInv'
    BY <1>1, <2>1, <2>2, Fields DEF WorkerInv, JoinIsShort
  <2> QED
    BY <1>1, <1>3, <1>4, <2>2, <2>3, Fields DEF EndInv
<1> QED
  BY <1>5, <1>6, <1>7 DEF Caller

\* What every other step of a process does to the two queues: nothing; a thread
\* only goes back to its loop, and nobody leaves moveFile or add half-way.
Quiet ==
    /\ UNCHANGED <<files, late>>
    /\ \A w \in Workers :
          /\ thread'[w] \in {thread[w], "pop"}
          /\ caller[w].step \in {"flag", "start"} => caller'[w].step = caller[w].step

\* The steps of moveFile_.
LEMMA MovesInv ==
    ASSUME Inv, NEW t \in Movers, Moves(t)
    PROVE  WorkerInv' /\ EndInv' /\ Quiet
<1>1. Types /\ WorkerInv /\ EndInv /\ UNCHANGED <<phase, running, active, check, files, late>>
  BY DEF Inv, Moves, Rename, Copy, Copied, DeleteSource, MoveFails, NothingToMove, movedBy, inbox,
     rest
<1>2. moving[t] # NoMove
  BY DEF Moves, Rename, Copy, Copied, DeleteSource, MoveFails, NothingToMove, NoMove
<1>3. \/ Through(t)
      \/ UNCHANGED <<thread, caller>> /\ \E m : moving' = [moving EXCEPT ![t] = m]
  BY DEF Moves, Rename, Copy, Copied, DeleteSource, MoveFails, NothingToMove
<1>4. CASE t = "mover"
  <2>1. thread["mover"] = "work" /\ UNCHANGED caller
    BY <1>1, <1>2, <1>3, <1>4 DEF WorkerInv, Through
  <2>2. /\ thread'["mover"] = "work" \/ (thread'["mover"] = "pop" /\ moving'["mover"] = NoMove)
        /\ thread'["rechecker"] = thread["rechecker"]
    BY <1>1, <1>3, <1>4, <2>1, Fields DEF Through, Types, WorkType, Movers
  <2>3. WorkerInv'
    BY <1>1, <2>1, <2>2, Fields DEF WorkerInv, JoinIsShort
  <2>4. EndInv'
    BY <1>1, <2>1, <2>2 DEF EndInv
  <2> QED
    BY <1>1, <2>1, <2>2, <2>3, <2>4, Fields DEF Quiet
<1>5. CASE t = "caller"
  <2>1. caller["mover"].step = "here" /\ UNCHANGED thread
    BY <1>1, <1>2, <1>3, <1>5 DEF Types, WorkType, Through
  <2>2. /\ caller'["mover"].step \in {"here", "done"}
        /\ caller'["mover"].stuck = caller["mover"].stuck
        /\ caller'["rechecker"] = caller["rechecker"]
    <3>1. CASE Through(t)
      BY <1>1, <1>5, <3>1, CallerGoes, Fields DEF Through
    <3> QED
      BY <1>3, <2>1, <3>1
  <2>3. moving'["mover"] = moving["mover"]
    BY <1>1, <1>3, <1>5 DEF Through, Types, WorkType, Movers
  <2>4. WorkerInv'
    BY <1>1, <2>1, <2>2, <2>3, Fields DEF WorkerInv, JoinIsShort
  <2>5. EndInv'
    BY <1>1, <2>1, <2>2, Fields DEF EndInv
  <2> QED
    BY <1>1, <2>1, <2>2, <2>4, <2>5, Fields DEF Quiet
<1> QED
  BY <1>4, <1>5 DEF Movers

\* QueueManager::moveFile is called.
LEMMA MoveFileCalls ==
    ASSUME Types, NEW f, NEW stuck, MoveFile(f, stuck)
    PROVE  /\ caller'["mover"].step \in {"push", "here"} /\ caller'["mover"].stuck = stuck
           /\ caller'["rechecker"] = caller["rechecker"]
           /\ moving'["mover"] = moving["mover"]
BY DEF Types, WorkType, MoveFile, Workers, Movers

\* The steps of the queue's operations.
LEMMA QueueInv ==
    ASSUME Inv, NEW f \in Files,
           Download(f) \/ Finish(f) \/ Abort(f) \/ Remove(f) \/ Recheck(f)
    PROVE  WorkerInv' /\ EndInv' /\ Quiet
<1>1. Types /\ WorkerInv /\ EndInv /\ UNCHANGED <<phase, active, check, files, late, thread>>
  BY DEF Inv, Download, Finish, Abort, Remove, Recheck, work, inbox, rest
<1>2. CASE Download(f) \/ Abort(f) \/ Remove(f)
  <2>1. UNCHANGED <<caller, moving>> /\ (phase = "up" \/ running' = running \ {f})
    BY <1>2 DEF Download, Abort, Remove, work
  <2>2. WorkerInv'
    BY <1>1, <2>1 DEF WorkerInv, JoinIsShort
  <2>3. EndInv'
    BY <1>1, <2>1 DEF EndInv
  <2> QED
    BY <1>1, <2>1, <2>2, <2>3 DEF Quiet
<1>3. CASE Finish(f)
  <2>1. phase = "up" /\ caller["mover"] = NoCall
    BY <1>1, <1>3 DEF Finish, CsFree, EndInv
  <2>2. /\ caller'["mover"].step \in {"push", "here"} /\ caller'["mover"].stuck = FALSE
        /\ caller'["rechecker"] = caller["rechecker"] /\ moving'["mover"] = moving["mover"]
    BY <1>1, <1>3, MoveFileCalls DEF Finish
  <2>3. WorkerInv'
    BY <1>1, <2>1, <2>2, Fields DEF WorkerInv, JoinIsShort
  <2>4. EndInv'
    BY <1>1, <2>1 DEF EndInv
  <2> QED
    BY <1>1, <2>1, <2>2, <2>3, <2>4, Fields DEF Quiet
<1>4. CASE Recheck(f)
  <2>1. phase = "up" /\ caller["rechecker"] = NoCall /\ UNCHANGED moving
    BY <1>4 DEF Recheck
  <2>2. caller'["rechecker"].step = "push" /\ caller'["mover"] = caller["mover"]
    BY <1>1, <1>4 DEF Recheck, Types, WorkType, Workers
  <2>3. WorkerInv'
    BY <1>1, <2>1, <2>2, Fields DEF WorkerInv, JoinIsShort
  <2>4. EndInv'
    BY <1>1, <2>1 DEF EndInv
  <2> QED
    BY <1>1, <2>1, <2>2, <2>3, <2>4, Fields DEF Quiet
<1> QED
  BY <1>2, <1>3, <1>4

\* The rest of putDownload, and the steps of a recheck.
LEMMA RecheckInv ==
    ASSUME Inv, Complete \/ Rechecks
    PROVE  WorkerInv' /\ EndInv' /\ Quiet
<1>1. Types /\ WorkerInv /\ EndInv /\ UNCHANGED <<phase, running, active, files, late>>
  BY DEF Inv, Complete, Rechecks, RecheckLook, RecheckReset, RecheckRead, RecheckJudge, inbox, rest
<1>2. CASE Complete
  <2>1. /\ caller["mover"].step = "done" /\ caller'["mover"] = NoCall
        /\ caller'["rechecker"] = caller["rechecker"] /\ UNCHANGED <<moving, check>>
    BY <1>1, <1>2 DEF Complete, Types, WorkType, Workers
  <2>2. /\ thread'["mover"] = thread["mover"]
        /\ \/ thread'["rechecker"] = thread["rechecker"] /\ ~caller["mover"].stuck
           \/ /\ thread["rechecker"] = "work" /\ thread'["rechecker"] = "pop"
              /\ check.step = "none"
    BY <1>1, <1>2 DEF Complete, Types, WorkType, WorkerInv, Workers
  <2>3. WorkerInv'
    <3>1. JoinIsShort'
      BY <1>1, <2>1, <2>2, Fields DEF WorkerInv, JoinIsShort
    <3>2. \A w \in Workers : active'[w] <=> (thread'[w] \in {"pop", "work", "leave"}
                                            \/ caller'[w].step = "start")
      BY <1>1, <2>1, <2>2, Fields DEF WorkerInv
    <3>3. caller'["mover"].stuck = FALSE
      BY <1>1, <2>1, Fields
    <3>4. moving'["mover"] # NoMove => thread'["mover"] = "work"
      BY <1>1, <2>1, <2>2 DEF WorkerInv
    <3>5. check'.step # "none" => thread'["rechecker"] = "work"
      BY <1>1, <2>1, <2>2 DEF WorkerInv
    <3> QED
      BY <3>1, <3>2, <3>3, <3>4, <3>5 DEF WorkerInv
  <2>4. EndInv'
    BY <1>1, <2>1, <2>2 DEF EndInv
  <2> QED
    BY <1>1, <2>1, <2>2, <2>3, <2>4, Fields DEF Quiet
<1>3. CASE Rechecks
  <2>1. check.step # "none"
    BY <1>3 DEF Rechecks, RecheckLook, RecheckReset, RecheckRead, RecheckJudge
  <2>2. /\ thread["rechecker"] = "work" /\ caller["mover"].stuck = FALSE
        /\ phase \notin {"joined", "down"}
    BY <1>1, <2>1, Fields DEF WorkerInv, EndInv, Calls
  <2>3. thread'["mover"] = thread["mover"]
    BY <1>1, <1>3 DEF Rechecks, RecheckLook, RecheckReset, RecheckRead, RecheckJudge, NextCheck,
       Types, WorkType, Workers
  <2>4. thread'["rechecker"] = "work" \/ (thread'["rechecker"] = "pop" /\ check' = NoCheck)
    BY <1>1, <1>3, <2>2 DEF Rechecks, RecheckLook, RecheckReset, RecheckRead, RecheckJudge,
       NextCheck, Types, WorkType, Workers
  <2>5. \/ UNCHANGED <<caller, moving>>
        \/ /\ caller["mover"] = NoCall /\ check' = NoCheck /\ thread'["rechecker"] = "work"
           /\ caller'["mover"].step \in {"push", "here"} /\ caller'["mover"].stuck = TRUE
           /\ caller'["rechecker"] = caller["rechecker"] /\ moving'["mover"] = moving["mover"]
    BY <1>1, <1>3, <2>2, MoveFileCalls DEF Rechecks, RecheckLook, RecheckReset, RecheckRead,
       RecheckJudge, CsFree
  <2>6. WorkerInv'
    <3>1. CASE UNCHANGED <<caller, moving>>
      BY <1>1, <2>2, <2>3, <2>4, <3>1, Fields DEF WorkerInv, JoinIsShort
    <3>2. CASE ~UNCHANGED <<caller, moving>>
      BY <1>1, <2>2, <2>3, <2>5, <3>2, Fields DEF WorkerInv, JoinIsShort
    <3> QED
      BY <3>1, <3>2
  <2>7. EndInv'
    BY <1>1, <2>2, <2>5 DEF EndInv
  <2> QED
    BY <1>1, <2>2, <2>3, <2>4, <2>5, <2>6, <2>7, Fields DEF Quiet
<1> QED
  BY <1>2, <1>3

\* Saving, ending and starting again.
LEMMA ProcessInv ==
    ASSUME Inv, Save \/ Shutdown \/ JoinWorkers \/ Crash \/ Restart
    PROVE  /\ WorkerInv' /\ EndInv'
           /\ Quiet \/ \A w \in Workers : files'[w] = <<>> /\ thread'[w] = "none"
<1>1. Types /\ WorkerInv /\ EndInv
  BY DEF Inv
<1>2. CASE Save \/ Shutdown \/ JoinWorkers
  <2>1. UNCHANGED <<files, late, active, thread, caller, moving, check, running>>
    BY <1>2 DEF Save, Shutdown, SaveDeletes, SaveRenames, SaveFails, JoinWorkers, work, inbox
  <2>2. WorkerInv' /\ Quiet
    BY <1>1, <2>1 DEF WorkerInv, JoinIsShort, Quiet
  <2>3. CASE UNCHANGED phase
    BY <1>1, <2>1, <2>2, <2>3 DEF EndInv
  <2>4. CASE Shutdown
    BY <1>1, <2>1, <2>2, <2>4 DEF EndInv, Shutdown, SaveDeletes, CsFree
  <2>5. CASE JoinWorkers
    BY <1>1, <2>1, <2>2, <2>5 DEF EndInv, JoinWorkers, Join
  <2> QED
    BY <1>2, <2>3, <2>4, <2>5 DEF Save, SaveRenames, SaveFails
<1>3. CASE Reborn
  <2>1. \A w \in Workers : /\ files'[w] = <<>> /\ thread'[w] = "none" /\ ~active'[w]
                           /\ caller'[w] = NoCall
    BY <1>3 DEF Reborn
  <2>2. moving'["mover"] = NoMove /\ check' = NoCheck /\ running' = {} /\ phase' = "up"
    BY <1>3 DEF Reborn
  <2>3. WorkerInv'
    BY <1>1, <2>1, <2>2, Fields DEF WorkerInv, JoinIsShort
  <2> QED
    BY <2>1, <2>2, <2>3 DEF EndInv
<1> QED
  BY <1>2, <1>3 DEF Crash, Restart

-----------------------------------------------------------------------------
(* The queues                                                              *)

\* Every file that waits for w was put into its queue too late.
AllLate(w) == \A i \in DOMAIN files[w] : files[w][i] \in late[w]

\* OnlyLateWait, and what a thread that is about to clear its flag leaves.
LateInv == OnlyLateWait /\ \A w \in Workers : thread[w] = "leave" => AllLate(w)

\* What happens to a queue that a step does not touch.
LEMMA QuietLate ==
    ASSUME Types, LateInv, NEW w \in Workers, UNCHANGED <<files[w], late[w]>>,
           thread'[w] \in {thread[w], "pop", "work"},
           caller[w].step \in {"flag", "start"} => caller'[w].step = caller[w].step
    PROVE  /\ \/ files'[w] = <<>>
              \/ caller'[w].step \in {"flag", "start"} \/ thread'[w] \in {"pop", "work"}
              \/ AllLate(w)'
           /\ thread'[w] = "leave" => AllLate(w)'
BY DEF LateInv, OnlyLateWait, AllLate

\* A step of a worker's thread or of the thread that calls it.
LEMMA QueuesLate ==
    ASSUME Inv, LateInv, NEW w \in Workers, Worker(w) \/ Caller(w)
    PROVE  LateInv'
<1>1. Types /\ WorkerInv
  BY DEF Inv
<1>2. \A v \in Workers \ {w} : /\ UNCHANGED <<files[v], late[v]>>
                               /\ thread'[v] = thread[v] /\ caller'[v] = caller[v]
  BY <1>1 DEF Types, WorkType, Worker, Caller, Pop, Leave, Exit, Push, TestAndSet, Start, Returned,
     inbox
<1> DEFINE Good == /\ \/ files[w] = <<>>
                      \/ caller[w].step \in {"flag", "start"} \/ thread[w] \in {"pop", "work"}
                      \/ AllLate(w)
                   /\ thread[w] = "leave" => AllLate(w)
<1>3. Good
  BY DEF LateInv, OnlyLateWait, AllLate
<1>4. ASSUME Good' PROVE LateInv'
  BY <1>1, <1>2, <1>4, QuietLate DEF LateInv, OnlyLateWait, AllLate
<1>5. CASE Pop(w)
  <2>1. \/ thread'[w] = "work"
        \/ thread'[w] = "leave" /\ files'[w] = <<>>
    BY <1>1, <1>5 DEF Pop, Types, WorkType
  <2> QED
    BY <1>4, <2>1 DEF AllLate
<1>6. CASE Leave(w) \/ Exit(w)
  <2>1. /\ UNCHANGED <<files, late, caller>> /\ thread[w] \in {"leave", "exit"}
        /\ thread'[w] \in {"exit", "ended"}
    BY <1>1, <1>6 DEF Leave, Exit, Types, WorkType, inbox
  <2> QED
    BY <1>3, <1>4, <2>1 DEF AllLate
<1>7. CASE Push(w)
  <2>1. caller'[w].step = "flag" /\ UNCHANGED thread
    BY <1>1, <1>7, CallerGoes DEF Push
  <2>2. CASE thread[w] = "leave"
    <3>1. /\ files'[w] = Append(files[w], caller[w].file)
          /\ late'[w] = late[w] \cup {caller[w].file} /\ files[w] \in Seq(Files)
      BY <1>1, <1>7, <2>2 DEF Push, Types, WorkType
    <3>2. AllLate(w)'
      BY <1>3, <2>2, <3>1 DEF AllLate
    <3> QED
      BY <1>4, <2>1, <3>2
  <2> QED
    BY <1>4, <2>1, <2>2
<1>8. CASE TestAndSet(w)
  <2>1. UNCHANGED <<files, late, thread>>
    BY <1>8 DEF TestAndSet
  <2>2. CASE active[w]
    <3>1. thread[w] \in {"pop", "work", "leave"}
      BY <1>1, <1>8, <2>2 DEF TestAndSet, WorkerInv
    <3> QED
      BY <1>3, <1>4, <2>1, <3>1 DEF AllLate
  <2>3. CASE ~active[w]
    <3>1. caller' = [caller EXCEPT ![w].step = "start"]
      BY <1>8, <2>3 DEF TestAndSet
    <3>2. caller'[w].step = "start"
      BY <1>1, <3>1, CallerGoes
    <3> QED
      BY <1>3, <1>4, <2>1, <3>2 DEF AllLate
  <2> QED
    BY <2>2, <2>3
<1>9. CASE Start(w)
  <2>1. thread'[w] = "pop"
    BY <1>1, <1>9 DEF Start, Types, WorkType
  <2> QED
    BY <1>4, <2>1
<1> QED
  BY <1>5, <1>6, <1>7, <1>8, <1>9 DEF Worker, Caller

-----------------------------------------------------------------------------
(* Where a finished file is                                                *)

Safe(f)   == temp[f] = "whole" \/ target[f] = "whole" \/ f \in aside

\* Somebody is inside moveFile for f.
Called(f) == caller["mover"].step # "none" /\ caller["mover"].file = f

\* No transfer of f can begin.
Settled(f) == item[f] # "queued" \/ Called(f)

\* f waits for the mover, or the mover is at it.
InMover(f) ==
    \/ moving["mover"].step # "none" /\ moving["mover"].file = f
    \/ \E i \in DOMAIN files["mover"] : files["mover"][i] = f

\* The mover has the large files and the callers the others: of a large file a
\* caller only finds that there is nothing to move.
SizesInv ==
    /\ caller["mover"].step \in {"push", "flag", "start"} => caller["mover"].file \in big
    /\ \A i \in DOMAIN files["mover"] : files["mover"][i] \in big
    /\ moving["mover"].step # "none" => moving["mover"].file \in big
    /\ moving["caller"].step # "none" =>
          /\ moving["caller"].file = caller["mover"].file
          /\ moving["caller"].file \in big =>
                moving["caller"].step = "rename" /\ temp[moving["caller"].file] = "none"

\* A file that is not to be downloaded any more is safe, and its temporary file
\* is whole or gone; one that is, is not with the mover.
Kept(f) ==
    /\ Settled(f) => Safe(f) /\ temp[f] \in {"whole", "none"} /\ f \notin running
    /\ ~Settled(f) => ~InMover(f)
    /\ f \in running => temp[f] # "none"

\* Half-way through a copy the source is whole, at its end the copy.
Copying(t) ==
    moving[t].file \in owed =>
        /\ moving[t].step = "copy" => moving[t].what = "whole" /\ temp[moving[t].file] = "whole"
        /\ moving[t].step = "delete" => target[moving[t].file] = "whole"

\* Nobody touches a file that is rechecked, unless it was finished before.
Checking ==
    check.step \in {"reset", "read", "judge"} /\ check.file \in owed =>
        /\ check.file \notin running /\ ~Called(check.file)
        /\ check.step = "judge" /\ check.good =>
              temp[check.file] = "whole" \/ item[check.file] # "queued"

\* What Queue.xml calls finished or does not list is not downloaded again.
XmlInv == xml = NoXml \/ \A f \in Files : xml[f] \in {"finished", "none"} => item[f] # "queued"

KeptInv == \A f \in owed : Kept(f)
CopyInv == \A t \in Movers : Copying(t)

WholeInv == SizesInv /\ KeptInv /\ CopyInv /\ Checking /\ XmlInv

\* Whoever moves a file is at a file of the queue's; if it is still owed, it is
\* settled.
LEMMA MovedIsSettled ==
    ASSUME Types, WholeInv, NEW t \in Movers, moving[t].step # "none"
    PROVE  /\ moving[t].file \in Files
           /\ moving[t].file \in owed => Settled(moving[t].file)
<1>1. moving[t].file \in Files
  BY DEF Types, WorkType, NoMove
<1>2. CASE t = "mover"
  BY <1>1, <1>2 DEF WholeInv, KeptInv, Kept, InMover
<1>3. CASE t = "caller"
  <2>1. caller["mover"].step = "here" /\ moving["caller"].file = caller["mover"].file
    BY <1>3 DEF Types, WorkType, NoMove, WholeInv, SizesInv
  <2> QED
    BY <1>1, <1>3, <2>1 DEF Settled, Called
<1> QED
  BY <1>2, <1>3 DEF Movers

\* A file with which nothing happens stays kept.
LEMMA KeptFrame ==
    ASSUME NEW f, Kept(f),
           UNCHANGED <<item[f], temp[f], target[f]>>,
           f \in aside => f \in aside', f \in running' <=> f \in running,
           Called(f)' <=> Called(f), InMover(f)' => InMover(f)
    PROVE  Kept(f)'
BY DEF Kept, Settled, Safe

\* What is in a queue from which the first file was taken, or to which one was
\* added.
LEMMA QueueElements ==
    ASSUME NEW q \in Seq(Files), NEW x \in Files
    PROVE  /\ q # <<>> => 1 \in DOMAIN q /\ Head(q) = q[1]
           /\ q # <<>> => \A i \in DOMAIN Tail(q) : \E j \in DOMAIN q : Tail(q)[i] = q[j]
           /\ \A i \in DOMAIN Append(q, x) :
                 Append(q, x)[i] = x \/ \E j \in DOMAIN q : Append(q, x)[i] = q[j]
<1>1. q # <<>> => 1 \in DOMAIN q /\ Head(q) = q[1]
  OBVIOUS
<1>2. ASSUME q # <<>>, NEW i \in DOMAIN Tail(q)
      PROVE  \E j \in DOMAIN q : Tail(q)[i] = q[j]
  <2>1. i + 1 \in DOMAIN q /\ Tail(q)[i] = q[i + 1]
    BY <1>2
  <2> QED
    BY <2>1
<1>3. ASSUME NEW i \in DOMAIN Append(q, x)
      PROVE  Append(q, x)[i] = x \/ \E j \in DOMAIN q : Append(q, x)[i] = q[j]
  <2>1. i = Len(q) + 1 \/ i \in DOMAIN q
    BY <1>3
  <2>2. i = Len(q) + 1 => Append(q, x)[i] = x
    OBVIOUS
  <2>3. i \in DOMAIN q => Append(q, x)[i] = q[i]
    OBVIOUS
  <2> QED
    BY <2>1, <2>2, <2>3
<1> QED
  BY <1>1, <1>2, <1>3

\* The steps of the queues of the two workers.
LEMMA WorkersWhole ==
    ASSUME Types, WholeInv, NEW w \in Workers, Worker(w) \/ Caller(w)
    PROVE  WholeInv'
<1>1. UNCHANGED <<item, temp, target, aside, running, big, xml, owed>>
  BY DEF Worker, Caller, Pop, Leave, Exit, Push, TestAndSet, Start, disk, rest, set
<1>2. moving["caller"]' = moving["caller"]
  BY DEF Worker, Caller, Pop, Leave, Exit, Push, TestAndSet, Start, Types, WorkType, Movers
<1>3. \A f : Called(f)' <=> Called(f)
  <2>1. CASE Worker(w) \/ w = "rechecker"
    BY <2>1 DEF Worker, Caller, Pop, Leave, Exit, Push, TestAndSet, Start, Returned, Called, Types,
       WorkType, Workers
  <2>2. CASE Caller(w) /\ w = "mover"
    <3>1. /\ caller["mover"].step # "none" /\ caller'["mover"].step # "none"
          /\ caller'["mover"].file = caller["mover"].file
      BY <2>2 DEF Caller, Push, TestAndSet, Start, Returned, Types, WorkType, Workers, Calls
    <3> QED
      BY <3>1 DEF Called
  <2> QED
    BY <2>1, <2>2 DEF Workers
<1>4. /\ caller'["mover"].file = caller["mover"].file
      /\ caller'["mover"].step \in {"push", "flag", "start"} =>
            caller["mover"].step \in {"push", "flag", "start"}
  BY DEF Worker, Caller, Pop, Leave, Exit, Push, TestAndSet, Start, Returned, Types, WorkType,
     Workers, Calls
<1>5. \/ UNCHANGED <<files["mover"], moving["mover"]>>
      \/ /\ files["mover"] # <<>> /\ files'["mover"] = Tail(files["mover"])
         /\ moving'["mover"] = Move(Head(files["mover"]))
      \/ /\ caller["mover"].step = "push" /\ UNCHANGED moving["mover"]
         /\ files'["mover"] = Append(files["mover"], caller["mover"].file)
  BY DEF Worker, Caller, Pop, Leave, Exit, Push, TestAndSet, Start, Types, WorkType, Movers,
     Workers, inbox
<1>6. files["mover"] \in Seq(Files)
  BY DEF Types, WorkType, Workers
<1>7. caller["mover"].step = "push" => caller["mover"].file \in Files
  BY Fields DEF Types, WorkType
<1>8. /\ files["mover"] # <<>> => 1 \in DOMAIN files["mover"] /\ Head(files["mover"]) = files["mover"][1]
      /\ \A i \in DOMAIN files'["mover"] :
            \/ \E j \in DOMAIN files["mover"] : files'["mover"][i] = files["mover"][j]
            \/ caller["mover"].step = "push" /\ files'["mover"][i] = caller["mover"].file
  <2>1. CASE UNCHANGED files["mover"]
    BY <1>6, <2>1, QueueElements
  <2>2. CASE files["mover"] # <<>> /\ files'["mover"] = Tail(files["mover"])
    BY <1>6, <2>2, QueueElements
  <2>3. CASE /\ caller["mover"].step = "push"
             /\ files'["mover"] = Append(files["mover"], caller["mover"].file)
    <3>1. caller["mover"].file \in Files
      BY <1>7, <2>3
    <3>2. \A i \in DOMAIN files'["mover"] :
             \/ files'["mover"][i] = caller["mover"].file
             \/ \E j \in DOMAIN files["mover"] : files'["mover"][i] = files["mover"][j]
      BY <1>6, <2>3, <3>1, QueueElements
    <3> QED
      BY <1>6, <2>3, <3>2, QueueElements
  <2> QED
    BY <1>5, <2>1, <2>2, <2>3
<1>9. Move(Head(files["mover"])).step = "rename" /\ Move(Head(files["mover"])).file = Head(files["mover"])
  BY DEF Move
<1>10. \A f : InMover(f)' => InMover(f) \/ (caller["mover"].step = "push" /\ caller["mover"].file = f)
  <2>1. ASSUME NEW f, moving'["mover"].step # "none", moving'["mover"].file = f
        PROVE  InMover(f)
    BY <1>5, <1>8, <1>9, <2>1 DEF InMover
  <2>2. ASSUME NEW f, NEW i \in DOMAIN files'["mover"], files'["mover"][i] = f
        PROVE  InMover(f) \/ (caller["mover"].step = "push" /\ caller["mover"].file = f)
    <3>1. CASE \E j \in DOMAIN files["mover"] : files'["mover"][i] = files["mover"][j]
      BY <2>2, <3>1 DEF InMover
    <3> QED
      BY <1>8, <2>2, <3>1
  <2> QED
    BY <2>1, <2>2 DEF InMover
<1>11. SizesInv'
  <2>1. \A i \in DOMAIN files'["mover"] : files'["mover"][i] \in big
    <3>1. ASSUME NEW i \in DOMAIN files'["mover"] PROVE files'["mover"][i] \in big
      <4>1. CASE \E j \in DOMAIN files["mover"] : files'["mover"][i] = files["mover"][j]
        BY <4>1 DEF WholeInv, SizesInv
      <4>2. CASE caller["mover"].step = "push" /\ files'["mover"][i] = caller["mover"].file
        BY <4>2 DEF WholeInv, SizesInv
      <4> QED
        BY <1>8, <3>1, <4>1, <4>2
    <3> QED
      BY <3>1
  <2>2. moving'["mover"].step # "none" => moving'["mover"].file \in big
    BY <1>5, <1>8, <1>9 DEF WholeInv, SizesInv
  <2> QED
    BY <1>1, <1>2, <1>4, <2>1, <2>2 DEF WholeInv, SizesInv
<1>12. KeptInv'
  <2>1. ASSUME NEW f \in owed PROVE Kept(f)'
    <3>1. CASE InMover(f)' => InMover(f)
      BY <1>1, <1>3, <3>1, KeptFrame DEF WholeInv, KeptInv
    <3>2. CASE Called(f)
      BY <1>1, <1>3, <3>2 DEF WholeInv, KeptInv, Kept, Settled, Safe
    <3> QED
      BY <1>10, <3>1, <3>2 DEF Called
  <2> QED
    BY <1>1, <2>1 DEF KeptInv
<1>13. CopyInv'
  <2>1. Copying("caller")'
    BY <1>1, <1>2 DEF WholeInv, CopyInv, Copying, Movers
  <2>2. Copying("mover")'
    BY <1>1, <1>5, <1>9 DEF WholeInv, CopyInv, Copying, Movers
  <2> QED
    BY <2>1, <2>2 DEF CopyInv, Movers
<1>14. Checking'
  <2>1. check' = check \/ check'.step = "look"
    BY DEF Worker, Caller, Pop, Leave, Exit, Push, TestAndSet, Start, inbox
  <2> QED
    BY <1>1, <1>3, <2>1 DEF WholeInv, Checking
<1> QED
  BY <1>1, <1>11, <1>12, <1>13, <1>14 DEF WholeInv, XmlInv

\* The steps of moveFile_.
LEMMA MovesWhole ==
    ASSUME Types, WholeInv, NEW t \in Movers, Moves(t)
    PROVE  WholeInv'
<1>0. PICK f : f = moving[t].file
  OBVIOUS
<1> USE <1>0
<1>1. UNCHANGED <<item, running, files, check, xml, big>> /\ owed' \subseteq owed
  BY DEF Moves, Rename, Copy, Copied, DeleteSource, MoveFails, NothingToMove, movedBy, inbox, rest,
     set
<1>2. moving[t].step # "none" /\ f \in Files /\ (f \in owed => Settled(f))
  BY MovedIsSettled DEF Moves, Rename, Copy, Copied, DeleteSource, MoveFails, NothingToMove
<1>3. moving \in [Movers -> Copies] /\ temp \in [Files -> Contents] /\ target \in [Files -> Contents]
  BY DEF Types, WorkType, DiskType
<1>4. \A u \in Movers \ {t} : moving'[u] = moving[u]
  BY <1>3 DEF Moves, Rename, Copy, Copied, DeleteSource, MoveFails, NothingToMove, Through
<1>5. \/ moving'[t] = NoMove
      \/ /\ moving'[t].file = f /\ moving'[t].step = "copy" /\ moving'[t].what = temp[f]
         /\ moving[t].step = "rename" /\ temp[f] # "none" /\ temp' = temp
      \/ /\ moving'[t].file = f /\ moving'[t].step = "delete"
         /\ moving[t].step = "copy" /\ target'[f] = moving[t].what
  <2>1. CASE Copy(t)
    BY <1>3, <2>1 DEF Copy, Copies
  <2>2. CASE Copied(t)
    BY <1>2, <1>3, <2>2 DEF Copied, Copies
  <2>3. CASE Rename(t) \/ DeleteSource(t) \/ MoveFails(t) \/ NothingToMove(t)
    BY <1>3, <2>3 DEF Rename, DeleteSource, MoveFails, NothingToMove, Through
  <2> QED
    BY <2>1, <2>2, <2>3 DEF Moves
<1>6. /\ temp'[f] \in {temp[f], "none"}
      /\ \A g \in Files \ {f} : temp'[g] = temp[g] /\ target'[g] = target[g]
      /\ \A g \in owed' \ {f} : g \in aside => g \in aside'
  BY <1>2, <1>3 DEF Moves, Rename, Copy, Copied, DeleteSource, MoveFails, NothingToMove, disk,
     movedBy, rest
<1>7. caller'["mover"] = caller["mover"] \/
      (/\ t = "caller" /\ caller'["mover"].file = caller["mover"].file
       /\ caller'["mover"].step = "done" /\ caller["mover"].step = "here")
  <2>1. CASE Through(t) /\ t = "caller"
    <3>1. caller["mover"].step = "here"
      BY <1>2, <2>1 DEF Types, WorkType, NoMove
    <3> QED
      BY <2>1, <3>1 DEF Through, Types, WorkType, Workers, Calls
  <2>2. CASE ~(Through(t) /\ t = "caller")
    <3>1. UNCHANGED caller
      BY <2>2 DEF Moves, Rename, Copy, Copied, DeleteSource, MoveFails, NothingToMove, Through,
         Movers
    <3> QED
      BY <3>1
  <2> QED
    BY <2>1, <2>2
<1>8. \A g : (Called(g)' <=> Called(g)) /\ (Settled(g)' <=> Settled(g))
  BY <1>1, <1>7 DEF Called, Settled
<1>9. \A g : InMover(g)' => InMover(g)
  <2>1. moving'["mover"].step # "none" => moving["mover"].step # "none" /\ moving'["mover"].file = moving["mover"].file
    BY <1>2, <1>4, <1>5 DEF Movers, NoMove
  <2> QED
    BY <1>1, <2>1 DEF InMover
<1>10. f \in owed => /\ Safe(f) /\ temp[f] \in {"whole", "none"} /\ f \notin running
                     /\ moving[t].step = "copy" => moving[t].what = "whole" /\ temp[f] = "whole"
                     /\ moving[t].step = "delete" => target[f] = "whole"
  BY <1>2 DEF WholeInv, KeptInv, CopyInv, Copying, Kept
<1>11. f \in owed => Safe(f)'
  <2>1. CASE Rename(t)
    BY <1>2, <1>3, <1>10, <2>1 DEF Rename, Safe
  <2>2. CASE Copy(t)
    BY <1>2, <1>3, <1>10, <2>2 DEF Copy, Safe
  <2>3. CASE Copied(t)
    BY <1>2, <1>3, <1>10, <2>3 DEF Copied, Safe
  <2>4. CASE DeleteSource(t)
    BY <1>2, <1>3, <1>10, <2>4 DEF DeleteSource, Safe
  <2>5. CASE MoveFails(t)
    BY <1>2, <1>3, <1>10, <2>5 DEF MoveFails, Safe
  <2>6. CASE NothingToMove(t)
    BY <1>10, <2>6 DEF NothingToMove, Safe, disk
  <2> QED
    BY <2>1, <2>2, <2>3, <2>4, <2>5, <2>6 DEF Moves
<1>12. KeptInv'
  <2>1. ASSUME NEW g \in owed', g # f PROVE Kept(g)'
    <3>1. g \in Files /\ g \in owed
      BY <1>1 DEF Types, DiskType
    <3> QED
      BY <1>1, <1>6, <1>8, <1>9, <2>1, <3>1, KeptFrame DEF WholeInv, KeptInv
  <2>2. ASSUME f \in owed PROVE Kept(f)'
    BY <1>1, <1>2, <1>6, <1>8, <1>10, <1>11, <2>2 DEF Kept
  <2> QED
    BY <1>1, <2>1, <2>2 DEF KeptInv
<1>13. t = "caller" /\ f \in big => UNCHANGED <<temp, target>> /\ moving'[t] = NoMove
  <2>1. ASSUME t = "caller", f \in big PROVE NothingToMove(t)
    <3>1. moving[t].step = "rename" /\ temp[f] = "none"
      BY <1>2, <2>1 DEF WholeInv, SizesInv
    <3> QED
      BY <3>1 DEF Moves, Rename, Copy, Copied, DeleteSource, MoveFails
  <2> QED
    BY <1>3, <2>1 DEF NothingToMove, disk, Through
<1>14. SizesInv'
  <2>1. /\ caller'["mover"].step \in {"push", "flag", "start"} => caller'["mover"].file \in big'
        /\ \A i \in DOMAIN files'["mover"] : files'["mover"][i] \in big'
    BY <1>1, <1>7 DEF WholeInv, SizesInv
  <2>2. moving'["mover"].step # "none" => moving'["mover"].file \in big'
    BY <1>1, <1>2, <1>4, <1>5 DEF WholeInv, SizesInv, NoMove, Movers
  <2>3. CASE t = "caller"
    <3>1. moving'["caller"].step # "none" => moving'["caller"].file = f /\ f \notin big
      BY <1>5, <1>13, <2>3 DEF NoMove
    <3> QED
      BY <1>1, <1>2, <1>7, <2>1, <2>2, <2>3, <3>1 DEF WholeInv, SizesInv
  <2>4. CASE t = "mover"
    <3>1. moving'["caller"] = moving["caller"] /\ UNCHANGED caller["mover"]
      BY <1>4, <1>7, <2>4 DEF Movers
    <3>2. moving["caller"].step # "none" => moving["caller"].file \in Files
      BY DEF Types, WorkType, NoMove, Movers
    <3>3. ASSUME moving["caller"].step # "none", temp[moving["caller"].file] = "none"
          PROVE  temp'[moving["caller"].file] = "none"
      BY <1>6, <3>2, <3>3
    <3> QED
      BY <1>1, <2>1, <2>2, <3>1, <3>3 DEF WholeInv, SizesInv
  <2> QED
    BY <2>3, <2>4 DEF Movers
<1>15. CopyInv'
  <2>1. Copying(t)'
    BY <1>1, <1>5, <1>10 DEF Copying, NoMove
  <2>2. ASSUME NEW u \in Movers, u # t PROVE Copying(u)'
    <3>1. moving'[u] = moving[u] /\ Copying(u)
      BY <1>4, <2>2 DEF WholeInv, CopyInv
    <3>2. CASE moving[u].file # f
      <4>1. moving[u].file \in owed => moving[u].file \in Files
        BY DEF Types, DiskType
      <4> QED
        BY <1>1, <1>6, <3>1, <3>2, <4>1 DEF Copying
    <3>3. CASE moving[u].file = f /\ moving[u].step # "none"
      <4>1. f \in big
        BY <1>2, <2>2, <3>3 DEF WholeInv, SizesInv, Movers
      <4>2. CASE t = "caller"
        BY <1>1, <1>13, <3>1, <4>1, <4>2 DEF Copying
      <4>3. CASE t = "mover"
        <5>1. moving[u].step = "rename"
          BY <2>2, <3>3, <4>1, <4>3 DEF WholeInv, SizesInv, Movers
        <5> QED
          BY <3>1, <5>1 DEF Copying
      <4> QED
        BY <4>2, <4>3 DEF Movers
    <3> QED
      BY <3>1, <3>2, <3>3 DEF Copying
  <2> QED
    BY <2>1, <2>2 DEF CopyInv
<1>16. Checking'
  <2>1. ASSUME check.file \in owed, ~Called(check.file), temp[check.file] = "whole"
        PROVE  temp'[check.file] = "whole" \/ item[check.file] # "queued"
    <3>1. check.file \in Files
      BY <2>1 DEF Types, DiskType
    <3> QED
      BY <1>2, <1>6, <2>1, <3>1 DEF Settled
  <2> QED
    BY <1>1, <1>8, <2>1 DEF WholeInv, Checking
<1> QED
  BY <1>1, <1>12, <1>14, <1>15, <1>16 DEF WholeInv, XmlInv

\* A step that holds QueueManager::cs and is about one file.
LEMMA OneFileWhole ==
    ASSUME Types, WholeInv, NEW f,
           owed' \subseteq owed, UNCHANGED <<target, aside, files, moving["mover"]>>,
           moving'["caller"].step \in {"none", "rename"},
           \A g \in Files \ {f} : /\ item'[g] = item[g] /\ temp'[g] = temp[g]
                                  /\ g \in running' <=> g \in running
                                  /\ Called(g)' <=> Called(g),
           f \in owed' => Kept(f)' /\ (temp'[f] = temp[f] \/ ~InMover(f))
    PROVE  KeptInv' /\ CopyInv'
<1>1. \A g : InMover(g)' => InMover(g)
  BY DEF InMover
<1>2. KeptInv'
  <2>1. ASSUME NEW g \in owed', g # f PROVE Kept(g)'
    <3>1. g \in Files \ {f} /\ Kept(g)
      BY <2>1 DEF Types, DiskType, WholeInv, KeptInv
    <3> QED
      BY <1>1, <3>1, KeptFrame
  <2> QED
    BY <2>1 DEF KeptInv
<1>3. Copying("mover")'
  <2>1. CASE moving["mover"].file \in owed' /\ moving["mover"].step # "none"
    <3>1. moving["mover"].file \in Files /\ moving["mover"].file \in owed
      BY <2>1 DEF Types, DiskType
    <3>2. temp'[moving["mover"].file] = temp[moving["mover"].file]
      BY <2>1, <3>1 DEF InMover
    <3> QED
      BY <3>1, <3>2 DEF WholeInv, CopyInv, Copying, Movers
  <2> QED
    BY <2>1 DEF Copying
<1>4. Copying("caller")'
  BY DEF Copying
<1> QED
  BY <1>2, <1>3, <1>4 DEF CopyInv, Movers

\* Who holds QueueManager::cs and calls nobody leaves the moves alone.
LEMMA SizesQuiet ==
    ASSUME Types, WholeInv, CsFree, UNCHANGED <<files["mover"], moving, caller["mover"], big>>
    PROVE  SizesInv' /\ moving'["caller"].step = "none" /\ \A g : ~Called(g) /\ ~Called(g)'
<1>1. caller["mover"].step = "none" /\ moving["caller"].step = "none"
  BY Fields DEF CsFree, Types, WorkType
<1> QED
  BY <1>1 DEF WholeInv, SizesInv, Called

\* The rechecker goes on with a file nobody touches.
LEMMA CheckFrame ==
    ASSUME Checking, UNCHANGED check, owed' \subseteq owed,
           check.step \in {"reset", "read", "judge"} /\ check.file \in owed' =>
              /\ UNCHANGED <<item[check.file], temp[check.file]>>
              /\ check.file \in running' => check.file \in running
              /\ Called(check.file)' => Called(check.file)
    PROVE  Checking'
BY DEF Checking

\* QueueManager::moveFile is called for a file that is whole and not written to.
LEMMA MoveFileWhole ==
    ASSUME Types, WholeInv, CsFree, NEW f \in Files, NEW stuck, MoveFile(f, stuck),
           UNCHANGED <<item, target, aside, files, xml, owed, big>>,
           \A g \in Files \ {f} : temp'[g] = temp[g] /\ (g \in running' <=> g \in running),
           temp[f] = "none" => temp'[f] = "none",
           f \in owed => /\ Safe(f)' /\ temp'[f] \in {"whole", "none"} /\ f \notin running'
                         /\ temp'[f] = temp[f] \/ ~InMover(f)
    PROVE  /\ SizesInv' /\ KeptInv' /\ CopyInv' /\ XmlInv'
           /\ \A g : ~Called(g) /\ (Called(g)' <=> g = f)
<1>1. caller["mover"].step = "none" /\ moving["caller"].step = "none"
  BY Fields DEF CsFree, Types, WorkType
<1>2. /\ caller'["mover"].file = f /\ caller'["mover"].step \in {"push", "here"}
      /\ caller'["mover"].step = "push" => f \in big
      /\ moving'["mover"] = moving["mover"]
  BY DEF MoveFile, Types, WorkType, Workers, Movers
<1>3. \/ moving'["caller"].step = "none"
      \/ /\ moving'["caller"].step = "rename" /\ moving'["caller"].file = f
         /\ f \in big => temp[f] = "none"
  BY <1>1 DEF MoveFile, Types, WorkType, Movers, Move
<1>4. \A g : ~Called(g) /\ (Called(g)' <=> g = f)
  BY <1>1, <1>2 DEF Called
<1>5. SizesInv'
  BY <1>2, <1>3 DEF WholeInv, SizesInv
<1>6. f \in owed => Kept(f)'
  BY <1>4 DEF Kept, Settled
<1>7. KeptInv' /\ CopyInv'
  BY <1>2, <1>3, <1>4, <1>6, OneFileWhole
<1> QED
  BY <1>4, <1>5, <1>7 DEF WholeInv, XmlInv

\* A step that touches no file and no move.
LEMMA FrameWhole ==
    ASSUME WholeInv,
           UNCHANGED <<item, temp, target, aside, running, files, moving, caller["mover"], owed, big>>
    PROVE  SizesInv' /\ KeptInv' /\ CopyInv' /\ \A g : Called(g)' <=> Called(g)
<1>1. \A g : (Called(g)' <=> Called(g)) /\ (InMover(g)' <=> InMover(g))
  BY DEF Called, InMover
<1>2. SizesInv'
  BY DEF WholeInv, SizesInv
<1>3. KeptInv'
  BY <1>1, KeptFrame DEF WholeInv, KeptInv
<1>4. CopyInv'
  BY DEF WholeInv, CopyInv, Copying
<1> QED
  BY <1>1, <1>2, <1>3, <1>4

\* Transfers and the user.
LEMMA QueueWhole ==
    ASSUME Types, WholeInv, NEW f \in Files,
           Download(f) \/ Finish(f) \/ Abort(f) \/ Remove(f) \/ Recheck(f)
    PROVE  WholeInv'
<1>1. item \in [Files -> Items] /\ temp \in [Files -> Contents] /\ caller \in [Workers -> Calls]
  BY DEF Types, DiskType, WorkType
<1>2. f \in owed => Kept(f)
  BY DEF WholeInv, KeptInv
<1>3. CASE Download(f) \/ Abort(f) \/ Remove(f)
  <2>1. /\ CsFree /\ UNCHANGED <<target, aside, files, moving, caller, check, xml, big>>
        /\ owed' \subseteq owed
    BY <1>3 DEF Download, Abort, Remove, work, inbox, rest, set
  <2>2. \A g \in Files \ {f} : /\ item'[g] = item[g] /\ temp'[g] = temp[g]
                               /\ g \in running' <=> g \in running
    BY <1>1, <1>3 DEF Download, Abort, Remove
  <2>3. SizesInv' /\ moving'["caller"].step = "none" /\ \A g : ~Called(g) /\ ~Called(g)'
    BY <2>1, SizesQuiet
  <2>4. item'[f] # "queued" \/ item'[f] = item[f]
    BY <1>1, <1>3 DEF Download, Abort, Remove
  <2>5. XmlInv'
    BY <2>1, <2>2, <2>4 DEF WholeInv, XmlInv
  <2>6. ASSUME f \in owed'
        PROVE  /\ Kept(f)' /\ ~InMover(f)
               /\ ~(check.step \in {"reset", "read", "judge"} /\ check.file = f)
    <3>1. CASE Download(f)
      <4>1. /\ item[f] = "queued" /\ item' = item /\ check.file # f /\ temp'[f] # "none"
            /\ f \in owed
        BY <1>1, <2>6, <3>1 DEF Download
      <4>2. ~Settled(f) /\ ~Settled(f)'
        BY <2>3, <4>1 DEF Settled
      <4> QED
        BY <1>2, <2>1, <4>1, <4>2 DEF Kept, InMover
    <3>2. CASE Abort(f)
      <4>1. f \in running /\ f \notin running' /\ item' = item /\ f \in owed
        BY <2>1, <2>6, <3>2 DEF Abort
      <4>2. ~Settled(f) /\ ~Settled(f)'
        BY <1>2, <2>3, <4>1 DEF Kept, Settled
      <4> QED
        BY <1>2, <2>1, <4>1, <4>2 DEF Kept, InMover, WholeInv, Checking
    <3>3. CASE Remove(f)
      BY <2>6, <3>3 DEF Remove
    <3> QED
      BY <1>3, <3>1, <3>2, <3>3
  <2>7. KeptInv' /\ CopyInv'
    BY <2>1, <2>2, <2>3, <2>6, OneFileWhole
  <2>8. Checking'
    <3>1. ASSUME check.step \in {"reset", "read", "judge"}, check.file \in owed'
          PROVE  check.file \in Files \ {f}
      BY <2>1, <2>6, <3>1 DEF Types, DiskType
    <3> QED
      BY <2>1, <2>2, <2>3, <3>1, CheckFrame DEF WholeInv
  <2> QED
    BY <2>3, <2>5, <2>7, <2>8 DEF WholeInv
<1>4. CASE Finish(f)
  <2>1. /\ CsFree /\ UNCHANGED <<item, target, aside, files, xml, owed, big, check>>
        /\ MoveFile(f, FALSE) /\ f \in running /\ f \notin running'
    BY <1>4 DEF Finish, inbox, rest, set
  <2>2. \A g \in Files \ {f} : temp'[g] = temp[g] /\ (g \in running' <=> g \in running)
    BY <1>1, <1>4 DEF Finish
  <2>3. temp[f] = "none" => temp'[f] = "none"
    BY <1>1, <1>4 DEF Finish
  <2>4. ASSUME f \in owed
        PROVE  /\ Safe(f)' /\ temp'[f] \in {"whole", "none"} /\ ~InMover(f)
               /\ ~(check.step \in {"reset", "read", "judge"} /\ check.file = f)
    <3>1. temp[f] # "none" /\ ~InMover(f)
      BY <1>2, <2>1, <2>4 DEF Kept
    <3>2. temp'[f] = "whole"
      BY <1>1, <1>4, <3>1 DEF Finish
    <3> QED
      BY <2>1, <2>4, <3>1, <3>2 DEF Safe, WholeInv, Checking
  <2>5. /\ SizesInv' /\ KeptInv' /\ CopyInv' /\ XmlInv'
        /\ \A g : ~Called(g) /\ (Called(g)' <=> g = f)
    BY <2>1, <2>2, <2>3, <2>4, MoveFileWhole
  <2>6. Checking'
    <3>1. ASSUME check.step \in {"reset", "read", "judge"}, check.file \in owed'
          PROVE  check.file \in Files \ {f}
      BY <2>1, <2>4, <3>1 DEF Types, DiskType
    <3> QED
      BY <2>1, <2>2, <2>5, <3>1, CheckFrame DEF WholeInv
  <2> QED
    BY <2>5, <2>6 DEF WholeInv
<1>5. CASE Recheck(f)
  <2>1. UNCHANGED <<item, temp, target, aside, running, files, moving, check, xml, owed, big>>
    BY <1>5 DEF Recheck, disk, inbox, rest, set
  <2>2. UNCHANGED caller["mover"]
    BY <1>1, <1>5 DEF Recheck, Workers
  <2>3. SizesInv' /\ KeptInv' /\ CopyInv' /\ \A g : Called(g)' <=> Called(g)
    BY <2>1, <2>2, FrameWhole
  <2>4. Checking' /\ XmlInv'
    BY <2>1, <2>3 DEF WholeInv, Checking, XmlInv
  <2> QED
    BY <2>3, <2>4 DEF WholeInv
<1> QED
  BY <1>3, <1>4, <1>5

\* The end of a call of moveFile, and the rechecker.
LEMMA RecheckWhole ==
    ASSUME Types, WholeInv, Complete \/ Rechecks
    PROVE  WholeInv'
<1>1. /\ item \in [Files -> Items] /\ caller \in [Workers -> Calls] /\ check \in Checks
      /\ owed \subseteq Files
  BY DEF Types, DiskType, WorkType
<1>2. CASE Complete
  <2>1. PICK f : f = caller["mover"].file
    OBVIOUS
  <2>2. /\ caller["mover"].step = "done" /\ f \in Files
        /\ UNCHANGED <<temp, target, aside, running, files, moving, check, xml, owed, big>>
        /\ caller'["mover"].step = "none"
    BY <1>1, <1>2, <2>1, Fields DEF Complete, Types, WorkType, disk, inbox, set
  <2>3. /\ item'[f] \in {"finished", "none"}
        /\ \A g \in Files \ {f} : item'[g] = item[g]
    BY <1>1, <1>2, <2>1, <2>2 DEF Complete
  <2>4. moving["caller"].step = "none"
    BY <2>2, Fields DEF Types, WorkType
  <2>5. \A g : (Called(g) <=> g = f) /\ ~Called(g)'
    BY <2>1, <2>2 DEF Called
  <2>6. f \in owed => Kept(f)'
    BY <2>2, <2>3, <2>5 DEF WholeInv, KeptInv, Kept, Settled, Safe
  <2>7. KeptInv' /\ CopyInv'
    BY <2>2, <2>3, <2>4, <2>5, <2>6, OneFileWhole
  <2>8. SizesInv' /\ XmlInv'
    BY <2>2, <2>3, <2>4 DEF WholeInv, SizesInv, XmlInv
  <2>9. Checking'
    <3>1. check.step \in {"reset", "read", "judge"} /\ check.file \in owed =>
              check.file \in Files \ {f}
      BY <1>1, <2>5 DEF WholeInv, Checking
    <3> QED
      BY <2>2, <2>3, <2>5, <3>1, CheckFrame DEF WholeInv
  <2> QED
    BY <2>7, <2>8, <2>9 DEF WholeInv
<1>3. CASE RecheckLook
  <2>1. /\ CsFree
        /\ UNCHANGED <<item, temp, target, aside, running, files, moving, caller, xml, owed, big>>
    BY <1>3 DEF RecheckLook, disk, inbox, rest, set
  <2>2. SizesInv' /\ KeptInv' /\ CopyInv' /\ XmlInv'
    BY <2>1, FrameWhole DEF WholeInv, XmlInv
  <2>3. \A g : ~Called(g)'
    BY <2>1, SizesQuiet
  <2>4. \/ check'.step = "none"
        \/ check'.step = "reset" /\ check'.file = check.file /\ check.file \notin running
    BY <1>1, <1>3 DEF RecheckLook, NextCheck, NoCheck, Checks
  <2>5. Checking'
    BY <2>1, <2>3, <2>4 DEF Checking
  <2> QED
    BY <2>2, <2>5 DEF WholeInv
<1>4. CASE RecheckReset
  <2>1. PICK f : f = check.file
    OBVIOUS
  <2>2. /\ CsFree /\ check.step = "reset" /\ f \in Files
        /\ UNCHANGED <<temp, target, aside, running, files, moving, caller, xml, owed, big>>
    BY <1>4, <2>1 DEF RecheckReset, disk, inbox, rest, set, Types, WorkType
  <2>3. /\ item'[f] = "queued" <=> item[f] = "queued"
        /\ \A g \in Files \ {f} : item'[g] = item[g]
    BY <1>1, <1>4, <2>1, <2>2 DEF RecheckReset, NextCheck
  <2>4. SizesInv' /\ moving'["caller"].step = "none" /\ \A g : ~Called(g) /\ ~Called(g)'
    BY <2>2, SizesQuiet
  <2>5. \A g : InMover(g)' => InMover(g)
    BY <2>2 DEF InMover
  <2>6. f \in owed => Kept(f)'
    BY <2>2, <2>3, <2>4, <2>5 DEF WholeInv, KeptInv, Kept, Settled, Safe
  <2>7. KeptInv' /\ CopyInv'
    BY <2>2, <2>3, <2>4, <2>6, OneFileWhole
  <2>8. XmlInv'
    BY <2>2, <2>3 DEF WholeInv, XmlInv
  <2>9. \/ check'.step = "none"
        \/ check'.step = "read" /\ check'.file = check.file
    BY <1>1, <1>4 DEF RecheckReset, NextCheck, NoCheck, Checks
  <2>10. Checking'
    BY <2>2, <2>4, <2>9 DEF WholeInv, Checking
  <2> QED
    BY <2>4, <2>7, <2>8, <2>10 DEF WholeInv
<1>5. CASE RecheckRead
  <2>1. /\ check.step = "read"
        /\ UNCHANGED <<item, temp, target, aside, running, files, moving, caller, xml, owed, big>>
    BY <1>5 DEF RecheckRead, disk, inbox, rest, set
  <2>2. SizesInv' /\ KeptInv' /\ CopyInv' /\ XmlInv' /\ \A g : Called(g)' <=> Called(g)
    BY <2>1, FrameWhole DEF WholeInv, XmlInv
  <2>3. /\ check'.step = "judge" /\ check'.file = check.file
        /\ check'.good => temp[check.file] = "whole"
    BY <1>1, <1>5 DEF RecheckRead, Checks
  <2>4. Checking'
    BY <2>1, <2>2, <2>3 DEF WholeInv, Checking
  <2> QED
    BY <2>2, <2>4 DEF WholeInv
<1>6. CASE RecheckJudge
  <2>1. PICK f : f = check.file
    OBVIOUS
  <2>2. /\ CsFree /\ check.step = "judge" /\ f \in Files /\ check' = NoCheck
        /\ UNCHANGED <<item, temp, target, aside, running, files, xml, owed, big>>
    BY <1>6, <2>1 DEF RecheckJudge, NextCheck, disk, inbox, set, Types, WorkType
  <2>3. Checking'
    BY <2>2, Fields DEF Checking
  <2>4. CASE check.good /\ MoveFile(f, TRUE)
    <3>1. ASSUME f \in owed
          PROVE  Safe(f)' /\ temp[f] \in {"whole", "none"} /\ f \notin running
      <4>1. f \notin running /\ (temp[f] = "whole" \/ item[f] # "queued")
        BY <2>1, <2>2, <2>4, <3>1 DEF WholeInv, Checking
      <4> QED
        BY <2>2, <3>1, <4>1 DEF WholeInv, KeptInv, Kept, Settled, Safe
    <3>2. SizesInv' /\ KeptInv' /\ CopyInv' /\ XmlInv'
      BY <2>2, <2>4, <3>1, MoveFileWhole
    <3> QED
      BY <2>3, <3>2 DEF WholeInv
  <2>5. CASE UNCHANGED <<caller, moving>>
    BY <2>2, <2>3, <2>5, FrameWhole DEF WholeInv, XmlInv
  <2> QED
    BY <1>6, <2>1, <2>4, <2>5 DEF RecheckJudge
<1> QED
  BY <1>2, <1>3, <1>4, <1>5, <1>6 DEF Rechecks

\* Saving, ending and starting again.
LEMMA ProcessWhole ==
    ASSUME Types, WholeInv, Save \/ Shutdown \/ JoinWorkers \/ Crash \/ Restart
    PROVE  WholeInv'
<1>1. CASE Save \/ Shutdown \/ JoinWorkers
  <2>1. /\ UNCHANGED <<item, temp, target, aside, running, files, moving, caller, check, owed, big>>
        /\ xml' \in {xml, NoXml, item}
    BY <1>1 DEF Save, Shutdown, SaveDeletes, SaveRenames, SaveFails, JoinWorkers, work, inbox, disk,
       set
  <2>2. SizesInv' /\ KeptInv' /\ CopyInv' /\ \A g : Called(g)' <=> Called(g)
    BY <2>1, FrameWhole
  <2>3. XmlInv'
    BY <2>1 DEF WholeInv, XmlInv
  <2>4. Checking'
    BY <2>1, <2>2 DEF WholeInv, Checking
  <2> QED
    BY <2>2, <2>3, <2>4 DEF WholeInv
<1>2. CASE Reborn
  <2>1. /\ UNCHANGED <<temp, target, aside, xml>> /\ running' = {} /\ owed' \subseteq owed
        /\ files'["mover"] = <<>> /\ caller'["mover"] = NoCall /\ check' = NoCheck
        /\ \A t \in Movers : moving'[t] = NoMove
        /\ xml = NoXml => owed' = {} /\ item' = [f \in Files |-> "none"]
        /\ xml # NoXml => item' = [f \in Files |-> IF xml[f] = "reset" THEN "queued" ELSE xml[f]]
    BY <1>2 DEF Reborn, Loaded, disk, Movers, Workers
  <2>2. \A g : ~Called(g)' /\ ~InMover(g)'
    BY <2>1, Fields DEF Called, InMover, Movers
  <2>3. KeptInv'
    <3>1. ASSUME NEW g \in owed', item'[g] # "queued"
          PROVE  Safe(g)' /\ temp[g] \in {"whole", "none"}
      <4>1. g \in Files /\ xml # NoXml /\ xml[g] \in {"finished", "none"} /\ g \in owed
        BY <2>1, <3>1 DEF Types, DiskType, Items
      <4>2. item[g] # "queued"
        BY <4>1 DEF WholeInv, XmlInv
      <4> QED
        BY <2>1, <4>1, <4>2 DEF WholeInv, KeptInv, Kept, Settled, Safe
    <3> QED
      BY <2>1, <2>2, <3>1 DEF KeptInv, Kept, Settled
  <2>4. SizesInv' /\ CopyInv' /\ Checking'
    BY <2>1, Fields DEF SizesInv, CopyInv, Copying, Checking, Movers
  <2>5. XmlInv'
    BY <2>1 DEF XmlInv, Types, DiskType
  <2> QED
    BY <2>3, <2>4, <2>5 DEF WholeInv
<1> QED
  BY <1>1, <1>2 DEF Crash, Restart

\* The account of the whole files holds initially.
LEMMA WholeInit ==
    ASSUME Init
    PROVE  WholeInv
<1>1. Types
  BY TypesInit
<1>2. /\ caller["mover"].step = "none" /\ files["mover"] = <<>> /\ check.step = "none"
      /\ \A t \in Movers : moving[t].step = "none"
      /\ running = {} /\ xml = item /\ \A f \in owed : item[f] = "queued"
  BY <1>1, Fields DEF Init, Movers
<1>3. \A f \in owed : ~Settled(f) /\ ~InMover(f)
  BY <1>2 DEF Settled, Called, InMover, Movers
<1>4. KeptInv
  BY <1>2, <1>3 DEF KeptInv, Kept
<1>5. SizesInv /\ CopyInv /\ Checking /\ XmlInv
  BY <1>2 DEF SizesInv, CopyInv, Copying, Checking, XmlInv, Movers
<1> QED
  BY <1>4, <1>5 DEF WholeInv

\* Every step keeps the account of the whole files.
LEMMA WholeStep ==
    ASSUME Types, WholeInv, [Next]_vars
    PROVE  WholeInv'
<1>1. CASE UNCHANGED vars
  <2>1. UNCHANGED <<item, temp, target, aside, running, files, moving, caller, check, xml, owed, big>>
    BY <1>1 DEF vars, disk, work, inbox, rest, set
  <2> QED
    BY <2>1, FrameWhole DEF WholeInv, Checking, XmlInv
<1>2. CASE Next
  BY <1>2, WorkersWhole, MovesWhole, QueueWhole, RecheckWhole, ProcessWhole DEF Next, Movers
<1> QED
  BY <1>1, <1>2

-----------------------------------------------------------------------------
(* The theorems                                                            *)

LEMMA InvInit ==
    ASSUME Init
    PROVE  Inv /\ LateInv
<1>1. Types
  BY TypesInit
<1>2. WorkerInv
  BY <1>1, Fields DEF Init, WorkerInv, JoinIsShort
<1>3. EndInv
  BY DEF Init, EndInv
<1>4. LateInv
  BY DEF Init, LateInv, OnlyLateWait, AllLate
<1> QED
  BY <1>1, <1>2, <1>3, <1>4 DEF Inv

\* Every step keeps the inductive invariant and the account of late files.
LEMMA InvStep ==
    ASSUME Inv, LateInv, [Next]_vars
    PROVE  Inv' /\ LateInv'
<1>1. Types'
  BY TypesStep DEF Inv
<1>2. ASSUME Quiet PROVE LateInv'
  BY <1>2, QuietLate DEF Quiet, LateInv, OnlyLateWait, AllLate, Inv
<1>3. CASE UNCHANGED vars
  <2>1. Quiet
    BY <1>3 DEF vars, work, inbox, Quiet
  <2>2. WorkerInv' /\ EndInv'
    BY <1>3 DEF vars, work, inbox, rest, Inv, WorkerInv, EndInv, JoinIsShort
  <2> QED
    BY <1>1, <1>2, <2>1, <2>2 DEF Inv
<1>4. CASE \E w \in Workers : Worker(w) \/ Caller(w)
  BY <1>1, <1>4, ThreadsInv, CallersInv, QueuesLate DEF Inv
<1>5. CASE \E t \in Movers : Moves(t)
  BY <1>1, <1>2, <1>5, MovesInv DEF Inv
<1>6. CASE Complete \/ Rechecks
  BY <1>1, <1>2, <1>6, RecheckInv DEF Inv
<1>7. CASE \E f \in Files : Download(f) \/ Finish(f) \/ Abort(f) \/ Remove(f) \/ Recheck(f)
  BY <1>1, <1>2, <1>7, QueueInv DEF Inv
<1>8. CASE Save \/ Shutdown \/ JoinWorkers \/ Crash \/ Restart
  <2>1. ASSUME \A w \in Workers : files'[w] = <<>> /\ thread'[w] = "none"
        PROVE  LateInv'
    BY <2>1 DEF LateInv, OnlyLateWait, AllLate
  <2> QED
    BY <1>1, <1>2, <1>8, <2>1, ProcessInv DEF Inv
<1> QED
  BY <1>3, <1>4, <1>5, <1>6, <1>7, <1>8 DEF Next, Movers

\* The inductive invariant holds in every reachable state.
LEMMA InvHolds == Spec => [](Inv /\ LateInv)
<1>1. Init => Inv /\ LateInv
  BY InvInit
<1>2. Inv /\ LateInv /\ [Next]_vars => (Inv /\ LateInv)'
  BY InvStep
<1> QED
  BY <1>1, <1>2, PTL DEF Spec

\* Whoever starts a worker's thread, with QueueManager::cs held if it is the
\* mover's, only ever joins a thread that has nothing left to move or to check.
THEOREM JoinIsShortTheorem == Spec => []JoinIsShort
<1>1. Inv => JoinIsShort
  BY DEF Inv, WorkerInv
<1> QED
  BY <1>1, InvHolds, PTL

\* Destroying the rechecker before the mover leaves no move under way and nobody
\* to begin one when the client has ended.
THEOREM EndsInOrderTheorem == Spec => []EndsInOrder
<1>1. Inv => EndsInOrder
  <2>1. ASSUME Inv, phase = "down" PROVE EndsInOrder
    BY <2>1, Fields DEF Inv, WorkerInv, EndInv, EndsInOrder
  <2> QED
    BY <2>1 DEF EndsInOrder
<1> QED
  BY <1>1, InvHolds, PTL

\* The flag of a worker loses no file but those put into its queue between the
\* last look at it and the clearing of the flag.
THEOREM OnlyLateWaitTheorem == Spec => []OnlyLateWait
<1>1. LateInv => OnlyLateWait
  BY DEF LateInv
<1> QED
  BY <1>1, InvHolds, PTL

\* Whatever crashes, moves and saves that fail and rechecks do to it: a file of the
\* queue is still to be downloaded, or it is whole under its name, beside its
\* temporary name or under that; unless the user removed it, the client started
\* without a Queue.xml, a download began during its recheck, or another file of
\* its bare name, whose move failed too, took the place of the copy that was left.
THEOREM NothingVanishesTheorem == Spec => []NothingVanishes
<1>1. Init => Types /\ WholeInv
  BY TypesInit, WholeInit
<1>2. Types /\ WholeInv /\ [Next]_vars => (Types /\ WholeInv)'
  BY TypesStep, WholeStep
<1>3. Types /\ WholeInv => NothingVanishes
  BY DEF WholeInv, KeptInv, Kept, Settled, Safe, NothingVanishes
<1> QED
  BY <1>1, <1>2, <1>3, PTL DEF Spec
=============================================================================
