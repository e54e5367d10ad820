------------------------- MODULE BufferedSocketProof -------------------------
(***************************************************************************)
(* Proofs about the socket threads and the throttle, for any number of      *)
(* connections, calls and tokens.                                           *)
(***************************************************************************)
EXTENDS BufferedSocket, TLAPS

-----------------------------------------------------------------------------
(* The gate                                                                *)

\* While on(Second) is under way throttling is on, and the timer has ended before
\* anything else is shut down.
GateInv ==
    /\ activeWaiter \in {-1, 0, 1}
    /\ held = {activeWaiter} \ {-1}
    /\ second \in 0 .. 2
    /\ second # 0 => activeWaiter # -1
    /\ timerOn \in BOOLEAN
    /\ ~timerOn => second = 0
    /\ main # "running" => ~timerOn
    /\ place \in [Conns -> {"out", "token", "wait", "gate"}]
    /\ gate \in [Conns -> {-1, 0, 1}]
    /\ \A c \in Conns : place[c] = "gate" => gate[c] \in {0, 1}

\* Steps that touch neither the throttle nor the main thread's place.
LEMMA GateUntouched ==
    ASSUME GateInv, UNCHANGED throttleVars, main' = main
    PROVE  GateInv'
BY DEF GateInv, throttleVars

\* Steps of the main thread's shutdown that do not touch the throttle.
LEMMA GateAfterMain ==
    ASSUME GateInv, UNCHANGED throttleVars, main # "running"
    PROVE  GateInv'
BY DEF GateInv, throttleVars

\* The steps of a transfer thread: it chooses the mutex that activeWaiter names.
LEMMA GateThreads ==
    ASSUME GateInv, main' = main, NEW c \in Conns,
           Limited(c) \/ TakeToken(c) \/ ReadFails(c) \/ NoToken(c) \/ WaitToken(c) \/ PassGate(c)
    PROVE  GateInv'
<1>1. CASE Limited(c)
  BY <1>1 DEF GateInv, Limited
<1>2. CASE TakeToken(c)
  BY <1>2 DEF GateInv, TakeToken
<1>3. CASE ReadFails(c)
  BY <1>3 DEF GateInv, ReadFails
<1>4. CASE NoToken(c)
  BY <1>4 DEF GateInv, NoToken
<1>5. CASE WaitToken(c)
  BY <1>5 DEF GateInv, WaitToken
<1>6. CASE PassGate(c)
  BY <1>6 DEF GateInv, PassGate
<1> QED
  BY <1>1, <1>2, <1>3, <1>4, <1>5, <1>6

\* The steps of the timer.
LEMMA GateSecond ==
    ASSUME GateInv, main' = main, Second
    PROVE  GateInv'
<1>1. CASE SecondStarts
  <2>1. held' = {activeWaiter'} \ {-1}
    BY <1>1 DEF GateInv, SecondStarts
  <2> QED
    BY <1>1, <2>1 DEF GateInv, SecondStarts
<1>2. CASE Refill
  BY <1>2 DEF GateInv, Refill
<1>3. CASE Switch
  <2>1. activeWaiter \in {0, 1} /\ held = {activeWaiter}
    BY <1>3 DEF GateInv, Switch
  <2>2. activeWaiter' \in {0, 1} /\ held' = {activeWaiter'}
    BY <1>3, <2>1 DEF Switch
  <2> QED
    BY <1>3, <2>2 DEF GateInv, Switch
<1> QED
  BY <1>1, <1>2, <1>3 DEF Second

\* Every step keeps the gate in order.
LEMMA GateStep ==
    ASSUME GateInv, [Next]_vars
    PROVE  GateInv'
<1>1. ASSUME NEW c \in Conns, Maker(c)
      PROVE  GateInv'
  BY <1>1, GateUntouched
     DEF Maker, Make, GetConnection, GetSocket, Connect, ConnectFails, mainVars
<1>2. ASSUME NEW c \in Conns, Call(c)
      PROVE  GateInv'
  BY <1>2, GateUntouched
     DEF Call, Write, TransmitFile, CallAsync, Disconnect, ProtocolError, mainVars
<1>3. ASSUME NEW c \in Conns,
             \/ End(c) \/ Begin(c) \/ Connected(c) \/ SendData(c) \/ SendFile(c)
             \/ TaskDisconnect(c) \/ Ignore(c) \/ NoTask(c) \/ CheckSocket(c)
             \/ LeaveLoop(c) \/ Sent(c) \/ WouldBlock(c) \/ Fail(c)
      PROVE  GateInv'
  <2>1. UNCHANGED throttleVars /\ main' = main
    BY <1>3 DEF End, Begin, Connected, SendData, SendFile, TaskDisconnect, Ignore,
       NoTask, CheckSocket, LeaveLoop, Sent, WouldBlock, Fail, Elsewhere, mainVars
  <2> QED
    BY <2>1, GateUntouched
<1>4. ASSUME NEW c \in Conns, OnFailed(c)
      PROVE  GateInv'
  BY <1>4, GateUntouched DEF OnFailed, mainVars
<1>5. ASSUME NEW c \in Conns,
             Transfer(c) \/ NoTransfer(c) \/ GoToGate(c) \/ Released(c) \/ Throttled(c)
      PROVE  GateInv'
  BY <1>5, GateThreads
     DEF Transfer, NoTransfer, GoToGate, Released, Throttled, Others, mainVars
<1>6. ASSUME NEW c \in Conns, FailRead(c)
      PROVE  GateInv'
  BY <1>6, GateThreads DEF FailRead, mainVars
<1>7. CASE Tick
  BY <1>7, GateSecond DEF Tick, mainVars
<1>8. CASE TimerEnds
  BY <1>8 DEF TimerEnds, StopTimer, GateInv
<1>9. CASE ThrottleEnds
  <2>1. held' = {activeWaiter'} \ {-1} /\ activeWaiter' = -1
    BY <1>9 DEF ThrottleEnds, Shutdown, GateInv
  <2>2. ~timerOn /\ second = 0 /\ second' = 0 /\ timerOn' = timerOn
    BY <1>9 DEF ThrottleEnds, Shutdown, GateInv
  <2> QED
    BY <1>9, <2>1, <2>2 DEF ThrottleEnds, Shutdown, GateInv
<1>10. CASE StopAccepting \/ DisconnectAll \/ DiedOut \/ WaitShutdown
  BY <1>10, GateAfterMain DEF StopAccepting, DisconnectAll, DiedOut, WaitShutdown
<1>11. CASE UNCHANGED vars
  BY <1>11, GateUntouched DEF vars, mainVars
<1> QED
  BY <1>1, <1>2, <1>3, <1>4, <1>5, <1>6, <1>7, <1>8, <1>9, <1>10, <1>11
     DEF Next, Runs, Main

\* Whatever the number of threads, exactly the mutex that activeWaiter names is
\* held between the steps of on(Second) and of the shutdown.
THEOREM GateTheorem == Spec => []OneGateClosed
<1>1. Init => GateInv
  BY DEF Init, ThrottleInit, GateInv
<1>2. GateInv /\ [Next]_vars => GateInv'
  BY GateStep
<1>3. GateInv => OneGateClosed
  BY DEF GateInv, OneGateClosed
<1> QED
  BY <1>1, <1>2, <1>3, PTL DEF Spec

-----------------------------------------------------------------------------
(* The life of a socket                                                    *)

Tasks == {"CONNECT", "ACCEPTED", "SEND_DATA", "SEND_FILE", "ASYNC_CALL",
          "DISCONNECT", "SHUTDOWN"}

\* SHUTDOWN is not among the tasks s.
NoShutdown(s) == \A i \in 1 .. Len(s) : s[i] # "SHUTDOWN"

\* A socket is made after its UserConnection, which nobody deletes meanwhile; only
\* the deletion of the UserConnection queues a SHUTDOWN.
LifeInv ==
    /\ maker \in [Conns -> {"none", "checked", "listed", "made", "done"}]
    /\ tasks \in [Conns -> Seq(Tasks)]
    /\ \A c \in Conns : maker[c] \in {"none", "checked", "listed"} =>
          c \notin sockets /\ tasks[c] = <<>>
    /\ alive \subseteq Conns
    /\ \A c \in Conns : maker[c] = "listed" => c \in alive
    /\ \A c \in alive : maker[c] \in {"made", "done"} => c \in sockets
    /\ \A c \in alive : NoShutdown(tasks[c])

\* An empty task queue holds no SHUTDOWN.
LEMMA NoShutdownEmpty == NoShutdown(<<>>)
BY DEF NoShutdown

\* Queueing a task other than SHUTDOWN adds none (BufferedSocket::addTask).
LEMMA NoShutdownAppend ==
    ASSUME NEW s \in Seq(Tasks), NoShutdown(s), NEW x \in Tasks, x # "SHUTDOWN"
    PROVE  NoShutdown(Append(s, x))
BY DEF NoShutdown

\* Taking the first task of a queue without SHUTDOWN leaves one without it.
LEMMA NoShutdownTail ==
    ASSUME NEW s \in Seq(Tasks), NoShutdown(s), s # <<>>
    PROVE  NoShutdown(Tail(s))
BY DEF NoShutdown

\* Steps that leave the connections' owners and queues alone.
LEMMA LifeUntouched ==
    ASSUME LifeInv, UNCHANGED <<maker, tasks, sockets, alive>>
    PROVE  LifeInv'
BY DEF LifeInv

\* A task other than SHUTDOWN is queued for a connection that has its socket.
LEMMA LifeAddTask ==
    ASSUME LifeInv, NEW c \in Conns, maker[c] \in {"made", "done"},
           NEW t \in Tasks \ {"SHUTDOWN"}, AddTask(c, t),
           maker' = maker \/ maker' = [maker EXCEPT ![c] = "done"],
           UNCHANGED <<sockets, alive>>
    PROVE  LifeInv'
<1>1. tasks' = [tasks EXCEPT ![c] = Append(tasks[c], t)] /\ tasks[c] \in Seq(Tasks)
  BY DEF LifeInv, AddTask
<1>2. tasks' \in [Conns -> Seq(Tasks)]
  BY <1>1 DEF LifeInv
<1>3. \A d \in alive' : NoShutdown(tasks'[d])
  BY <1>1, NoShutdownAppend DEF LifeInv
<1>4. \A d \in Conns : maker'[d] \in {"none", "checked", "listed"} =>
          d \notin sockets' /\ tasks'[d] = <<>>
  BY <1>1 DEF LifeInv
<1> QED
  BY <1>2, <1>3, <1>4 DEF LifeInv

\* A task is taken.
LEMMA LifeTake ==
    ASSUME LifeInv, NEW c \in Conns, NEW t, t # "none", Take(c, t),
           UNCHANGED <<sockets, alive, maker>>
    PROVE  LifeInv'
<1>1. /\ c \in sockets /\ tasks[c] # <<>> /\ tasks[c] \in Seq(Tasks)
      /\ tasks' = [tasks EXCEPT ![c] = Tail(tasks[c])]
  BY DEF LifeInv, Take, NextTask, Thread
<1>2. tasks' \in [Conns -> Seq(Tasks)]
  BY <1>1 DEF LifeInv
<1>3. \A d \in alive' : NoShutdown(tasks'[d])
  BY <1>1, NoShutdownTail DEF LifeInv
<1> QED
  BY <1>1, <1>2, <1>3 DEF LifeInv

\* A UserConnection is deleted and its socket put away.
LEMMA LifePutAway ==
    ASSUME LifeInv, NEW c \in Conns, maker[c] \in {"made", "done"}, PutAway(c),
           maker' = maker \/ maker' = [maker EXCEPT ![c] = "done"],
           UNCHANGED sockets
    PROVE  LifeInv'
<1>1. PICK more \in Seq(Tasks) : tasks' = [tasks EXCEPT ![c] = tasks[c] \o more]
  <2>1. CASE c \in userConnections
    <3>1. <<"DISCONNECT", "SHUTDOWN">> \in Seq(Tasks)
      BY DEF Tasks
    <3> QED
      BY <2>1, <3>1 DEF PutAway
  <2>2. CASE c \notin userConnections
    <3>1. <<"SHUTDOWN">> \in Seq(Tasks)
      BY DEF Tasks
    <3>2. Append(tasks[c], "SHUTDOWN") = tasks[c] \o <<"SHUTDOWN">>
      BY DEF LifeInv, Tasks
    <3> QED
      BY <2>2, <3>1, <3>2 DEF PutAway
  <2> QED
    BY <2>1, <2>2
<1>2. tasks' \in [Conns -> Seq(Tasks)]
  BY <1>1 DEF LifeInv
<1>3. alive' = alive \ {c}
  BY DEF PutAway
<1> QED
  BY <1>1, <1>2, <1>3 DEF LifeInv

\* A thread that is running has a connection that was made.
LEMMA RunningIsMade ==
    ASSUME LifeInv, NEW c \in Conns, c \in sockets
    PROVE  maker[c] \in {"made", "done"}
BY DEF LifeInv

\* Every step keeps sockets and owners in order.
LEMMA LifeStep ==
    ASSUME LifeInv, [Next]_vars
    PROVE  LifeInv'
<1>1. ASSUME NEW c \in Conns, Make(c)
      PROVE  LifeInv'
  BY <1>1 DEF Make, LifeInv, socketVars
<1>2. ASSUME NEW c \in Conns, GetConnection(c)
      PROVE  LifeInv'
  BY <1>2, NoShutdownEmpty DEF GetConnection, LifeInv, socketVars
<1>3. ASSUME NEW c \in Conns, GetSocket(c)
      PROVE  LifeInv'
  BY <1>3 DEF GetSocket, LifeInv
<1>4. ASSUME NEW c \in Conns, Connect(c)
      PROVE  LifeInv'
  BY <1>4, LifeAddTask DEF Connect, Tasks
<1>5. ASSUME NEW c \in Conns, ConnectFails(c)
      PROVE  LifeInv'
  BY <1>5, LifePutAway DEF ConnectFails
<1>6. ASSUME NEW c \in Conns, Call(c)
      PROVE  LifeInv'
  <2>1. CASE Write(c)
    <3>1. maker[c] = "done" /\ UNCHANGED <<sockets, alive, maker>>
      BY <2>1 DEF Write, InUse, ownerVars
    <3>2. UNCHANGED tasks \/ AddTask(c, "SEND_DATA")
      BY <2>1 DEF Write
    <3> QED
      BY <3>1, <3>2, LifeUntouched, LifeAddTask DEF Tasks
  <2>2. CASE TransmitFile(c)
    BY <2>2, LifeAddTask DEF TransmitFile, InUse, ownerVars, Tasks
  <2>3. CASE CallAsync(c)
    BY <2>3, LifeAddTask DEF CallAsync, InUse, ownerVars, Tasks
  <2>4. CASE ProtocolError(c)
    BY <2>4, LifeAddTask DEF ProtocolError, InUse, Tasks
  <2>5. ASSUME NEW graceless \in BOOLEAN, Disconnect(c, graceless)
        PROVE  LifeInv'
    BY <2>5, LifeAddTask DEF Disconnect, ownerVars, Tasks
  <2> QED
    BY <1>6, <2>1, <2>2, <2>3, <2>4, <2>5 DEF Call
<1>7. ASSUME NEW c \in Conns, End(c)
      PROVE  LifeInv'
  <2>1. /\ tasks[c] # <<>> /\ tasks[c] \in Seq(Tasks) /\ Head(tasks[c]) = "SHUTDOWN"
        /\ c \in sockets
    BY <1>7 DEF End, NextTask, Thread, LifeInv
  <2>2. c \notin alive
    BY <2>1 DEF LifeInv, NoShutdown
  <2>3. tasks' = [tasks EXCEPT ![c] = <<>>] /\ sockets' = sockets \ {c}
    BY <1>7 DEF End
  <2>4. tasks' \in [Conns -> Seq(Tasks)]
    BY <2>3 DEF LifeInv
  <2> QED
    BY <1>7, <2>2, <2>3, <2>4 DEF End, Elsewhere, ownerVars, LifeInv
<1>8. ASSUME NEW c \in Conns,
             \/ Begin(c) \/ SendData(c) \/ SendFile(c) \/ TaskDisconnect(c) \/ Ignore(c)
      PROVE  LifeInv'
  <2>1. PICK t : t # "none" /\ Take(c, t)
    BY <1>8 DEF Begin, SendData, SendFile, TaskDisconnect, Ignore
  <2>2. UNCHANGED <<sockets, alive, maker>>
    BY <1>8 DEF Begin, SendData, SendFile, TaskDisconnect, Ignore, Elsewhere, ownerVars
  <2> QED
    BY <2>1, <2>2, LifeTake
<1>9. ASSUME NEW c \in Conns,
             \/ Connected(c) \/ NoTask(c) \/ CheckSocket(c) \/ LeaveLoop(c)
             \/ Sent(c) \/ WouldBlock(c) \/ Fail(c) \/ FailRead(c)
             \/ Transfer(c) \/ NoTransfer(c) \/ GoToGate(c) \/ Released(c) \/ Throttled(c)
      PROVE  LifeInv'
  <2>1. UNCHANGED <<maker, tasks, sockets, alive>>
    BY <1>9 DEF Connected, NoTask, CheckSocket, LeaveLoop, Sent, WouldBlock, Fail, FailRead,
       Transfer, NoTransfer, GoToGate, Released, Throttled, Others, Elsewhere, ownerVars
  <2> QED
    BY <2>1, LifeUntouched
<1>10. ASSUME NEW c \in Conns, OnFailed(c)
       PROVE  LifeInv'
  BY <1>10, RunningIsMade, LifePutAway DEF OnFailed, Thread
<1>11. CASE Tick
  BY <1>11, LifeUntouched DEF Tick, socketVars, ownerVars
<1>12. CASE TimerEnds \/ ThrottleEnds \/ StopAccepting \/ DiedOut \/ WaitShutdown
  <2>1. NotSockets
    BY <1>12 DEF TimerEnds, ThrottleEnds, StopAccepting, DiedOut, WaitShutdown
  <2> QED
    BY <2>1, LifeUntouched DEF NotSockets, socketVars
<1>13. CASE DisconnectAll
  <2> DEFINE reached == {c \in userConnections : maker[c] \in {"made", "done"}}
  <2>1. /\ tasks' = [c \in Conns |-> IF c \in reached THEN Append(tasks[c], "DISCONNECT")
                                                       ELSE tasks[c]]
        /\ UNCHANGED <<maker, alive, sockets>>
    BY <1>13 DEF DisconnectAll, ownerVars
  <2>2. "DISCONNECT" \in Tasks \ {"SHUTDOWN"}
    BY DEF Tasks
  <2>3. tasks' \in [Conns -> Seq(Tasks)]
    BY <2>1, <2>2 DEF LifeInv
  <2>4. \A d \in alive : NoShutdown(tasks'[d])
    BY <2>1, <2>2, NoShutdownAppend DEF LifeInv
  <2>5. \A d \in Conns : maker[d] \in {"none", "checked", "listed"} => tasks'[d] = tasks[d]
    BY <2>1
  <2> QED
    BY <2>1, <2>3, <2>4, <2>5 DEF LifeInv
<1>14. CASE UNCHANGED vars
  BY <1>14, LifeUntouched DEF vars, socketVars, ownerVars
<1> QED
  BY <1>1, <1>2, <1>3, <1>4, <1>5, <1>6, <1>7, <1>8, <1>9, <1>10, <1>11, <1>12, <1>13, <1>14
     DEF Next, Maker, Runs, Main

\* For any number of connections and calls: the socket of a UserConnection is not
\* deleted before the UserConnection is.
THEOREM LifeTheorem == Spec => []SocketOutlivesOwner
<1>1. Init => LifeInv
  BY DEF Init, LifeInv
<1>2. LifeInv /\ [Next]_vars => LifeInv'
  BY LifeStep
<1>3. LifeInv => SocketOutlivesOwner
  BY DEF LifeInv, SocketOutlivesOwner
<1> QED
  BY <1>1, <1>2, <1>3, PTL DEF Spec

-----------------------------------------------------------------------------
(* Connections live as ConnectionLife says                                 *)

\* Nothing happens to any connection.
LEMMA PhasesUntouched ==
    ASSUME UNCHANGED <<maker, alive, sockets>>
    PROVE  UNCHANGED Phases
BY DEF Phases

\* One connection goes from one phase to the next.
LEMMA PhasesPass ==
    ASSUME NEW c \in Conns, NEW from, NEW to,
           Phases[c] = from, Phases' = [Phases EXCEPT ![c] = to],
           <<from, to>> \in {<<"absent", "owned">>, <<"owned", "open">>,
                             <<"open", "leaving">>, <<"leaving", "gone">>}
    PROVE  Life!Next
BY DEF Life!Next, Life!Own, Life!Open, Life!Disown, Life!Die, Life!Pass

\* The owner of c is deleted: c was open, or had no owner any more.
LEMMA PhasesPutAway ==
    ASSUME LifeInv, NEW c \in Conns, maker[c] \in {"made", "done"}, PutAway(c),
           maker' = maker \/ maker' = [maker EXCEPT ![c] = "done"],
           UNCHANGED sockets
    PROVE  [Life!Next]_Phases
<1>1. alive' = alive \ {c} /\ maker'[c] \in {"made", "done"}
  BY DEF PutAway, LifeInv
<1>2. CASE c \in alive
  <2>1. Phases[c] = "open" /\ Phases' = [Phases EXCEPT ![c] = "leaving"]
    BY <1>1, <1>2 DEF Phases, LifeInv
  <2> QED
    BY <2>1, PhasesPass
<1>3. CASE c \notin alive
  BY <1>1, <1>3 DEF Phases, LifeInv
<1> QED
  BY <1>2, <1>3

\* Every step is a step of ConnectionLife, or none.
LEMMA PhasesStep ==
    ASSUME LifeInv, [Next]_vars
    PROVE  [Life!Next]_Phases
<1>1. ASSUME NEW c \in Conns, Make(c)
      PROVE  UNCHANGED Phases
  BY <1>1 DEF Make, Phases, LifeInv, socketVars
<1>2. ASSUME NEW c \in Conns, GetConnection(c)
      PROVE  Life!Next
  <2>1. Phases[c] = "absent" /\ Phases' = [Phases EXCEPT ![c] = "owned"]
    BY <1>2 DEF GetConnection, Phases, LifeInv, socketVars
  <2> QED
    BY <2>1, PhasesPass
<1>3. ASSUME NEW c \in Conns, GetSocket(c)
      PROVE  Life!Next
  <2>1. Phases[c] = "owned" /\ Phases' = [Phases EXCEPT ![c] = "open"]
    BY <1>3 DEF GetSocket, Phases, LifeInv
  <2> QED
    BY <2>1, PhasesPass
<1>4. ASSUME NEW c \in Conns, Connect(c)
      PROVE  UNCHANGED Phases
  BY <1>4 DEF Connect, Phases, LifeInv
<1>5. ASSUME NEW c \in Conns, ConnectFails(c)
      PROVE  [Life!Next]_Phases
  BY <1>5, PhasesPutAway DEF ConnectFails
<1>6. ASSUME NEW c \in Conns, Call(c)
      PROVE  UNCHANGED Phases
  <2>1. UNCHANGED <<maker, alive, sockets>>
    BY <1>6 DEF Call, Write, TransmitFile, CallAsync, Disconnect, ProtocolError, ownerVars
  <2> QED
    BY <2>1, PhasesUntouched
<1>7. ASSUME NEW c \in Conns, End(c)
      PROVE  Life!Next
  <2>1. /\ tasks[c] # <<>> /\ tasks[c] \in Seq(Tasks) /\ Head(tasks[c]) = "SHUTDOWN"
        /\ c \in sockets
    BY <1>7 DEF End, NextTask, Thread, LifeInv
  <2>2. c \notin alive
    BY <2>1 DEF LifeInv, NoShutdown
  <2>3. maker[c] \in {"made", "done"}
    BY <2>1, RunningIsMade
  <2>4. sockets' = sockets \ {c} /\ UNCHANGED <<maker, alive>>
    BY <1>7 DEF End, Elsewhere, ownerVars
  <2>5. Phases[c] = "leaving" /\ Phases' = [Phases EXCEPT ![c] = "gone"]
    BY <2>1, <2>2, <2>3, <2>4 DEF Phases
  <2> QED
    BY <2>5, PhasesPass
<1>8. ASSUME NEW c \in Conns,
             \/ Begin(c) \/ SendData(c) \/ SendFile(c) \/ TaskDisconnect(c) \/ Ignore(c)
             \/ Connected(c) \/ NoTask(c) \/ CheckSocket(c) \/ LeaveLoop(c)
             \/ Sent(c) \/ WouldBlock(c) \/ Fail(c) \/ FailRead(c)
             \/ Transfer(c) \/ NoTransfer(c) \/ GoToGate(c) \/ Released(c) \/ Throttled(c)
      PROVE  UNCHANGED Phases
  <2>1. UNCHANGED <<maker, alive, sockets>>
    BY <1>8 DEF Begin, SendData, SendFile, TaskDisconnect, Ignore,
       Connected, NoTask, CheckSocket, LeaveLoop, Sent, WouldBlock, Fail, FailRead,
       Transfer, NoTransfer, GoToGate, Released, Throttled, Others, Elsewhere, ownerVars
  <2> QED
    BY <2>1, PhasesUntouched
<1>9. ASSUME NEW c \in Conns, OnFailed(c)
      PROVE  [Life!Next]_Phases
  BY <1>9, RunningIsMade, PhasesPutAway DEF OnFailed, Thread
<1>10. CASE Tick \/ Main \/ UNCHANGED vars
  <2>1. UNCHANGED <<maker, alive, sockets>>
    BY <1>10 DEF Tick, Main, TimerEnds, ThrottleEnds, StopAccepting, DisconnectAll, DiedOut,
       WaitShutdown, NotSockets, vars, socketVars, ownerVars
  <2> QED
    BY <2>1, PhasesUntouched
<1> QED
  BY <1>1, <1>2, <1>3, <1>4, <1>5, <1>6, <1>7, <1>8, <1>9, <1>10 DEF Next, Maker, Runs

\* For any number of connections and calls, and in every order of the threads'
\* steps and the shutdown's, the sockets and their owners implement
\* ConnectionLife.
THEOREM LifeImplemented == Spec => LivesInOrder
<1>1. Init => LifeInv
  BY DEF Init, LifeInv
<1>2. LifeInv /\ [Next]_vars => LifeInv'
  BY LifeStep
<1>3. Init => Life!Init
  BY DEF Init, Life!Init, Phases
<1>4. LifeInv /\ [Next]_vars => [Life!Next]_Phases
  BY PhasesStep
<1> QED
  BY <1>1, <1>2, <1>3, <1>4, PTL DEF Spec, LivesInOrder, Life!Spec
-----------------------------------------------------------------------------
(* Types, and the data to be sent                                          *)

States == {"STARTING", "RUNNING", "FAILED"}
Places == {"events", "connecting", "senddata", "sendfile", "blocked", "socket", "failed", "ended"}

OwnerTypes ==
    /\ userConnections \subseteq alive /\ sockets \subseteq Conns
    /\ main \in {"running", "timer", "throttle", "closing", "waiting", "died", "ended"}
    /\ calls \in 0 .. MaxCalls /\ missed \subseteq Conns

ThreadTypes ==
    /\ tokens \in [Dirs -> 0 .. Limit]
    /\ state \in [Conns -> States] /\ at \in [Conns -> Places]
    /\ writeBuf \subseteq Conns /\ sendBuf \subseteq Conns
    /\ disconnecting \subseteq Conns /\ dropped \subseteq Conns

\* Only a connection that stands has something to send.  Unless it has been told to
\* leave, what is in writeBuf has a task to send it, and sendBuf is empty when
\* threadSendData is not running; a thread that waits for the throttle stays in the
\* loop it came from, and for an upload that is never the one of threadSendData.
Sending(c) ==
    /\ c \in writeBuf \cup sendBuf => state[c] = "RUNNING"
    /\ c \in writeBuf => c \in disconnecting \/ "SEND_DATA" \in ToSet(tasks[c])
    /\ c \in sendBuf => c \in disconnecting \/ at[c] = "senddata"
    /\ c \in Uploads /\ place[c] # "out" => at[c] = "sendfile"

DataInv == \A c \in Conns : Sending(c)

\* What a queue of tasks keeps when one is added to it or taken from it.
LEMMA TaskKept ==
    ASSUME NEW s \in Seq(Tasks), NEW t \in Tasks
    PROVE  /\ t \in ToSet(Append(s, t))
           /\ \A x \in Tasks : t \in ToSet(s) => t \in ToSet(Append(s, x))
           /\ \A r \in Seq(Tasks) : t \in ToSet(s) => t \in ToSet(s \o r)
           /\ s # <<>> /\ Head(s) # t /\ t \in ToSet(s) => t \in ToSet(Tail(s))
<1>1. t \in ToSet(Append(s, t))
  <2>1. Len(s) + 1 \in DOMAIN Append(s, t) /\ Append(s, t)[Len(s) + 1] = t
    OBVIOUS
  <2> QED
    BY <2>1 DEF ToSet
<1>2. ASSUME t \in ToSet(s)
      PROVE  /\ \A x \in Tasks : t \in ToSet(Append(s, x))
             /\ \A r \in Seq(Tasks) : t \in ToSet(s \o r)
             /\ s # <<>> /\ Head(s) # t => t \in ToSet(Tail(s))
  <2>1. PICK i \in DOMAIN s : s[i] = t
    BY <1>2 DEF ToSet
  <2>2. ASSUME NEW x \in Tasks PROVE t \in ToSet(Append(s, x))
    <3>1. i \in DOMAIN Append(s, x) /\ Append(s, x)[i] = t
      BY <2>1
    <3> QED
      BY <3>1 DEF ToSet
  <2>3. ASSUME NEW r \in Seq(Tasks) PROVE t \in ToSet(s \o r)
    <3>1. i \in DOMAIN (s \o r) /\ (s \o r)[i] = t
      BY <2>1
    <3> QED
      BY <3>1 DEF ToSet
  <2>4. ASSUME s # <<>>, Head(s) # t PROVE t \in ToSet(Tail(s))
    <3>1. i - 1 \in DOMAIN Tail(s) /\ Tail(s)[i - 1] = t
      BY <2>1, <2>4
    <3> QED
      BY <3>1 DEF ToSet
  <2> QED
    BY <2>2, <2>3, <2>4
<1> QED
  BY <1>1, <1>2

\* A step that concerns only c.
Concerns(c) ==
    \A d \in Conns \ {c} :
        /\ state'[d] = state[d] /\ at'[d] = at[d] /\ tasks'[d] = tasks[d] /\ place'[d] = place[d]
        /\ d \in writeBuf' => d \in writeBuf
        /\ d \in sendBuf' => d \in sendBuf
        /\ d \in disconnecting => d \in disconnecting'

\* What a step does to one connection is all there is to show.
LEMMA DataKept ==
    ASSUME DataInv, NEW c \in Conns, Concerns(c), Sending(c)'
    PROVE  DataInv'
<1>1. ASSUME NEW d \in Conns \ {c} PROVE Sending(d)'
  BY <1>1 DEF DataInv, Sending, Concerns
<1> QED
  BY <1>1 DEF DataInv

\* Tasks are added to the queue of c, and nothing else happens to it but that it
\* may be told to leave.
LEMMA DataQueued ==
    ASSUME LifeInv, DataInv, NEW c \in Conns,
           UNCHANGED <<state, at, place, writeBuf, sendBuf>>,
           disconnecting \subseteq disconnecting',
           \A d \in Conns \ {c} : tasks'[d] = tasks[d],
           \/ tasks'[c] = tasks[c]
           \/ \E t \in Tasks : tasks'[c] = Append(tasks[c], t)
           \/ \E r \in Seq(Tasks) : tasks'[c] = tasks[c] \o r
    PROVE  DataInv'
<1>1. "SEND_DATA" \in Tasks /\ tasks[c] \in Seq(Tasks)
  BY DEF Tasks, LifeInv
<1>2. "SEND_DATA" \in ToSet(tasks[c]) => "SEND_DATA" \in ToSet(tasks'[c])
  BY <1>1, TaskKept
<1>3. Sending(c)
  BY DEF DataInv
<1>4. Sending(c)'
  BY <1>2, <1>3 DEF Sending
<1>5. Concerns(c)
  BY DEF Concerns
<1> QED
  BY <1>4, <1>5, DataKept

\* Making and connecting a socket keeps the types and the data invariant.
LEMMA MakerTypes ==
    ASSUME LifeInv, OwnerTypes, ThreadTypes, DataInv, NEW c \in Conns, Maker(c)
    PROVE  OwnerTypes' /\ ThreadTypes' /\ DataInv'
<1>1. UNCHANGED <<tokens, place, state, at, writeBuf, sendBuf, dropped, main, missed, calls>>
  BY DEF Maker, Make, GetConnection, GetSocket, Connect, ConnectFails, throttleVars, socketVars,
     buffers, mainVars
<1>2. disconnecting \subseteq disconnecting' /\ disconnecting' \subseteq Conns
  BY DEF Maker, Make, GetConnection, GetSocket, Connect, ConnectFails, PutAway, socketVars,
     ThreadTypes
<1>3. userConnections' \subseteq alive' /\ sockets' \subseteq Conns
  BY DEF Maker, Make, GetConnection, GetSocket, Connect, ConnectFails, PutAway, socketVars,
     OwnerTypes
<1>4. tasks \in [Conns -> Seq(Tasks)]
  BY DEF LifeInv
<1>5. /\ \A d \in Conns \ {c} : tasks'[d] = tasks[d]
      /\ \/ tasks'[c] = tasks[c]
         \/ \E t \in Tasks : tasks'[c] = Append(tasks[c], t)
         \/ \E r \in Seq(Tasks) : tasks'[c] = tasks[c] \o r
  <2>1. <<"DISCONNECT", "SHUTDOWN">> \in Seq(Tasks) /\ {"SHUTDOWN", "ACCEPTED", "CONNECT"} \subseteq Tasks
    BY DEF Tasks
  <2>2. CASE Make(c) \/ GetConnection(c) \/ GetSocket(c)
    BY <2>2 DEF Make, GetConnection, GetSocket, socketVars
  <2>3. CASE Connect(c)
    BY <1>4, <2>1, <2>3 DEF Connect, AddTask
  <2>4. CASE ConnectFails(c)
    BY <1>4, <2>1, <2>4 DEF ConnectFails, PutAway
  <2> QED
    BY <2>2, <2>3, <2>4 DEF Maker
<1>6. DataInv'
  BY <1>1, <1>2, <1>5, DataQueued
<1> QED
  BY <1>1, <1>2, <1>3, <1>6 DEF OwnerTypes, ThreadTypes

\* The calls of other threads keep the types and the data invariant.
LEMMA CallTypes ==
    ASSUME LifeInv, OwnerTypes, ThreadTypes, DataInv, NEW c \in Conns, Call(c)
    PROVE  OwnerTypes' /\ ThreadTypes' /\ DataInv'
<1>1. /\ UNCHANGED <<tokens, place, state, at, sockets, sendBuf, dropped, main, missed, alive>>
      /\ calls' = calls \/ (calls < MaxCalls /\ calls' = calls + 1)
  BY DEF Call, Write, TransmitFile, CallAsync, ProtocolError, Disconnect, throttleVars, buffers,
     mainVars, ownerVars, Called
<1>2. calls' \in 0 .. MaxCalls
  BY <1>1, SocketAssumption DEF OwnerTypes
<1>3. userConnections' \subseteq userConnections
  BY DEF Call, Write, TransmitFile, CallAsync, ProtocolError, Disconnect, ownerVars
<1>4. /\ disconnecting \subseteq disconnecting' /\ disconnecting' \subseteq Conns
      /\ writeBuf' \subseteq Conns
  BY DEF Call, Write, TransmitFile, CallAsync, ProtocolError, Disconnect, buffers, ThreadTypes
<1>5. tasks \in [Conns -> Seq(Tasks)]
  BY DEF LifeInv
<1>6. DataInv'
  <2>1. CASE Write(c)
    <3>1. /\ state[c] = "RUNNING" /\ writeBuf' = writeBuf \cup {c}
          /\ UNCHANGED disconnecting
          /\ \A d \in Conns \ {c} : tasks'[d] = tasks[d]
      BY <1>5, <2>1 DEF Write, InUse, AddTask
    <3>2. Sending(c)
      BY DEF DataInv
    <3>3. c \in disconnecting \/ "SEND_DATA" \in ToSet(tasks'[c])
      <4>1. CASE c \in writeBuf
        BY <2>1, <3>2, <4>1 DEF Write, Sending
      <4>2. CASE c \notin writeBuf
        <5>1. tasks'[c] = Append(tasks[c], "SEND_DATA") /\ "SEND_DATA" \in Tasks
          BY <1>5, <2>1, <4>2 DEF Write, AddTask, Tasks
        <5> QED
          BY <1>5, <5>1, TaskKept
      <4> QED
        BY <4>1, <4>2
    <3>4. Sending(c)'
      BY <1>1, <3>1, <3>2, <3>3 DEF Sending
    <3>5. Concerns(c)
      BY <1>1, <3>1 DEF Concerns
    <3> QED
      BY <3>4, <3>5, DataKept
  <2>2. CASE ~Write(c)
    <3>1. UNCHANGED writeBuf /\ \E t \in Tasks : tasks' = [tasks EXCEPT ![c] = Append(tasks[c], t)]
      <4>1. {"SEND_FILE", "ASYNC_CALL", "DISCONNECT"} \subseteq Tasks
        BY DEF Tasks
      <4> QED
        BY <2>2, <4>1 DEF Call, TransmitFile, CallAsync, ProtocolError, Disconnect, AddTask, buffers
    <3>2. /\ \A d \in Conns \ {c} : tasks'[d] = tasks[d]
          /\ \E t \in Tasks : tasks'[c] = Append(tasks[c], t)
      BY <1>5, <3>1
    <3> QED
      BY <1>1, <1>4, <3>1, <3>2, DataQueued
  <2> QED
    BY <2>1, <2>2
<1> QED
  BY <1>1, <1>2, <1>3, <1>4, <1>6 DEF OwnerTypes, ThreadTypes

\* A throttled transfer takes no more than is left.
LEMMA TokensLeft ==
    ASSUME tokens \in [Dirs -> 0 .. Limit], NEW c \in Conns,
           Limited(c) \/ TakeToken(c) \/ ReadFails(c) \/ NoToken(c) \/ WaitToken(c) \/ PassGate(c)
    PROVE  tokens' \in [Dirs -> 0 .. Limit]
<1>1. CASE TakeToken(c)
  <2>1. PICK n \in Slice(c) : tokens' = [tokens EXCEPT ![Dir(c)] = tokens[Dir(c)] - n]
    BY <1>1 DEF TakeToken
  <2>2. Dir(c) \in Dirs /\ n \in Nat /\ n <= tokens[Dir(c)] /\ tokens[Dir(c)] \in 0 .. Limit
    BY <2>1, ThrottleAssumption DEF Slice, Dir, Dirs
  <2>3. tokens[Dir(c)] - n \in 0 .. Limit
    BY <2>2, ThrottleAssumption
  <2> QED
    BY <2>1, <2>3
<1> QED
  BY <1>1 DEF Limited, ReadFails, NoToken, WaitToken, PassGate

\* The steps of a socket's thread in its own code.
LEMMA ThreadStepTypes ==
    ASSUME LifeInv, OwnerTypes, ThreadTypes, DataInv, NEW c \in Conns,
           \/ End(c) \/ Begin(c) \/ Connected(c) \/ SendData(c) \/ SendFile(c)
           \/ TaskDisconnect(c) \/ Ignore(c) \/ NoTask(c) \/ CheckSocket(c)
           \/ LeaveLoop(c) \/ Sent(c) \/ WouldBlock(c) \/ Fail(c)
    PROVE  OwnerTypes' /\ ThreadTypes' /\ DataInv'
<1>1. /\ UNCHANGED <<tokens, place, userConnections, alive, main, missed, calls>>
      /\ sockets' \subseteq sockets /\ dropped' \subseteq dropped \cup {c}
  BY DEF End, Begin, Connected, SendData, SendFile, TaskDisconnect, Ignore, NoTask, CheckSocket,
     LeaveLoop, Sent, WouldBlock, Fail, Elsewhere, throttleVars, ownerVars, mainVars
<1>2. at' = at \/ \E p \in Places : at' = [at EXCEPT ![c] = p]
  BY DEF End, Begin, Connected, SendData, SendFile, TaskDisconnect, Ignore, NoTask, CheckSocket,
     LeaveLoop, Sent, WouldBlock, Fail, Goto, Places
<1>3. state' = state \/ \E s \in States : state' = [state EXCEPT ![c] = s]
  BY DEF End, Begin, Connected, SendData, SendFile, TaskDisconnect, Ignore, NoTask, CheckSocket,
     LeaveLoop, Sent, WouldBlock, Fail, States
<1>4. /\ writeBuf' \subseteq writeBuf /\ sendBuf' \subseteq sendBuf \cup {c}
      /\ disconnecting' \subseteq disconnecting /\ disconnecting \subseteq disconnecting' \cup {c}
  BY DEF End, Begin, Connected, SendData, SendFile, TaskDisconnect, Ignore, NoTask, CheckSocket,
     LeaveLoop, Sent, WouldBlock, Fail, Forget, buffers
<1>5. OwnerTypes' /\ ThreadTypes'
  BY <1>1, <1>2, <1>3, <1>4 DEF OwnerTypes, ThreadTypes
<1>6. tasks \in [Conns -> Seq(Tasks)] /\ state \in [Conns -> States] /\ at \in [Conns -> Places]
  BY DEF LifeInv, ThreadTypes
<1>7. Concerns(c)
  <2>1. UNCHANGED tasks \/ \E q : tasks' = [tasks EXCEPT ![c] = q]
    BY DEF End, Begin, Connected, SendData, SendFile, TaskDisconnect, Ignore, NoTask, CheckSocket,
       LeaveLoop, Sent, WouldBlock, Fail, Take
  <2> QED
    BY <1>1, <1>2, <1>3, <1>4, <1>6, <2>1 DEF Concerns
<1>8. Sending(c) /\ place'[c] = "out"
  <2>1. place[c] = "out"
    BY DEF End, Begin, Connected, SendData, SendFile, TaskDisconnect, Ignore, NoTask, CheckSocket,
       LeaveLoop, Sent, WouldBlock, Fail, Take, NextTask, Thread
  <2> QED
    BY <1>1, <2>1 DEF DataInv
<1>9. Sending(c)'
  <2>1. CASE End(c) \/ TaskDisconnect(c) \/ Fail(c)
    <3>1. c \notin writeBuf' /\ c \notin sendBuf'
      BY <2>1 DEF End, TaskDisconnect, Fail, Forget
    <3> QED
      BY <1>8, <3>1 DEF Sending
  <2>2. CASE Begin(c)
    <3>1. UNCHANGED <<writeBuf, sendBuf>> /\ state[c] = "STARTING"
      BY <2>2 DEF Begin, buffers
    <3> QED
      BY <1>8, <3>1 DEF Sending
  <2>3. CASE Connected(c) \/ NoTask(c) \/ CheckSocket(c) \/ WouldBlock(c)
    <3>1. /\ UNCHANGED <<writeBuf, sendBuf, disconnecting, state, tasks>>
          /\ at[c] # "senddata"
      BY <2>3 DEF Connected, NoTask, CheckSocket, WouldBlock, Thread, buffers
    <3> QED
      BY <1>8, <3>1 DEF Sending
  <2>4. CASE LeaveLoop(c)
    <3>1. UNCHANGED <<writeBuf, sendBuf, disconnecting, state>> /\ c \in disconnecting
      BY <2>4 DEF LeaveLoop, buffers
    <3> QED
      BY <1>8, <3>1 DEF Sending
  <2>5. CASE Sent(c)
    <3>1. /\ UNCHANGED <<writeBuf, disconnecting, state, tasks>>
          /\ c \notin sendBuf' \/ (UNCHANGED sendBuf /\ at[c] # "senddata")
      BY <2>5 DEF Sent, Thread
    <3> QED
      BY <1>8, <3>1 DEF Sending
  <2>6. CASE SendData(c)
    <3>1. UNCHANGED <<disconnecting, state>> /\ state[c] = "RUNNING" /\ at[c] = "events"
      BY <2>6 DEF SendData, Take, NextTask, Thread
    <3>2. CASE c \in writeBuf
      <4>1. at'[c] = "senddata" /\ (c \in writeBuf' => c \in sendBuf)
        BY <1>6, <2>6, <3>2 DEF SendData, Goto
      <4> QED
        BY <1>8, <3>1, <4>1 DEF Sending
    <3>3. CASE c \notin writeBuf
      <4>1. UNCHANGED <<at, writeBuf, sendBuf>>
        BY <2>6, <3>3 DEF SendData, buffers
      <4> QED
        BY <1>8, <3>1, <3>3, <4>1 DEF Sending
    <3> QED
      BY <3>2, <3>3
  <2>7. ASSUME NEW t, Take(c, t), t \notin {"none", "SEND_DATA"}
        PROVE  "SEND_DATA" \in ToSet(tasks[c]) => "SEND_DATA" \in ToSet(tasks'[c])
    <3>1. tasks[c] # <<>> /\ tasks'[c] = Tail(tasks[c]) /\ Head(tasks[c]) # "SEND_DATA"
      BY <1>6, <2>7 DEF Take, NextTask
    <3>2. "SEND_DATA" \in Tasks /\ tasks[c] \in Seq(Tasks)
      BY <1>6 DEF Tasks
    <3> QED
      BY <3>1, <3>2, TaskKept
  <2>8. CASE SendFile(c)
    <3>1. /\ UNCHANGED <<writeBuf, sendBuf, disconnecting, state>> /\ at[c] = "events"
          /\ "SEND_DATA" \in ToSet(tasks[c]) => "SEND_DATA" \in ToSet(tasks'[c])
      BY <2>7, <2>8 DEF SendFile, Take, NextTask, Thread, buffers
    <3> QED
      BY <1>8, <3>1 DEF Sending
  <2>9. CASE Ignore(c)
    <3>1. UNCHANGED <<writeBuf, sendBuf, disconnecting, state, at>>
      BY <2>9 DEF Ignore, buffers
    <3>2. CASE state[c] = "RUNNING"
      <4>1. "SEND_DATA" \in ToSet(tasks[c]) => "SEND_DATA" \in ToSet(tasks'[c])
        BY <2>7, <2>9, <3>2 DEF Ignore
      <4> QED
        BY <1>8, <3>1, <4>1 DEF Sending
    <3>3. CASE state[c] # "RUNNING"
      BY <1>8, <3>1, <3>3 DEF Sending
    <3> QED
      BY <3>2, <3>3
  <2> QED
    BY <2>1, <2>2, <2>3, <2>4, <2>5, <2>6, <2>8, <2>9
<1>10. DataInv'
  BY <1>7, <1>9, DataKept
<1> QED
  BY <1>5, <1>10

\* The steps of a thread that transfers, or waits to, under the throttle.
LEMMA ThrottledTypes ==
    ASSUME GateInv, LifeInv, OwnerTypes, ThreadTypes, DataInv, NEW c \in Conns,
           \/ FailRead(c) \/ Transfer(c) \/ NoTransfer(c) \/ GoToGate(c) \/ Released(c)
           \/ Throttled(c)
    PROVE  OwnerTypes' /\ ThreadTypes' /\ DataInv'
<1>1. /\ UNCHANGED <<sockets, tasks, disconnecting, dropped, userConnections, alive, main,
                     missed, calls>>
      /\ \/ Limited(c) \/ TakeToken(c) \/ ReadFails(c) \/ NoToken(c) \/ WaitToken(c)
         \/ PassGate(c)
  BY DEF FailRead, Transfer, NoTransfer, GoToGate, Released, Throttled, Others, ownerVars,
     mainVars
<1>2. tokens' \in [Dirs -> 0 .. Limit]
  BY <1>1, TokensLeft DEF ThreadTypes
<1>3. at' = at \/ \E p \in Places : at' = [at EXCEPT ![c] = p]
  <2>1. Back(c) \in Places /\ at[c] \in Places /\ "failed" \in Places /\ "blocked" \in Places
    BY DEF Back, Places, ThreadTypes
  <2> QED
    BY <2>1 DEF FailRead, Transfer, NoTransfer, GoToGate, Released, Throttled, Goto
<1>4. \/ UNCHANGED <<state, writeBuf, sendBuf>>
      \/ state' = [state EXCEPT ![c] = "FAILED"] /\ Forget(c)
  BY DEF FailRead, Transfer, NoTransfer, GoToGate, Released, Throttled, Others, buffers
<1>5. OwnerTypes' /\ ThreadTypes'
  BY <1>1, <1>2, <1>3, <1>4 DEF OwnerTypes, ThreadTypes, States, Forget
<1>6. \E p \in {"out", "token", "wait", "gate"} : place' = [place EXCEPT ![c] = p]
  BY <1>1 DEF Limited, TakeToken, ReadFails, NoToken, WaitToken, PassGate
<1>7. Concerns(c)
  BY <1>1, <1>3, <1>4, <1>6 DEF Concerns, Forget, ThreadTypes, GateInv
<1>8. Sending(c)
  BY DEF DataInv
<1>9. place \in [Conns -> {"out", "token", "wait", "gate"}] /\ at \in [Conns -> Places]
  BY DEF GateInv, ThreadTypes
<1>10. Sending(c)'
  <2>1. CASE FailRead(c)
    <3>1. c \notin writeBuf' /\ c \notin sendBuf' /\ c \notin Uploads
      BY <2>1 DEF FailRead, Forget, ReadFails, Dir
    <3> QED
      BY <3>1 DEF Sending
  <2>2. CASE Transfer(c)
    <3>1. /\ UNCHANGED <<state, writeBuf, sendBuf, disconnecting, tasks>>
          /\ place[c] = "token" /\ place'[c] = "out"
      BY <1>9, <2>2 DEF Transfer, TakeToken, Others, buffers
    <3>2. at[c] = "senddata" => at'[c] = "senddata"
      BY <1>8, <1>9, <2>2, <3>1 DEF Transfer, Goto, Back, Sending
    <3> QED
      BY <1>8, <3>1, <3>2 DEF Sending
  <2>3. CASE NoTransfer(c)
    <3>1. /\ UNCHANGED <<state, writeBuf, sendBuf, disconnecting, tasks, at>>
          /\ place[c] = "token"
      BY <2>3 DEF NoTransfer, NoToken, Others, buffers
    <3> QED
      BY <1>8, <3>1 DEF Sending
  <2>4. CASE GoToGate(c)
    <3>1. /\ UNCHANGED <<state, writeBuf, sendBuf, disconnecting, tasks>> /\ place[c] = "wait"
          /\ at'[c] = at[c] \/ (at'[c] = Back(c) /\ place'[c] = "out")
      BY <1>9, <2>4 DEF GoToGate, WaitToken, Others, buffers, Goto
    <3> QED
      BY <1>8, <3>1 DEF Sending, Back
  <2>5. CASE Released(c)
    <3>1. /\ UNCHANGED <<state, writeBuf, sendBuf, disconnecting, tasks>> /\ place'[c] = "out"
          /\ at'[c] = Back(c)
      BY <1>9, <2>5 DEF Released, PassGate, Others, buffers, Goto
    <3> QED
      BY <1>8, <3>1 DEF Sending, Back
  <2>6. CASE Throttled(c)
    <3>1. /\ UNCHANGED <<state, writeBuf, sendBuf, disconnecting, tasks, at>>
          /\ c \in Uploads => at[c] = "sendfile"
      BY <2>6 DEF Throttled, Others, buffers, Thread
    <3> QED
      BY <1>8, <3>1 DEF Sending
  <2> QED
    BY <2>1, <2>2, <2>3, <2>4, <2>5, <2>6
<1> QED
  BY <1>5, <1>7, <1>10, DataKept

\* UserConnection::on(Failed).
LEMMA OnFailedTypes ==
    ASSUME LifeInv, OwnerTypes, ThreadTypes, DataInv, NEW c \in Conns, OnFailed(c)
    PROVE  OwnerTypes' /\ ThreadTypes' /\ DataInv'
<1>1. /\ UNCHANGED <<tokens, place, state, writeBuf, sendBuf, dropped, main, missed, calls, sockets>>
      /\ PutAway(c) /\ Goto(c, "events") /\ place[c] = "out" /\ at[c] = "failed"
  BY DEF OnFailed, throttleVars, mainVars, buffers, Thread
<1>2. OwnerTypes' /\ ThreadTypes'
  BY <1>1 DEF OwnerTypes, ThreadTypes, PutAway, Goto, Places
<1>3. tasks \in [Conns -> Seq(Tasks)] /\ at \in [Conns -> Places] /\ Sending(c)
  BY DEF LifeInv, ThreadTypes, DataInv
<1>4. Concerns(c)
  BY <1>1, <1>3 DEF Concerns, PutAway, Goto
<1>5. c \in disconnecting'
  BY <1>1 DEF PutAway
<1>6. Sending(c)'
  BY <1>1, <1>3, <1>5 DEF Sending
<1> QED
  BY <1>2, <1>4, <1>6, DataKept

\* The steps of the timer and of the shutdown.
LEMMA OtherStepTypes ==
    ASSUME LifeInv, OwnerTypes, ThreadTypes, DataInv, Tick \/ Main \/ UNCHANGED vars
    PROVE  OwnerTypes' /\ ThreadTypes' /\ DataInv'
<1>1. CASE Tick
  <2>1. /\ UNCHANGED <<sockets, state, at, place, tasks, writeBuf, sendBuf, disconnecting, dropped,
                       userConnections, alive, main, missed, calls>>
        /\ tokens' = tokens \/ tokens' = [d \in Dirs |-> Limit]
    BY <1>1 DEF Tick, Second, SecondStarts, Refill, Switch, socketVars, buffers, ownerVars, mainVars
  <2>2. tokens' \in [Dirs -> 0 .. Limit]
    BY <2>1, ThrottleAssumption DEF ThreadTypes
  <2> QED
    BY <2>1, <2>2 DEF OwnerTypes, ThreadTypes, DataInv, Sending
<1>2. CASE TimerEnds \/ ThrottleEnds \/ StopAccepting \/ DiedOut \/ WaitShutdown
  <2>1. /\ UNCHANGED <<sockets, state, at, place, tasks, writeBuf, sendBuf, disconnecting, dropped,
                       userConnections, alive, missed, calls, tokens>>
        /\ main' \in {"timer", "throttle", "closing", "died", "ended"}
    BY <1>2 DEF TimerEnds, ThrottleEnds, StopAccepting, DiedOut, WaitShutdown, NotSockets,
       StopTimer, Shutdown, socketVars, buffers, throttleVars
  <2> QED
    BY <2>1 DEF OwnerTypes, ThreadTypes, DataInv, Sending
<1>3. CASE DisconnectAll
  <2>1. /\ UNCHANGED <<sockets, state, at, place, writeBuf, sendBuf, dropped, userConnections,
                       alive, calls, tokens>>
        /\ main' = "waiting" /\ disconnecting' \subseteq disconnecting \cup userConnections
        /\ disconnecting \subseteq disconnecting' /\ missed' \subseteq Conns
        /\ \A d \in Conns : tasks'[d] = tasks[d] \/ tasks'[d] = Append(tasks[d], "DISCONNECT")
    BY <1>3 DEF DisconnectAll, ownerVars, throttleVars, buffers
  <2>2. OwnerTypes' /\ ThreadTypes'
    BY <2>1 DEF OwnerTypes, ThreadTypes, LifeInv
  <2>3. ASSUME NEW d \in Conns PROVE Sending(d)'
    <3>1. "SEND_DATA" \in ToSet(tasks[d]) => "SEND_DATA" \in ToSet(tasks'[d])
      <4>1. "SEND_DATA" \in Tasks /\ "DISCONNECT" \in Tasks /\ tasks[d] \in Seq(Tasks)
        BY DEF Tasks, LifeInv
      <4> QED
        BY <2>1, <4>1, TaskKept
    <3>2. Sending(d)
      BY DEF DataInv
    <3> QED
      BY <2>1, <3>1, <3>2 DEF Sending
  <2> QED
    BY <2>2, <2>3 DEF DataInv
<1>4. CASE UNCHANGED vars
  <2>1. UNCHANGED <<sockets, state, at, place, tasks, writeBuf, sendBuf, disconnecting, dropped,
                    userConnections, alive, main, missed, calls, tokens>>
    BY <1>4 DEF vars, socketVars, buffers, ownerVars, mainVars, throttleVars
  <2> QED
    BY <2>1 DEF OwnerTypes, ThreadTypes, DataInv, Sending
<1> QED
  BY <1>1, <1>2, <1>3, <1>4 DEF Main

SocketInv == GateInv /\ LifeInv /\ OwnerTypes /\ ThreadTypes /\ DataInv

\* The conjunction of all layers holds in every reachable state.
LEMMA SocketInvHolds == Spec => []SocketInv
<1>1. ASSUME Init PROVE SocketInv
  <2>1. GateInv
    BY <1>1 DEF Init, ThrottleInit, GateInv
  <2>2. LifeInv
    BY <1>1 DEF Init, LifeInv
  <2>3. OwnerTypes /\ DataInv
    BY <1>1, SocketAssumption DEF Init, ThrottleInit, OwnerTypes, DataInv, Sending
  <2>4. ThreadTypes
    BY <1>1, ThrottleAssumption DEF Init, ThrottleInit, ThreadTypes, States, Places
  <2> QED
    BY <2>1, <2>2, <2>3, <2>4 DEF SocketInv
<1>2. ASSUME SocketInv, [Next]_vars PROVE SocketInv'
  <2>1. GateInv' /\ LifeInv'
    BY <1>2, GateStep, LifeStep DEF SocketInv
  <2>2. OwnerTypes' /\ ThreadTypes' /\ DataInv'
    BY <1>2, MakerTypes, CallTypes, ThreadStepTypes, ThrottledTypes, OnFailedTypes, OtherStepTypes
       DEF SocketInv, Next, Runs
  <2> QED
    BY <2>1, <2>2 DEF SocketInv
<1> QED
  BY <1>1, <1>2, PTL DEF Spec

\* Every variable keeps its type; in particular a transfer never takes more
\* tokens than are left, and ConnectionManager lists only UserConnections that
\* are not deleted.
THEOREM SocketTypes == Spec => []TypeOK
<1>1. SocketInv => TypeOK
  BY DEF SocketInv, GateInv, LifeInv, OwnerTypes, ThreadTypes, TypeOK, ThrottleTypeOK, Tasks,
     States, Places
<1> QED
  BY <1>1, SocketInvHolds, PTL

\* For any number of connections, writes and calls: write, which queues a SEND_DATA
\* only when it finds writeBuf empty, and threadSendData, which swaps the buffers
\* and lets go of the lock while it sends, leave no data of a connected socket that
\* has not been told to leave in writeBuf without a SEND_DATA in the queue of its
\* thread, nor in sendBuf when the thread is not sending it.
THEOREM DataTheorem == Spec => []DataWillBeSent
<1>1. SocketInv => DataWillBeSent
  BY DEF SocketInv, OwnerTypes, DataInv, Sending, DataWillBeSent
<1> QED
  BY <1>1, SocketInvHolds, PTL
=============================================================================
