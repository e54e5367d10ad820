--------------------------- MODULE BufferedSocket ---------------------------
(***************************************************************************)
(* BufferedSocket (BufferedSocket.cpp), the thread behind each connection,   *)
(* with the UserConnection that owns it, ConnectionManager's list of them,   *)
(* the throttling of transfers (ThrottleManager) and the shutdown of the     *)
(* client (DCPlusPlus.cpp), which has to end every thread.                   *)
(*                                                                         *)
(* Other threads speak to a socket thread through its queue of tasks and     *)
(* through the flag `disconnecting', which the thread looks at in its long    *)
(* loops.  The peer is not modelled: it may send, read or close at any time  *)
(* and never has to.  The sockets of hubs and HTTP requests, which their      *)
(* owners may put away at any time, are left out.                            *)
(***************************************************************************)
EXTENDS ThrottleManager, Sequences, SequencesExt

CONSTANTS
    Incoming,    \* connections that the listening sockets accept
    Written,     \* BOUND: connections that write and callAsync are called for
    MaxCalls     \* BOUND: calls other than write, by other threads and by handlers

ASSUME SocketAssumption ==
    Incoming \subseteq Conns /\ Written \subseteq Conns /\ MaxCalls \in Nat

VARIABLES
    maker,          \* the thread that makes a connection: how far it is
    userConnections,\* ConnectionManager's list
    alive,          \* UserConnections not deleted
    sockets,        \* BufferedSockets not deleted
    state,          \* STARTING, RUNNING, FAILED
    at,             \* where each socket thread is
    tasks,          \* the queue of each thread
    writeBuf,       \* connections with something in writeBuf,
    sendBuf,        \* and in sendBuf
    disconnecting,  \* connections with the flag set
    main,           \* the shutdown: how far it is
    calls,          \* how much of MaxCalls is used up
    dropped,        \* history: sockets that threw away a DISCONNECT
    missed          \* history: connections disconnectAll came too early for

buffers == <<writeBuf, sendBuf>>
socketVars == <<sockets, state, at, tasks, buffers, disconnecting, dropped>>
ownerVars == <<maker, userConnections, alive>>
mainVars == <<main, missed>>
vars == <<throttleVars, socketVars, ownerVars, mainVars, calls>>

Init ==
    /\ ThrottleInit
    /\ maker = [c \in Conns |-> "none"]
    /\ userConnections = {} /\ alive = {} /\ sockets = {}
    /\ state = [c \in Conns |-> "STARTING"]
    /\ at = [c \in Conns |-> "events"]
    /\ tasks = [c \in Conns |-> <<>>]
    /\ writeBuf = {} /\ sendBuf = {} /\ disconnecting = {}
    /\ main = "running" /\ calls = 0 /\ dropped = {} /\ missed = {}

\* addTask.
AddTask(c, task) == tasks' = [tasks EXCEPT ![c] = Append(@, task)]

\* The thread of c is in its own code, at p.
Thread(c, p) == c \in sockets /\ place[c] = "out" /\ at[c] = p
Goto(c, p) == at' = [at EXCEPT ![c] = p]

-----------------------------------------------------------------------------
(* A connection is made                                                    *)

\* The listening threads end before anything else is shut down
\* (ConnectionManager::disconnect), the others look at shuttingDown.
MayMake(c) == main \in IF c \in Incoming THEN {"running", "timer", "throttle", "closing"}
                                         ELSE {"running", "timer", "throttle"}

\* accept, nmdcConnect and adcConnect begin.
Make(c) ==
    /\ maker[c] = "none" /\ MayMake(c)
    /\ maker' = [maker EXCEPT ![c] = "checked"]
    /\ UNCHANGED <<throttleVars, socketVars, userConnections, alive, mainVars, calls>>

\* ConnectionManager::getConnection.
GetConnection(c) ==
    /\ maker[c] = "checked"
    /\ maker' = [maker EXCEPT ![c] = "listed"]
    /\ userConnections' = userConnections \cup {c}
    /\ alive' = alive \cup {c}
    /\ UNCHANGED <<throttleVars, socketVars, mainVars, calls>>

\* BufferedSocket::getSocket: the constructor starts the thread.
GetSocket(c) ==
    /\ maker[c] = "listed"
    /\ maker' = [maker EXCEPT ![c] = "made"]
    /\ sockets' = sockets \cup {c}
    /\ UNCHANGED <<throttleVars, state, at, tasks, buffers, disconnecting, dropped,
                   userConnections, alive, mainVars, calls>>

\* BufferedSocket::connect and accept.
Connect(c) ==
    /\ maker[c] = "made"
    /\ maker' = [maker EXCEPT ![c] = "done"]
    /\ AddTask(c, IF c \in Incoming THEN "ACCEPTED" ELSE "CONNECT")
    /\ UNCHANGED <<throttleVars, sockets, state, at, buffers, disconnecting, dropped,
                   userConnections, alive, mainVars, calls>>

\* What putConnection and the destructor of UserConnection do to the socket: the
\* first, if the connection is still listed, asks it to disconnect, the second
\* (putSocket) ends it.
PutAway(c) ==
    /\ tasks' = [tasks EXCEPT ![c] =
          IF c \in userConnections THEN @ \o <<"DISCONNECT", "SHUTDOWN">>
                                   ELSE Append(@, "SHUTDOWN")]
    /\ disconnecting' = disconnecting \cup {c}
    /\ userConnections' = userConnections \ {c}
    /\ alive' = alive \ {c}

\* They throw: putConnection and delete.
ConnectFails(c) ==
    /\ maker[c] = "made"
    /\ maker' = [maker EXCEPT ![c] = "done"]
    /\ PutAway(c)
    /\ UNCHANGED <<throttleVars, sockets, state, at, buffers, dropped, mainVars, calls>>

Maker(c) == Make(c) \/ GetConnection(c) \/ GetSocket(c) \/ Connect(c) \/ ConnectFails(c)

-----------------------------------------------------------------------------
(* Calls of other threads, and of the handlers in the socket's own          *)

\* The connection has its socket, which has connected: before that nobody but the
\* thread that makes it and ConnectionManager knows of it.  (A socket that has
\* failed throws away whatever is queued; calls for it are left out.)
InUse(c) ==
    c \in alive /\ maker[c] = "done" /\ state[c] = "RUNNING" /\ at[c] # "connecting"

Called == calls < MaxCalls /\ calls' = calls + 1

\* BufferedSocket::write, as often as anybody likes.
Write(c) ==
    /\ c \in Written /\ InUse(c)
    /\ writeBuf' = writeBuf \cup {c}
    /\ IF c \in writeBuf THEN UNCHANGED tasks ELSE AddTask(c, "SEND_DATA")
    /\ UNCHANGED <<throttleVars, sockets, state, at, sendBuf, disconnecting, dropped,
                   ownerVars, mainVars, calls>>

\* transmitFile.
TransmitFile(c) ==
    /\ InUse(c) /\ Called
    /\ c \in Uploads /\ AddTask(c, "SEND_FILE")
    /\ UNCHANGED <<throttleVars, sockets, state, at, buffers, disconnecting, dropped,
                   ownerVars, mainVars>>

\* callAsync.
CallAsync(c) ==
    /\ c \in Written /\ InUse(c) /\ Called
    /\ AddTask(c, "ASYNC_CALL")
    /\ UNCHANGED <<throttleVars, sockets, state, at, buffers, disconnecting, dropped,
                   ownerVars, mainVars>>

\* disconnect: with `graceless' the thread leaves what it is doing.
Disconnect(c, graceless) ==
    /\ c \in alive /\ maker[c] \in {"made", "done"} /\ Called
    /\ AddTask(c, "DISCONNECT")
    /\ disconnecting' = IF graceless THEN disconnecting \cup {c} ELSE disconnecting
    /\ UNCHANGED <<throttleVars, sockets, state, at, buffers, dropped, ownerVars, mainVars>>

\* A protocol error, met by the thread while it reads: ConnectionManager::failed
\* with putConnection.
ProtocolError(c) ==
    /\ InUse(c) /\ Called /\ c \in userConnections
    /\ \E p \in {"socket", "senddata", "blocked"} : Thread(c, p)
    /\ AddTask(c, "DISCONNECT")
    /\ userConnections' = userConnections \ {c}
    /\ UNCHANGED <<throttleVars, sockets, state, at, buffers, disconnecting, dropped,
                   maker, alive, mainVars>>

Call(c) ==
    \/ Write(c) \/ TransmitFile(c) \/ CallAsync(c) \/ ProtocolError(c)
    \/ \E graceless \in BOOLEAN : Disconnect(c, graceless)

-----------------------------------------------------------------------------
(* The socket's thread                                                     *)

\* checkEvents: the next task, if the thread waits for one and there is one,
NextTask(c) == IF Thread(c, "events") /\ tasks[c] # <<>> THEN Head(tasks[c]) ELSE "none"

\* which it takes.
Take(c, task) ==
    /\ NextTask(c) = task
    /\ tasks' = [tasks EXCEPT ![c] = Tail(@)]

\* What the thread's own steps leave alone.
Elsewhere == UNCHANGED <<throttleVars, ownerVars, mainVars, calls>>

\* A socket that has ended, or failed, never looks at its buffers again: they are
\* forgotten.
Forget(c) == writeBuf' = writeBuf \ {c} /\ sendBuf' = sendBuf \ {c}

\* Mutant: a socket that has failed ends by itself.
EndFailed(c) ==
    /\ NextTask(c) \in {"SHUTDOWN", "DISCONNECT"}
    /\ sockets' = sockets \ {c}
    /\ Goto(c, "ended")
    /\ tasks' = [tasks EXCEPT ![c] = <<>>]
    /\ state' = [state EXCEPT ![c] = "FAILED"]
    /\ Forget(c)
    /\ disconnecting' = disconnecting \ {c} /\ dropped' = dropped \ {c}
    /\ Elsewhere

\* SHUTDOWN: run ends and deletes the socket.
End(c) ==
    /\ NextTask(c) = "SHUTDOWN"
    /\ sockets' = sockets \ {c}
    /\ Goto(c, "ended")
    /\ tasks' = [tasks EXCEPT ![c] = <<>>]
    /\ state' = [state EXCEPT ![c] = "FAILED"]
    /\ Forget(c)
    /\ disconnecting' = disconnecting \ {c} /\ dropped' = dropped \ {c}
    /\ Elsewhere

\* CONNECT and ACCEPTED: threadConnect and threadAccept begin.
Begin(c) ==
    /\ state[c] = "STARTING"
    /\ Take(c, "CONNECT") \/ Take(c, "ACCEPTED")
    /\ state' = [state EXCEPT ![c] = "RUNNING"]
    /\ Goto(c, "connecting")
    /\ UNCHANGED <<sockets, buffers, disconnecting, dropped>> /\ Elsewhere

\* They end: connected, or told to leave.  (Or they time out: Fail.)
Connected(c) ==
    /\ Thread(c, "connecting") /\ Goto(c, "events")
    /\ UNCHANGED <<sockets, state, tasks, buffers, disconnecting, dropped>> /\ Elsewhere

\* SEND_DATA: threadSendData swaps the two buffers and sends what was in writeBuf.
\* sendBuf is empty, unless an earlier call left its loop: then what that did not
\* send is in writeBuf again.
SendData(c) ==
    /\ state[c] = "RUNNING" /\ Take(c, "SEND_DATA")
    /\ IF c \in writeBuf
       THEN /\ writeBuf' = IF c \in sendBuf THEN writeBuf ELSE writeBuf \ {c}
            /\ sendBuf' = sendBuf \cup {c} /\ Goto(c, "senddata")
       ELSE UNCHANGED <<at, buffers>>
    /\ UNCHANGED <<sockets, state, disconnecting, dropped>> /\ Elsewhere

\* SEND_FILE: threadSendFile begins, after which the socket is looked at.
SendFile(c) ==
    /\ state[c] = "RUNNING" /\ Take(c, "SEND_FILE")
    /\ Goto(c, IF c \in disconnecting THEN "socket" ELSE "sendfile")
    /\ UNCHANGED <<sockets, state, buffers, disconnecting, dropped>> /\ Elsewhere

\* DISCONNECT.
TaskDisconnect(c) ==
    /\ state[c] = "RUNNING" /\ Take(c, "DISCONNECT")
    /\ state' = [state EXCEPT ![c] = "FAILED"]
    /\ Goto(c, "failed")
    /\ Forget(c) /\ UNCHANGED <<sockets, disconnecting, dropped>> /\ Elsewhere

\* Tasks without effect here: ASYNC_CALL, and what the state does not expect.
Ignore(c) ==
    /\ \/ Take(c, "ASYNC_CALL")
       \/ state[c] = "STARTING" /\ \E t \in {"DISCONNECT", "SEND_DATA", "SEND_FILE"} : Take(c, t)
       \/ state[c] = "FAILED" /\ \E t \in {"CONNECT", "ACCEPTED", "DISCONNECT",
                                            "SEND_DATA", "SEND_FILE"} : Take(c, t)
    /\ dropped' = IF state[c] = "STARTING" /\ Head(tasks[c]) = "DISCONNECT"
                  THEN dropped \cup {c} ELSE dropped
    /\ UNCHANGED <<sockets, state, at, buffers, disconnecting>> /\ Elsewhere

\* No task: the socket is looked at.
NoTask(c) ==
    /\ Thread(c, "events") /\ tasks[c] = <<>> /\ state[c] = "RUNNING"
    /\ Goto(c, "socket")
    /\ UNCHANGED <<sockets, state, tasks, buffers, disconnecting, dropped>> /\ Elsewhere

\* checkSocket: nothing to read, or something that is not throttled.
CheckSocket(c) ==
    /\ Thread(c, "socket") /\ Goto(c, "events")
    /\ UNCHANGED <<sockets, state, tasks, buffers, disconnecting, dropped>> /\ Elsewhere

\* Mutant: the loop that waits for a blocked socket does not look at the flag.
LeaveLoopUnlessBlocked(c) ==
    /\ c \in disconnecting
    /\ \/ Thread(c, "senddata") /\ Goto(c, "events")
       \/ Thread(c, "sendfile") /\ Goto(c, "socket")
    /\ UNCHANGED <<sockets, state, tasks, buffers, disconnecting, dropped>> /\ Elsewhere

\* threadSendFile and threadSendData leave their loops when disconnecting, the
\* latter with the rest of the data in sendBuf.
LeaveLoop(c) ==
    /\ c \in disconnecting
    /\ \/ Thread(c, "senddata") /\ Goto(c, "events")
       \/ (\E p \in {"sendfile", "blocked"} : Thread(c, p)) /\ Goto(c, "socket")
    /\ UNCHANGED <<sockets, state, tasks, buffers, disconnecting, dropped>> /\ Elsewhere

\* Mutant: the buffer that was sent is not cleared.
SentUncleared(c) ==
    /\ \/ Thread(c, "senddata") /\ Goto(c, "events")
       \/ Thread(c, "sendfile") /\ c \notin disconnecting /\ Goto(c, "socket")
    /\ UNCHANGED <<sockets, state, tasks, buffers, disconnecting, dropped>> /\ Elsewhere

\* The buffer or the file has been sent.  (A write that is not throttled
\* changes nothing here, unless it would block.)
Sent(c) ==
    /\ \/ Thread(c, "senddata") /\ Goto(c, "events") /\ sendBuf' = sendBuf \ {c}
       \/ /\ Thread(c, "sendfile") /\ c \notin disconnecting /\ Goto(c, "socket")
          /\ UNCHANGED sendBuf
    /\ UNCHANGED <<sockets, state, tasks, writeBuf, disconnecting, dropped>> /\ Elsewhere

\* A write would block, and the peer reads again.
WouldBlock(c) ==
    /\ \/ Thread(c, "sendfile") /\ c \notin disconnecting /\ Goto(c, "blocked")
       \/ Thread(c, "blocked") /\ Goto(c, "sendfile")
    /\ UNCHANGED <<sockets, state, tasks, buffers, disconnecting, dropped>> /\ Elsewhere

\* fail, after an exception in anything that touches the socket.
Fail(c) ==
    /\ \E p \in {"connecting", "senddata", "sendfile", "blocked", "socket"} : Thread(c, p)
    /\ state' = [state EXCEPT ![c] = "FAILED"]
    /\ Goto(c, "failed")
    /\ Forget(c) /\ UNCHANGED <<sockets, tasks, disconnecting, dropped>> /\ Elsewhere

\* The same, in a throttled read.
FailRead(c) ==
    /\ ReadFails(c)
    /\ state' = [state EXCEPT ![c] = "FAILED"]
    /\ Goto(c, "failed")
    /\ Forget(c)
    /\ UNCHANGED <<sockets, tasks, disconnecting, dropped, ownerVars, mainVars, calls>>

\* UserConnection::on(Failed): putConnection, then delete.
OnFailed(c) ==
    /\ Thread(c, "failed") /\ PutAway(c) /\ Goto(c, "events")
    /\ UNCHANGED <<throttleVars, sockets, state, buffers, dropped, maker, mainVars, calls>>

-----------------------------------------------------------------------------
(* Throttled transfers                                                     *)

Others == UNCHANGED <<sockets, state, tasks, buffers, disconnecting, dropped,
                      ownerVars, mainVars, calls>>

\* threadSendFile writes; threadRead reads, from either loop.
Throttled(c) ==
    /\ IF c \in Uploads THEN Thread(c, "sendfile") /\ c \notin disconnecting
                        ELSE \/ Thread(c, "socket")
                             \/ Thread(c, "senddata") /\ c \notin disconnecting
    /\ Limited(c) /\ UNCHANGED at /\ Others

\* Where the loops go on after a call of the throttle.
Back(c) == IF at[c] = "socket" THEN "events" ELSE at[c]

\* A transfer with a token; a write may still block.
Transfer(c) ==
    /\ TakeToken(c)
    /\ Goto(c, Back(c)) \/ (c \in Uploads /\ Goto(c, "blocked"))
    /\ Others

NoTransfer(c) == NoToken(c) /\ UNCHANGED at /\ Others
GoToGate(c) ==
    /\ WaitToken(c) /\ Others
    /\ Goto(c, IF activeWaiter = -1 THEN Back(c) ELSE at[c])
Released(c) == PassGate(c) /\ Goto(c, Back(c)) /\ Others

-----------------------------------------------------------------------------
(* The shutdown of the client                                              *)

NotSockets == UNCHANGED <<socketVars, maker, alive, calls>>

\* Mutant: the shutdown of ThrottleManager is left out.
TimerEndsOnly ==
    /\ main = "running" /\ main' = "throttle"
    /\ StopTimer /\ NotSockets /\ UNCHANGED <<userConnections, missed>>

\* The order of the managers' shutdowns.
TimerEnds ==
    /\ main = "running" /\ main' = "timer"
    /\ StopTimer /\ NotSockets /\ UNCHANGED <<userConnections, missed>>

ThrottleEnds ==
    /\ main = "timer" /\ main' = "throttle"
    /\ Shutdown /\ NotSockets /\ UNCHANGED <<userConnections, missed>>

\* ConnectionManager::shutdown: shuttingDown, the listening threads end,
StopAccepting ==
    /\ main = "throttle" /\ main' = "closing"
    /\ NotSockets /\ UNCHANGED <<throttleVars, userConnections, missed>>

\* disconnectAll,
DisconnectAll ==
    /\ main = "closing" /\ main' = "waiting"
    /\ \A c \in Incoming : maker[c] \in {"none", "done"}
    /\ LET reached == {c \in userConnections : maker[c] \in {"made", "done"}}
       IN  /\ disconnecting' = disconnecting \cup reached
           /\ tasks' = [c \in Conns |-> IF c \in reached THEN Append(tasks[c], "DISCONNECT")
                                                         ELSE tasks[c]]
    /\ missed' = {c \in Conns : maker[c] \in {"checked", "listed", "made"}}
    /\ UNCHANGED <<throttleVars, sockets, state, at, buffers, dropped, ownerVars, calls>>

\* and all connections have died out.
DiedOut ==
    /\ main = "waiting" /\ userConnections = {} /\ main' = "died"
    /\ NotSockets /\ UNCHANGED <<throttleVars, userConnections, missed>>

\* BufferedSocket::waitShutdown.
WaitShutdown ==
    /\ main = "died" /\ sockets = {} /\ main' = "ended"
    /\ NotSockets /\ UNCHANGED <<throttleVars, userConnections, missed>>

Main == TimerEnds \/ ThrottleEnds \/ StopAccepting \/ DisconnectAll \/ DiedOut \/ WaitShutdown

Tick == Second /\ UNCHANGED <<socketVars, ownerVars, mainVars, calls>>

-----------------------------------------------------------------------------
\* What a thread does without waiting for its peer or at the gate.
Runs(c) ==
    \/ End(c) \/ Begin(c) \/ Connected(c) \/ SendData(c) \/ SendFile(c)
    \/ TaskDisconnect(c) \/ Ignore(c) \/ NoTask(c) \/ CheckSocket(c) \/ LeaveLoop(c)
    \/ OnFailed(c) \/ Transfer(c) \/ NoTransfer(c) \/ GoToGate(c)

Next ==
    \/ \E c \in Conns : \/ Maker(c) \/ Call(c) \/ Runs(c) \/ Released(c)
                        \/ Sent(c) \/ WouldBlock(c) \/ Fail(c) \/ FailRead(c) \/ Throttled(c)
    \/ Tick \/ Main

Spec == Init /\ [][Next]_vars

\* Threads run, the timer ticks, the main thread, once it shuts down, goes on, and
\* a mutex that is let go again and again is obtained in the end (each time it is
\* free for a second).  Nothing is assumed of peers.
Fairness ==
    /\ \A c \in Conns : /\ WF_vars(Runs(c)) /\ SF_vars(Released(c))
                        /\ WF_vars(maker[c] # "none" /\ Maker(c))
    /\ WF_vars(Tick) /\ WF_vars(main # "running" /\ Main)

FairSpec == Spec /\ Fairness

-----------------------------------------------------------------------------
(* Properties                                                              *)

TypeOK ==
    /\ ThrottleTypeOK
    /\ maker \in [Conns -> {"none", "checked", "listed", "made", "done"}]
    /\ userConnections \subseteq alive /\ alive \subseteq Conns /\ sockets \subseteq Conns
    /\ state \in [Conns -> {"STARTING", "RUNNING", "FAILED"}]
    /\ at \in [Conns -> {"events", "connecting", "senddata", "sendfile", "blocked",
                         "socket", "failed", "ended"}]
    /\ tasks \in [Conns -> Seq({"CONNECT", "ACCEPTED", "SEND_DATA", "SEND_FILE",
                                "ASYNC_CALL", "DISCONNECT", "SHUTDOWN"})]
    /\ writeBuf \subseteq Conns /\ sendBuf \subseteq Conns /\ disconnecting \subseteq Conns
    /\ main \in {"running", "timer", "throttle", "closing", "waiting", "died", "ended"}
    /\ calls \in 0 .. MaxCalls /\ dropped \subseteq Conns /\ missed \subseteq Conns

\* A UserConnection that is not deleted has a socket that is not deleted: whatever
\* another thread calls through it (disconnect, callAsync, write) has a queue to
\* go to, although the socket's thread deletes the socket by itself.
SocketOutlivesOwner ==
    \A c \in alive : maker[c] \in {"made", "done"} => c \in sockets

\* How far each connection is in its life.
Phases == [c \in Conns |->
    IF maker[c] \in {"none", "checked"} THEN "absent"
    ELSE IF c \in alive THEN IF c \in sockets THEN "open" ELSE "owned"
                        ELSE IF c \in sockets THEN "leaving" ELSE "gone"]

Life == INSTANCE ConnectionLife WITH phase <- Phases

\* A connection goes through its life as ConnectionLife says: no call, failure,
\* protocol error or shutdown deletes a socket under its owner, lets an owner go
\* before the socket was made, or brings a connection back.
LivesInOrder == Life!Spec

\* What was written to a connected socket is on its way: in writeBuf with a
\* SEND_DATA queued, or in sendBuf with the thread sending it; whatever is written
\* while the thread sends, reads or waits.  Only a socket that has been told to
\* leave may keep data for which nothing is queued: when threadSendData leaves its
\* loop and runs again, the swap brings back what it had not sent.
DataWillBeSent ==
    \A c \in sockets \ disconnecting :
        state[c] = "RUNNING" => /\ c \in writeBuf => "SEND_DATA" \in ToSet(tasks[c])
                                /\ c \in sendBuf => at[c] = "senddata"

\* Whoever waits at the gate gets through, while the timer runs and when the
\* client is shut down.
GateOpens == \A c \in Conns : place[c] = "gate" ~> place[c] = "out"

\* A socket told to leave, by disconnect(true) or because its owner is deleted,
\* ends, whatever its thread was doing and whatever the peer does; unless the
\* DISCONNECT came before CONNECT and was thrown away.  (A deleted socket is in
\* neither set, and each connection has one socket in its life.)
ThreadEnds == (disconnecting # {}) ~> (disconnecting \subseteq dropped)

\* Wait until all connections have died out: they do, in every order of the
\* shutdown's steps, the timer's and the threads', unless one was being made just
\* when disconnectAll went over them.
AllDieOut == main # "running" ~> main \in {"died", "ended"} \/ missed # {}
=============================================================================
