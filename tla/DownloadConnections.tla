------------------------- MODULE DownloadConnections -------------------------
(***************************************************************************)
(* How a user gets from "something is queued from him" to a running        *)
(* download: the download half of ConnectionManager (one                   *)
(* ConnectionQueueItem per user, driven by the timer), the connections     *)
(* that come up, and DownloadManager's use of them (slots, idle list).     *)
(*                                                                         *)
(* The threads: the timer (Second, Minute), one socket thread for every    *)
(* connection, which runs its handlers one after the other, and whoever    *)
(* changes the queue.  Every action is one critical section; a connection  *)
(* between two sections of a handler has a phase of its own.               *)
(*                                                                         *)
(* Of the queue only the number of items UserQueue::getNext would offer is *)
(* kept, every item having one source.  We are in active mode              *)
(* (ClientManager::isActive()) and there is no MAX_DOWNLOAD_SPEED.         *)
(***************************************************************************)
EXTENDS Integers, FiniteSets

CONSTANTS
    Users,
    NmdcUsers,   \* those met on an NMDC hub, the others on an ADC one
    Lowest,      \* users whose items have priority LOWEST
    Highest,     \* users whose items have priority HIGHEST
    Conns,       \* UserConnection objects
    Slots,       \* SETTING(DOWNLOAD_SLOTS), 0: no limit
    MaxItems,    \* BOUND: items a user has on offer at once
    MaxAsked,    \* BOUND: connection requests a peer has not answered yet
    MaxEvents    \* BOUND: what happens from outside in a behaviour

ASSUME ConnsAssumption ==
    /\ NmdcUsers \subseteq Users
    /\ Lowest \subseteq Users /\ Highest \subseteq Users /\ Lowest \cap Highest = {}
    /\ Slots \in Nat /\ MaxItems \in Nat \ {0}
    /\ MaxAsked \in Nat \ {0} /\ MaxEvents \in Nat

VARIABLES
    online,     \* users some hub shows online
    wanted,     \* wanted[u]: items UserQueue::getNext(u) could return
    calls,      \* users getDownloadConnection is about to be called for
    cqi,        \* cqi[u]: the ConnectionQueueItem of u in ConnectionManager::downloads
    asked,      \* asked[u]: connection requests sent to u and not answered
    conn,       \* conn[c]: whose connection c is and what its thread is doing
    idlers,     \* DownloadManager::idlers
    revives,    \* connections with a revive() task in their socket's queue
    kicked,     \* connections whose socket was told to disconnect
    events      \* how much of MaxEvents is used up

vars == <<online, wanted, calls, cqi, asked, conn, idlers, revives, kicked, events>>

\* state as in ConnectionQueueItem::State; since: where lastAttempt lies ("zero"
\* is 0, "late" more than 50 seconds ago, "due" more than 60 * errors); barred:
\* errors is -1.
NoCQI  == [state |-> "none", since |-> "zero", barred |-> FALSE]
NewCQI == [state |-> "WAITING", since |-> "zero", barred |-> FALSE]

\* "connected": MyNick or INF is awaited; "handshake": FLAG_DOWNLOAD is set;
\* "new": DownloadManager::addConnection is about to run; "added": so is
\* checkDownloads; "asking": startDownload said yes;
\* "empty": getDownload returned nothing; "closing": disconnect() was called;
\* "failed": ConnectionManager has handled the failure, DownloadManager not yet.
Phases == {"free", "connected", "handshake", "new", "added", "asking", "empty",
           "idle", "transfer", "closing", "failed"}

\* FLAG_ASSOCIATED is set and ConnectionManager has not seen the connection fail.
AssociatedPhases ==
    {"new", "added", "asking", "empty", "idle", "transfer", "closing"}

Free == [phase |-> "free"]

Init ==
    /\ online = Users
    /\ wanted = [u \in Users |-> 1]
    /\ calls = {u \in Users : wanted[u] > 0}
    /\ cqi = [u \in Users |-> NoCQI]
    /\ asked = [u \in Users |-> 0]
    /\ conn = [c \in Conns |-> Free]
    /\ idlers = {} /\ revives = {} /\ kicked = {}
    /\ events = 0

-----------------------------------------------------------------------------
(* Helpers                                                                 *)

Event == events < MaxEvents /\ events' = events + 1

Phase(c, p) == conn[c].phase = p

Of(u, phases) == {c \in Conns : conn[c].phase \in phases /\ conn[c].user = u}

\* c's thread goes on to phase p.
Goes(c, p) == [conn EXCEPT ![c] = [phase |-> p, user |-> conn[c].user,
                                   download |-> conn[c].download]]

Since(u, when) == [state |-> cqi[u].state, since |-> when, barred |-> cqi[u].barred]

Holding(u) == {c \in Of(u, Phases \ {"free"}) : conn[c].download}

\* DownloadManager::downloads.
Downloads == UNION {Holding(u) : u \in Users}

\* DownloadManager::startDownload(QueueManager::hasDownload(u)): the priority is
\* that of the item on offer, PAUSED if there is none.
StartDownload(u) ==
    LET count == Cardinality(Downloads)
    IN  IF Slots # 0 /\ count >= Slots
        THEN wanted[u] > 0 /\ u \in Highest /\ count < Slots + 3
        ELSE count > 0 /\ wanted[u] > 0 => u \notin Lowest

\* DownloadManager::checkIdle: a task for the first idle connection of u.
CheckIdle(u) ==
    LET mine == {c \in idlers : conn[c].user = u}
    IN  IF mine = {} THEN revives' = revives
        ELSE \E c \in mine : revives' = revives \cup {c}

\* ConnectionManager::getDownloadConnection.
GetDownloadConnection(u) ==
    IF cqi[u].state = "none"
    THEN cqi' = [cqi EXCEPT ![u] = NewCQI] /\ UNCHANGED revives
    ELSE CheckIdle(u) /\ UNCHANGED cqi

-----------------------------------------------------------------------------
(* The queue and the user.                                                 *)

\* QueueManager::add and addSource: the item is there, the call follows after
\* the lock is released, unless a download from u is running (getRunning).
Add(u) ==
    /\ wanted[u] + Cardinality(Holding(u)) < MaxItems /\ Event
    /\ wanted' = [wanted EXCEPT ![u] = @ + 1]
    /\ calls' = IF u \in online /\ Holding(u) = {} THEN calls \cup {u} ELSE calls
    /\ UNCHANGED <<online, cqi, asked, conn, idlers, revives, kicked>>

Request(u) ==
    /\ u \in calls
    /\ calls' = calls \ {u}
    /\ GetDownloadConnection(u)
    /\ UNCHANGED <<online, wanted, asked, conn, idlers, kicked, events>>

GoOffline(u) ==
    /\ u \in online /\ Event
    /\ online' = online \ {u}
    /\ UNCHANGED <<wanted, calls, cqi, asked, conn, idlers, revives, kicked>>

\* QueueManager::on(UserConnected).
ComeOnline(u) ==
    /\ u \notin online
    /\ online' = online \cup {u}
    /\ calls' = IF wanted[u] > 0 \/ Holding(u) # {} THEN calls \cup {u} ELSE calls
    /\ UNCHANGED <<wanted, cqi, asked, conn, idlers, revives, kicked, events>>

\* ConnectionManager::force.
ForceAttempt(u) ==
    /\ cqi[u].state # "none" /\ Event
    /\ cqi' = [cqi EXCEPT ![u] = Since(u, "zero")]
    /\ UNCHANGED <<online, wanted, calls, asked, conn, idlers, revives, kicked>>

-----------------------------------------------------------------------------
(* The timer.                                                              *)

\* The CQI is looked at for a new attempt in this tick.  `skipped' are those
\* that come after an attempt in the vector (attemptDone).
Served(u, skipped) ==
    /\ cqi[u].state \notin {"none", "ACTIVE"}
    /\ u \in online
    /\ cqi[u].since = "zero" \/ (cqi[u].since = "due" /\ ~cqi[u].barred /\ u \notin skipped)

Connects(u, skipped) ==
    Served(u, skipped) /\ wanted[u] > 0 /\ cqi[u].state = "WAITING" /\ StartDownload(u)

\* One turn of the loop of on(Second): what becomes of the CQI of u.
Ticked(u, skipped) ==
    LET q == cqi[u]
    IN  CASE q.state \in {"none", "ACTIVE"}   -> q
          [] q.state \notin {"none", "ACTIVE"} /\ u \notin online -> NoCQI
          [] Served(u, skipped) ->
                IF wanted[u] = 0 THEN NoCQI
                ELSE [state  |-> CASE q.state = "WAITING" ->
                                        IF StartDownload(u) THEN "CONNECTING"
                                        ELSE "NO_DOWNLOAD_SLOTS"
                                   [] q.state = "NO_DOWNLOAD_SLOTS" ->
                                        IF StartDownload(u) THEN "WAITING" ELSE q.state
                                   [] OTHER -> q.state,
                      since  |-> "recent",
                      barred |-> q.barred]
          [] OTHER ->
                IF q.state = "CONNECTING" /\ ~q.barred /\ q.since \in {"late", "due"}
                THEN [state |-> "WAITING", since |-> q.since, barred |-> FALSE]
                ELSE q

\* ConnectionManager::on(Second).
Second ==
    \E skipped \in SUBSET {u \in Users : cqi[u].since = "due"} :
        LET first == {u \in Users : Connects(u, skipped)}
        IN  /\ skipped # {} => first # {}
            /\ Cardinality({u \in first : cqi[u].since = "due"}) <= 1
            /\ cqi' = [u \in Users |-> Ticked(u, skipped)]
            /\ asked' = [u \in Users |-> IF u \in first /\ asked[u] < MaxAsked
                                         THEN asked[u] + 1 ELSE asked[u]]
            /\ UNCHANGED <<online, wanted, calls, conn, idlers, revives, kicked, events>>

\* Time passes, but the timer ticks every second: it ends the attempt of a
\* CONNECTING item in the ten seconds between "late" and "due".
Age(u) ==
    /\ cqi[u].state \notin {"none", "ACTIVE"} /\ cqi[u].since \in {"recent", "late"}
    /\ cqi[u].since = "late" => cqi[u].state # "CONNECTING" \/ cqi[u].barred
    /\ cqi' = [cqi EXCEPT ![u] =
                  Since(u, IF cqi[u].since = "recent" THEN "late" ELSE "due")]
    /\ UNCHANGED <<online, wanted, calls, asked, conn, idlers, revives, kicked, events>>

\* Mutant: idle connections are left alone.
MinuteSparesIdle(c) ==
    /\ conn[c].phase \in {"connected", "handshake"} /\ c \notin kicked
    /\ kicked' = kicked \cup {c}
    /\ UNCHANGED <<online, wanted, calls, cqi, asked, conn, idlers, revives, events>>

\* ConnectionManager::on(Minute) for an idle connection: three minutes without
\* activity.  (One that stalls otherwise is a LoseHandshake or a Failed.)
Minute(c) ==
    /\ Phase(c, "idle") /\ c \notin kicked
    /\ kicked' = kicked \cup {c}
    /\ UNCHANGED <<online, wanted, calls, cqi, asked, conn, idlers, revives, events>>

-----------------------------------------------------------------------------
(* A connection comes up.                                                  *)

Accept(u, c) ==
    /\ Phase(c, "free")
    /\ conn' = [conn EXCEPT ![c] = [phase |-> "connected", user |-> u, download |-> FALSE]]
    /\ UNCHANGED <<online, wanted, calls, cqi, idlers, revives, kicked>>

\* The peer answers our request, by connecting or by having us connect.
Answer(u, c) ==
    /\ asked[u] > 0 /\ u \in online
    /\ asked' = [asked EXCEPT ![u] = @ - 1]
    /\ Accept(u, c) /\ UNCHANGED events

\* The request or its answer is lost.
NoAnswer(u) ==
    /\ asked[u] > 0 /\ Event
    /\ asked' = [asked EXCEPT ![u] = @ - 1]
    /\ UNCHANGED <<online, wanted, calls, cqi, conn, idlers, revives, kicked>>

\* An NMDC peer that wants something from us connects; we cannot tell.
PeerConnects(u, c) ==
    /\ u \in NmdcUsers \cap online /\ Event
    /\ Accept(u, c) /\ UNCHANGED asked

\* The connection is given up (putConnection) or turned into an upload.
Discard(c) == conn' = [conn EXCEPT ![c] = Free]

\* on(MyNick) forgets the errors of every CQI it passes in the vector until it
\* finds the user's pending one; without one the connection is an upload.
MyNick(c) ==
    LET u == conn[c].user
    IN  /\ Phase(c, "connected") /\ u \in NmdcUsers
        /\ \E passed \in SUBSET Users :
              /\ IF cqi[u].state \in {"CONNECTING", "WAITING"}
                 THEN u \in passed /\ conn' = Goes(c, "handshake")
                 ELSE passed = Users /\ Discard(c)
              /\ cqi' = [v \in Users |->
                          [state |-> cqi[v].state, since |-> cqi[v].since,
                           barred |-> cqi[v].barred /\ v \notin passed]]
        /\ UNCHANGED <<online, wanted, calls, asked, idlers, revives, kicked, events>>

\* Mutant: any CQI will do.
AcceptingAny == {"WAITING", "CONNECTING", "NO_DOWNLOAD_SLOTS", "ACTIVE"}

\* The states in which a CQI takes a connection.
Accepting == {"WAITING", "CONNECTING"}

\* on(Key), or on(INF) of an ADC connection, with addDownloadConnection.  When
\* we made the connection ourselves (checkDownload) the errors are forgotten.
AddDownloadConnection(c) ==
    LET u == conn[c].user
    IN  /\ Phase(c, "handshake") \/ (Phase(c, "connected") /\ u \notin NmdcUsers)
        /\ IF cqi[u].state \in Accepting
           THEN /\ \E ours \in BOOLEAN :
                      cqi' = [cqi EXCEPT ![u] =
                                 [state |-> "ACTIVE", since |-> cqi[u].since,
                                  barred |-> cqi[u].barred /\ ~(ours /\ u \notin NmdcUsers)]]
                /\ conn' = Goes(c, "new")
           ELSE Discard(c) /\ UNCHANGED cqi
        /\ UNCHANGED <<online, wanted, calls, asked, idlers, revives, kicked, events>>

\* Both sides want to download and the peer's number is higher (on(Direction)),
\* or the connection breaks before it belongs to a CQI.
LoseHandshake(c) ==
    /\ conn[c].phase \in {"connected", "handshake"}
    /\ Event
    /\ Discard(c)
    /\ UNCHANGED <<online, wanted, calls, cqi, asked, idlers, revives, kicked>>

\* A peer we do not download from, whose items lose him as a source: on(INF) of
\* one that is not encrypted or not trusted, DownloadManager::addConnection of
\* one that is too old.
Refuse(c) ==
    LET u == conn[c].user
    IN  /\ Event
        /\ \/ Phase(c, "connected") /\ u \notin NmdcUsers /\ Discard(c)
           \/ Phase(c, "new") /\ conn' = Goes(c, "closing")
        /\ wanted' = [wanted EXCEPT ![u] = 0]
        /\ UNCHANGED <<online, calls, cqi, asked, idlers, revives, kicked>>

-----------------------------------------------------------------------------
(* DownloadManager on a connection's thread.                               *)

\* addConnection, and checkDownloads up to startDownload; removeConnection if it
\* says no.
CheckDownloads(c) ==
    /\ conn[c].phase \in {"new", "added"}
    /\ conn' = Goes(c, IF StartDownload(conn[c].user) THEN "asking" ELSE "closing")
    /\ UNCHANGED <<online, wanted, calls, cqi, asked, idlers, revives, kicked, events>>

\* Mutant: the item stays on offer.
GetDownloadKeepsOffer(c) ==
    LET u == conn[c].user
    IN  /\ Phase(c, "asking")
        /\ conn' = IF wanted[u] > 0
                   THEN [conn EXCEPT ![c] = [phase |-> "transfer", user |-> u,
                                             download |-> TRUE]]
                   ELSE Goes(c, "empty")
        /\ UNCHANGED <<online, wanted, calls, cqi, asked, idlers, revives, kicked, events>>

\* QueueManager::getDownload.
GetDownload(c) ==
    LET u == conn[c].user
    IN  /\ Phase(c, "asking")
        /\ IF wanted[u] > 0
           THEN /\ conn' = [conn EXCEPT ![c] = [phase |-> "transfer", user |-> u,
                                                download |-> TRUE]]
                /\ wanted' = [wanted EXCEPT ![u] = @ - 1]
           ELSE conn' = Goes(c, "empty") /\ UNCHANGED wanted
        /\ UNCHANGED <<online, calls, cqi, asked, idlers, revives, kicked, events>>

\* ... and, in a critical section of its own, into the idle list.
BecomeIdle(c) ==
    /\ Phase(c, "empty")
    /\ conn' = Goes(c, "idle")
    /\ idlers' = idlers \cup {c}
    /\ UNCHANGED <<online, wanted, calls, cqi, asked, revives, kicked, events>>

\* revive, when the socket thread comes to the task.
Revive(c) ==
    /\ c \in revives /\ conn[c].phase \in {"idle", "transfer", "closing"}
    /\ revives' = revives \ {c}
    /\ idlers' = idlers \ {c}
    /\ conn' = IF c \in idlers THEN Goes(c, "added") ELSE conn
    /\ UNCHANGED <<online, wanted, calls, cqi, asked, kicked, events>>

\* endData, fileNotAvailable or a wrong tree: the item (or its source) is done
\* with or, after a tree or a segment, back on offer, and the connection asks
\* for the next one.
EndDownload(c) ==
    LET u == conn[c].user
    IN  /\ Phase(c, "transfer")
        /\ \/ UNCHANGED <<wanted, events>>
           \/ Event /\ wanted' = [wanted EXCEPT ![u] = @ + 1]
        /\ conn' = [conn EXCEPT ![c] = [phase |-> "added", user |-> u, download |-> FALSE]]
        /\ UNCHANGED <<online, calls, cqi, asked, idlers, revives, kicked>>

\* Mutant: nobody is called for the item that is put back.
PutBackQuietly(u) == UNCHANGED <<cqi, revives>>

\* putDownload(d, false): the item's online users are called for.
PutBack(u) ==
    IF u \in online THEN GetDownloadConnection(u) ELSE UNCHANGED <<cqi, revives>>

\* failDownload (no slots, wrong data, a full disk): the item is put back, its
\* online sources are called, the connection is told to disconnect.
FailDownload(c) ==
    LET u == conn[c].user
    IN  /\ Phase(c, "transfer") /\ Event
        /\ wanted' = [wanted EXCEPT ![u] = @ + 1]
        /\ PutBack(u)
        /\ conn' = [conn EXCEPT ![c] = [phase |-> "closing", user |-> u, download |-> FALSE]]
        /\ UNCHANGED <<online, calls, asked, idlers, kicked>>

\* The socket of a connection in use breaks, is disconnected or gets what it
\* does not understand: ConnectionManager::failed comes first, ...
Failed(c) ==
    LET u    == conn[c].user
        told == c \in kicked \/ Phase(c, "closing")
    IN  /\ conn[c].phase \in {"idle", "transfer", "closing"}
        /\ IF told THEN UNCHANGED events ELSE Event
        /\ \E protocolError \in BOOLEAN :
              /\ told => ~protocolError
              /\ cqi' = [cqi EXCEPT ![u] = [state |-> "WAITING", since |-> "recent",
                                            barred |-> protocolError]]
        /\ conn' = IF Phase(c, "closing") THEN [conn EXCEPT ![c] = Free]
                   ELSE Goes(c, "failed")
        /\ kicked' = kicked \ {c}
        /\ revives' = revives \ {c}
        /\ UNCHANGED <<online, wanted, calls, asked, idlers>>

\* ... DownloadManager::onFailed second.
OnFailed(c) ==
    LET u == conn[c].user
    IN  /\ Phase(c, "failed")
        /\ idlers' = idlers \ {c}
        /\ conn' = [conn EXCEPT ![c] = Free]
        /\ IF conn[c].download
           THEN wanted' = [wanted EXCEPT ![u] = @ + 1] /\ PutBack(u)
           ELSE revives' = revives \ {c} /\ UNCHANGED <<wanted, cqi>>
        /\ UNCHANGED <<online, calls, asked, kicked, events>>

-----------------------------------------------------------------------------
\* The socket thread of c.
Thread(c) ==
    \/ MyNick(c) \/ AddDownloadConnection(c) \/ CheckDownloads(c) \/ GetDownload(c)
    \/ BecomeIdle(c) \/ Revive(c) \/ EndDownload(c) \/ OnFailed(c)
    \/ (c \in kicked \/ Phase(c, "closing")) /\ Failed(c)

Next ==
    \/ \E u \in Users :
          \/ Add(u) \/ Request(u) \/ GoOffline(u) \/ ComeOnline(u) \/ ForceAttempt(u) \/ Age(u)
          \/ NoAnswer(u)
          \/ \E c \in Conns : Answer(u, c) \/ PeerConnects(u, c)
    \/ \E c \in Conns :
          \/ Minute(c) \/ MyNick(c) \/ AddDownloadConnection(c) \/ LoseHandshake(c) \/ Refuse(c)
          \/ CheckDownloads(c) \/ GetDownload(c) \/ BecomeIdle(c) \/ Revive(c)
          \/ EndDownload(c) \/ FailDownload(c) \/ Failed(c) \/ OnFailed(c)
    \/ Second

Spec == Init /\ [][Next]_vars

\* The timer ticks, time passes, threads run, transfers end, and a peer that is
\* asked often enough answers.
Fairness ==
    /\ WF_vars(Second)
    /\ \A u \in Users :
          /\ WF_vars(Request(u)) /\ WF_vars(Age(u))
          /\ WF_vars(\E c \in Conns : Answer(u, c))
    /\ \A c \in Conns : WF_vars(Thread(c)) /\ WF_vars(Minute(c))

FairSpec == Spec /\ Fairness

-----------------------------------------------------------------------------
(* Properties                                                              *)

CQIs == [state  : {"none", "WAITING", "CONNECTING", "NO_DOWNLOAD_SLOTS", "ACTIVE"},
         since  : {"zero", "recent", "late", "due"},
         barred : BOOLEAN]

TypeOK ==
    /\ online \subseteq Users /\ calls \subseteq Users
    /\ wanted \in [Users -> 0 .. MaxItems]
    /\ cqi \in [Users -> CQIs]
    /\ asked \in [Users -> 0 .. MaxAsked]
    /\ conn \in [Conns -> {Free} \cup [phase : Phases \ {"free"}, user : Users,
                                      download : BOOLEAN]]
    /\ idlers \subseteq Conns /\ revives \subseteq Conns /\ kicked \subseteq Conns
    /\ events \in 0 .. MaxEvents

\* A CQI is ACTIVE exactly while one connection belongs to it: failed() finds
\* the CQI it asserts, no user has two download connections at work, and no CQI
\* stays ACTIVE (and is never retried) without a connection.
ActiveIsAssociated ==
    \A u \in Users :
        IF cqi[u].state = "ACTIVE" THEN \E c \in Conns : Of(u, AssociatedPhases) = {c}
        ELSE Of(u, AssociatedPhases) = {}

\* Something on offer from an online user is never forgotten: the user has a CQI,
\* a call for one is on its way, or a download is still to be put back, which
\* calls for him (getDownloadConnection against the removal of CQIs in
\* on(Second) and addSource's trust in a running download).
WantedIsPursued ==
    \A u \in online :
        wanted[u] > 0 => cqi[u].state # "none" \/ u \in calls \/ Holding(u) # {}

\* An online user with something on offer is downloaded from, in spite of lost
\* requests, broken connections, taken slots and the idle list missing a call,
\* unless a protocol error bars him.
WantedIsServed ==
    \A u \in Users : ~<>[](u \in online /\ wanted[u] > 0 /\ ~cqi[u].barred)
=============================================================================
