---------------------- MODULE DownloadConnectionsProof ----------------------
(***************************************************************************)
(* Proofs about DownloadConnections, for any users, connections, slots and *)
(* bounds: a ConnectionQueueItem is ACTIVE exactly while one connection    *)
(* belongs to it, nothing an online user has on offer is forgotten, and    *)
(* the state stays in its types.                                           *)
(*                                                                         *)
(* The first is inductive once it is said pointwise (IInv).  The second    *)
(* rests on it (Sight): an item comes back on offer from a connection at   *)
(* work (EndDownload) without a call of getDownloadConnection, and is      *)
(* pursued only because that connection's user then has an ACTIVE item,    *)
(* which on(Second) leaves alone.  The third has to count (BoundInv): what *)
(* a user has on offer and what his connections hold stay together below   *)
(* the bound, because a transfer always holds what it puts back.           *)
(***************************************************************************)
EXTENDS DownloadConnections, FiniteSetTheorems, TLAPS

ConnStates == {Free} \cup [phase : Phases \ {"free"}, user : Users, download : BOOLEAN]

\* As much of TypeOK as the argument needs; the bounds are no part of it.
Typed ==
    /\ conn \in [Conns -> ConnStates]
    /\ cqi \in [Users -> CQIs]
    /\ wanted \in [Users -> Nat]
    /\ online \subseteq Users

Associated(c) == conn[c].phase \in AssociatedPhases

Active(u) == cqi[u].state = "ACTIVE"

\* An associated connection has an ACTIVE item,
HasItem == \A c \in Conns : Associated(c) => Active(conn[c].user)

\* an ACTIVE item has an associated connection,
HasConnection ==
    \A u \in Users : Active(u) => \E c \in Conns : Associated(c) /\ conn[c].user = u

\* and only one.
OnlyOne ==
    \A c, d \in Conns :
        Associated(c) /\ Associated(d) /\ conn[c].user = conn[d].user => c = d

IInv == Typed /\ HasItem /\ HasConnection /\ OnlyOne

-----------------------------------------------------------------------------
\* A connection that is not free has a user.
LEMMA UserOf ==
    ASSUME Typed, NEW c \in Conns, conn[c].phase # "free"
    PROVE  /\ conn[c].user \in Users /\ conn[c].download \in BOOLEAN
           /\ conn[c].phase \in Phases \ {"free"}
BY DEF Typed, ConnStates, Free, Phases

\* What c's thread goes on to is a connection state.
LEMMA NextState ==
    ASSUME Typed, NEW c \in Conns, conn[c].phase # "free",
           NEW p \in Phases \ {"free"}, NEW b \in BOOLEAN
    PROVE  /\ [phase |-> p, user |-> conn[c].user, download |-> conn[c].download] \in ConnStates
           /\ [phase |-> p, user |-> conn[c].user, download |-> b] \in ConnStates
<1>1. conn[c].user \in Users /\ conn[c].download \in BOOLEAN
  BY UserOf
<1> QED  BY <1>1 DEF ConnStates

\* A step that neither associates nor parts a connection and leaves the ACTIVE
\* items ACTIVE preserves the correspondence.
LEMMA Steady ==
    ASSUME HasItem, HasConnection, OnlyOne, Typed,
           \A c \in Conns : Associated(c)' <=> Associated(c),
           \A c \in Conns : Associated(c) => conn'[c].user = conn[c].user,
           \A u \in Users : Active(u)' <=> Active(u)
    PROVE  HasItem' /\ HasConnection' /\ OnlyOne'
<1> USE DEF HasItem, HasConnection, OnlyOne
<1>0. \A c \in Conns : Associated(c) => conn[c].user \in Users
  BY UserOf DEF Associated, AssociatedPhases
<1>1. HasItem'
  <2> SUFFICES ASSUME NEW c \in Conns, Associated(c)' PROVE Active(conn[c].user)'
    OBVIOUS
  <2>1. Associated(c) /\ conn'[c].user = conn[c].user /\ conn[c].user \in Users
    BY <1>0
  <2>2. Active(conn[c].user)
    BY <2>1
  <2> QED  BY <2>1, <2>2 DEF Active
<1>2. HasConnection'
  <2> SUFFICES ASSUME NEW u \in Users, Active(u)'
               PROVE  \E c \in Conns : Associated(c)' /\ conn'[c].user = u
    OBVIOUS
  <2>1. PICK c \in Conns : Associated(c) /\ conn[c].user = u
    OBVIOUS
  <2> QED  BY <2>1
<1>3. OnlyOne'
  <2> SUFFICES ASSUME NEW c \in Conns, NEW d \in Conns, Associated(c)', Associated(d)',
                      conn'[c].user = conn'[d].user
               PROVE  c = d
    OBVIOUS
  <2> QED  OBVIOUS
<1> QED  BY <1>1, <1>2, <1>3

\* getDownloadConnection gives its user an item and takes nobody's.
LEMMA Called ==
    ASSUME Typed, NEW u \in Users, GetDownloadConnection(u)
    PROVE  /\ cqi' \in [Users -> CQIs]
           /\ \A v \in Users : Active(v)' <=> Active(v)
           /\ \A v \in Users : cqi[v].state # "none" => cqi'[v].state # "none"
           /\ cqi'[u].state # "none"
<1>1. CASE cqi[u].state = "none"
  <2>1. NewCQI \in CQIs /\ cqi' = [cqi EXCEPT ![u] = NewCQI]
    BY <1>1 DEF GetDownloadConnection, NewCQI, CQIs
  <2> QED  BY <1>1, <2>1 DEF Typed, Active, NewCQI
<1>2. CASE cqi[u].state # "none"
  <2>1. cqi' = cqi
    BY <1>2 DEF GetDownloadConnection
  <2> QED  BY <1>2, <2>1 DEF Typed, Active
<1> QED  BY <1>1, <1>2

\* putDownload(d, false) does so for a user who is online.
LEMMA PutBackCalls ==
    ASSUME Typed, NEW u \in Users, PutBack(u)
    PROVE  /\ cqi' \in [Users -> CQIs]
           /\ \A v \in Users : Active(v)' <=> Active(v)
           /\ \A v \in Users : cqi[v].state # "none" => cqi'[v].state # "none"
           /\ u \in online => cqi'[u].state # "none"
<1>1. CASE u \in online
  BY <1>1, Called DEF PutBack
<1>2. CASE u \notin online
  BY <1>2 DEF PutBack, Typed, Active
<1> QED  BY <1>1, <1>2

\* A step that only moves c from one phase to another on the same side.
LEMMA MovesOn ==
    ASSUME HasItem, HasConnection, OnlyOne, Typed, NEW c \in Conns, NEW s \in ConnStates,
           conn' = [conn EXCEPT ![c] = s],
           s.phase \in AssociatedPhases <=> Associated(c),
           Associated(c) => s.user = conn[c].user,
           \A u \in Users : Active(u)' <=> Active(u)
    PROVE  HasItem' /\ HasConnection' /\ OnlyOne' /\ conn' \in [Conns -> ConnStates]
<1>1. \A d \in Conns : conn'[d] = IF d = c THEN s ELSE conn[d]
  BY DEF Typed
<1>2. \A d \in Conns : Associated(d)' <=> Associated(d)
  BY <1>1 DEF Associated
<1>3. \A d \in Conns : Associated(d) => conn'[d].user = conn[d].user
  BY <1>1
<1>4. conn' \in [Conns -> ConnStates]
  BY DEF Typed
<1> QED  BY <1>2, <1>3, <1>4, Steady

-----------------------------------------------------------------------------
\* Initially nothing is associated and every call is still to come.
LEMMA InitIInv == Init => IInv
<1> SUFFICES ASSUME Init PROVE IInv
  OBVIOUS
<1>1. Typed
  BY DEF Init, Typed, ConnStates, NoCQI, CQIs
<1>2. \A c \in Conns : ~Associated(c)
  BY DEF Init, Free, Associated, AssociatedPhases
<1>3. \A u \in Users : ~Active(u)
  BY DEF Init, NoCQI, Active
<1> QED  BY <1>1, <1>2, <1>3 DEF IInv, HasItem, HasConnection, OnlyOne

\* The actions of the queue, the user and the hub leave the connections alone,
\* and no item is ACTIVE afterwards that was not before.
LEMMA QueueSteps ==
    ASSUME IInv, NEW u \in Users,
           Add(u) \/ Request(u) \/ GoOffline(u) \/ ComeOnline(u) \/ ForceAttempt(u)
             \/ Age(u) \/ NoAnswer(u)
    PROVE  IInv'
<1> USE DEF IInv
<1>0. conn' = conn
  BY DEF Add, Request, GoOffline, ComeOnline, ForceAttempt, Age, NoAnswer
<1>a. ASSUME Typed', \A v \in Users : Active(v)' <=> Active(v)
      PROVE  IInv'
  <2>1. HasItem' /\ HasConnection' /\ OnlyOne'
    BY <1>0, <1>a, Steady DEF Associated
  <2> QED  BY <2>1, <1>a
<1>1. CASE Add(u) \/ GoOffline(u) \/ ComeOnline(u) \/ NoAnswer(u)
  <2>1. Typed' /\ cqi' = cqi
    BY <1>1, <1>0 DEF Add, GoOffline, ComeOnline, NoAnswer, Typed
  <2> QED  BY <1>a, <2>1 DEF Active
<1>2. CASE Request(u)
  <2>1. GetDownloadConnection(u) /\ wanted' = wanted /\ online' = online
    BY <1>2 DEF Request
  <2>2. Typed'
    BY <2>1, <1>0, Called DEF Typed
  <2> QED  BY <1>a, <2>1, <2>2, Called
<1>3. CASE ForceAttempt(u) \/ Age(u)
  <2>1. PICK w \in {"zero", "late", "due"} : cqi' = [cqi EXCEPT ![u] = Since(u, w)]
    BY <1>3 DEF ForceAttempt, Age
  <2>2. Since(u, w) \in CQIs /\ Since(u, w).state = cqi[u].state
    BY DEF Since, CQIs, Typed
  <2>3. Typed' /\ \A v \in Users : cqi'[v].state = cqi[v].state
    BY <1>3, <1>0, <2>1, <2>2 DEF ForceAttempt, Age, Typed
  <2> QED  BY <1>a, <2>3 DEF Active
<1> QED  BY <1>1, <1>2, <1>3

\* on(Second) removes only items that are not ACTIVE, of users who are offline
\* or have nothing on offer.
LEMMA TickedItem ==
    ASSUME Typed, NEW u \in Users, NEW skipped
    PROVE  /\ Ticked(u, skipped) \in CQIs
           /\ Ticked(u, skipped).state = "ACTIVE" <=> cqi[u].state = "ACTIVE"
           /\ u \in online /\ wanted[u] > 0 /\ cqi[u].state # "none"
                 => Ticked(u, skipped).state # "none"
<1>1. cqi[u] \in CQIs
  BY DEF Typed
<1>2. CASE cqi[u].state \in {"none", "ACTIVE"}
  <2>1. Ticked(u, skipped) = cqi[u]
    BY <1>2 DEF Ticked, Served
  <2> QED  BY <1>1, <2>1
<1>3. CASE cqi[u].state \notin {"none", "ACTIVE"} /\ u \notin online
  <2>1. Ticked(u, skipped) = NoCQI
    BY <1>3 DEF Ticked, Served
  <2> QED  BY <1>3, <2>1 DEF NoCQI, CQIs
<1>4. CASE Served(u, skipped)
  <2>1. cqi[u].state \in {"WAITING", "CONNECTING", "NO_DOWNLOAD_SLOTS"} /\ u \in online
    BY <1>1, <1>4 DEF Served, CQIs
  <2>2. CASE wanted[u] = 0
    <3>1. Ticked(u, skipped) = NoCQI
      BY <1>4, <2>1, <2>2 DEF Ticked
    <3> QED  BY <2>1, <2>2, <3>1 DEF NoCQI, CQIs
  <2>3. CASE wanted[u] # 0
    <3>1. PICK s \in {"WAITING", "CONNECTING", "NO_DOWNLOAD_SLOTS"} :
             Ticked(u, skipped) = [state |-> s, since |-> "recent",
                                   barred |-> cqi[u].barred]
      BY <1>4, <2>1, <2>3 DEF Ticked
    <3> QED  BY <1>1, <2>1, <3>1 DEF CQIs
  <2> QED  BY <2>2, <2>3
<1>5. CASE /\ cqi[u].state \notin {"none", "ACTIVE"} /\ u \in online
           /\ ~Served(u, skipped)
  <2>1. \/ Ticked(u, skipped) = cqi[u]
        \/ Ticked(u, skipped) = [state |-> "WAITING", since |-> cqi[u].since,
                                 barred |-> FALSE]
    BY <1>5 DEF Ticked
  <2>2. CASE Ticked(u, skipped) = cqi[u]
    BY <1>1, <1>5, <2>2
  <2>3. CASE Ticked(u, skipped) = [state |-> "WAITING", since |-> cqi[u].since,
                                   barred |-> FALSE]
    BY <1>1, <1>5, <2>3 DEF CQIs
  <2> QED  BY <2>1, <2>2, <2>3
<1> QED  BY <1>2, <1>3, <1>4, <1>5

\* So the correspondence is not touched.
LEMMA SecondStep ==
    ASSUME IInv, Second
    PROVE  IInv'
<1> USE DEF IInv
<1>1. PICK skipped \in SUBSET Users : cqi' = [u \in Users |-> Ticked(u, skipped)]
  BY DEF Second
<1>2. conn' = conn /\ wanted' = wanted /\ online' = online
  BY DEF Second
<1>3. Typed'
  BY <1>1, <1>2, TickedItem DEF Typed
<1>4. \A u \in Users : Active(u)' <=> Active(u)
  BY <1>1, TickedItem DEF Active
<1>5. HasItem' /\ HasConnection' /\ OnlyOne'
  BY <1>2, <1>4, Steady DEF Associated
<1> QED  BY <1>3, <1>5

\* A connection that comes up is free before and not associated after.
LEMMA AcceptSteps ==
    ASSUME IInv, NEW u \in Users, NEW c \in Conns, Answer(u, c) \/ PeerConnects(u, c)
    PROVE  IInv'
<1> USE DEF IInv
<1> DEFINE s == [phase |-> "connected", user |-> u, download |-> FALSE]
<1>1. /\ conn[c].phase = "free" /\ conn' = [conn EXCEPT ![c] = s]
      /\ wanted' = wanted /\ online' = online /\ cqi' = cqi
  BY DEF Answer, PeerConnects, Accept, Phase
<1>2. s \in ConnStates /\ s.phase \notin AssociatedPhases /\ ~Associated(c)
  BY <1>1 DEF ConnStates, Phases, AssociatedPhases, Associated
<1>3. \A v \in Users : Active(v)' <=> Active(v)
  BY <1>1 DEF Active
<1> HIDE DEF s
<1>4. HasItem' /\ HasConnection' /\ OnlyOne' /\ conn' \in [Conns -> ConnStates]
  BY <1>1, <1>2, <1>3, MovesOn
<1> QED  BY <1>1, <1>4 DEF Typed

\* A connection that goes from phase to phase or is discarded, while the items
\* keep their states.
LEMMA PhaseSteps ==
    ASSUME IInv, NEW c \in Conns,
           Minute(c) \/ MyNick(c) \/ LoseHandshake(c) \/ Refuse(c) \/ CheckDownloads(c)
             \/ GetDownload(c) \/ BecomeIdle(c) \/ Revive(c) \/ EndDownload(c)
    PROVE  IInv'
<1> USE DEF IInv
<1> DEFINE u == conn[c].user
<1>0. conn[c].phase # "free" => u \in Users
  BY UserOf
<1> HIDE DEF u
<1>f. Free \in ConnStates /\ Free.phase \notin AssociatedPhases
  BY DEF ConnStates, Free, AssociatedPhases
<1>a. ASSUME NEW s \in ConnStates, conn' = [conn EXCEPT ![c] = s],
             s.phase \in AssociatedPhases <=> Associated(c), Associated(c) => s.user = u,
             cqi' \in [Users -> CQIs], \A v \in Users : cqi'[v].state = cqi[v].state,
             wanted' \in [Users -> Nat], online' = online
      PROVE  IInv'
  <2>1. \A v \in Users : Active(v)' <=> Active(v)
    BY <1>a DEF Active
  <2>2. HasItem' /\ HasConnection' /\ OnlyOne' /\ conn' \in [Conns -> ConnStates]
    BY <1>a, <2>1, MovesOn DEF u
  <2>3. Typed'
    BY <1>a, <2>2 DEF Typed
  <2> QED  BY <2>2, <2>3
<1>b. ASSUME cqi' = cqi
      PROVE  cqi' \in [Users -> CQIs] /\ \A v \in Users : cqi'[v].state = cqi[v].state
  BY <1>b DEF Typed
<1>c. ASSUME wanted' = wanted PROVE wanted' \in [Users -> Nat]
  BY <1>c DEF Typed
<1>1. CASE Minute(c)
  <2>1. UNCHANGED <<online, wanted, calls, cqi, conn>>
    BY <1>1 DEF Minute
  <2> QED  BY <2>1 DEF Typed, HasItem, HasConnection, OnlyOne, Associated, Active
<1>2. CASE MyNick(c)
  <2>1. conn[c].phase = "connected" /\ wanted' = wanted /\ online' = online /\ calls' = calls
    BY <1>2 DEF MyNick, Phase
  <2>2. ~Associated(c)
    BY <2>1 DEF Associated, AssociatedPhases
  <2>3. PICK passed \in SUBSET Users :
           cqi' = [v \in Users |-> [state |-> cqi[v].state, since |-> cqi[v].since,
                                    barred |-> cqi[v].barred /\ v \notin passed]]
    BY <1>2 DEF MyNick
  <2>4. \A v \in Users : cqi[v] \in CQIs
    BY DEF Typed
  <2>5. cqi' \in [Users -> CQIs] /\ \A v \in Users : cqi'[v].state = cqi[v].state
    <3>1. \A v \in Users : [state |-> cqi[v].state, since |-> cqi[v].since,
                            barred |-> cqi[v].barred /\ v \notin passed] \in CQIs
      BY <2>4 DEF CQIs
    <3> QED  BY <2>3, <3>1
  <2>6. CASE conn' = [conn EXCEPT ![c] = Free]
    BY <1>a, <1>c, <1>f, <2>1, <2>2, <2>5, <2>6
  <2>7. CASE conn' = Goes(c, "handshake")
    <3> DEFINE s == [phase |-> "handshake", user |-> conn[c].user,
                     download |-> conn[c].download]
    <3>1. s \in ConnStates /\ s.phase \notin AssociatedPhases
      BY <2>1, NextState DEF Phases, AssociatedPhases
    <3>2. conn' = [conn EXCEPT ![c] = s]
      BY <2>7 DEF Goes
    <3> HIDE DEF s
    <3> QED  BY <1>a, <1>c, <2>1, <2>2, <2>5, <3>1, <3>2
  <2> QED  BY <1>2, <2>6, <2>7 DEF MyNick, Discard
<1>3. CASE LoseHandshake(c)
  <2>1. ~Associated(c) /\ conn' = [conn EXCEPT ![c] = Free]
    BY <1>3 DEF LoseHandshake, Discard, Associated, AssociatedPhases
  <2>2. UNCHANGED <<online, wanted, calls, cqi>>
    BY <1>3 DEF LoseHandshake
  <2> QED  BY <1>a, <1>b, <1>c, <1>f, <2>1, <2>2
<1>4. CASE Refuse(c)
  <2>1. /\ wanted' = [wanted EXCEPT ![u] = 0] /\ cqi' = cqi
        /\ online' = online /\ calls' = calls
    BY <1>4 DEF Refuse, u
  <2>2. wanted' \in [Users -> Nat]
    <3>1. u \in Users
      BY <1>4, <1>0 DEF Refuse, Phase
    <3> QED  BY <2>1, <3>1 DEF Typed
  <2>3. CASE conn[c].phase = "connected" /\ conn' = [conn EXCEPT ![c] = Free]
    <3>1. ~Associated(c)
      BY <2>3 DEF Associated, AssociatedPhases
    <3> QED  BY <1>a, <1>b, <1>f, <2>1, <2>2, <2>3, <3>1
  <2>4. CASE conn[c].phase = "new" /\ conn' = Goes(c, "closing")
    <3> DEFINE s == [phase |-> "closing", user |-> conn[c].user,
                     download |-> conn[c].download]
    <3>1. /\ s \in ConnStates /\ s.phase \in AssociatedPhases /\ s.user = u
          /\ Associated(c)
      BY <2>4, NextState DEF Phases, AssociatedPhases, Associated, u
    <3>2. conn' = [conn EXCEPT ![c] = s]
      BY <2>4 DEF Goes
    <3> HIDE DEF s
    <3> QED  BY <1>a, <1>b, <2>1, <2>2, <3>1, <3>2
  <2> QED  BY <1>4, <2>3, <2>4 DEF Refuse, Phase, Discard
<1>5. CASE CheckDownloads(c)
  <2>1. PICK p \in {"asking", "closing"} : conn' = Goes(c, p)
    BY <1>5 DEF CheckDownloads
  <2>2. conn[c].phase \in {"new", "added"} /\ UNCHANGED <<online, wanted, calls, cqi>>
    BY <1>5 DEF CheckDownloads
  <2> DEFINE s == [phase |-> p, user |-> conn[c].user, download |-> conn[c].download]
  <2>3. /\ s \in ConnStates /\ s.phase \in AssociatedPhases /\ s.user = u
        /\ Associated(c)
    BY <2>2, NextState DEF Phases, AssociatedPhases, Associated, u
  <2>4. conn' = [conn EXCEPT ![c] = s]
    BY <2>1 DEF Goes
  <2> HIDE DEF s
  <2> QED  BY <1>a, <1>b, <1>c, <2>2, <2>3, <2>4
<1>6. CASE GetDownload(c)
  <2>1. conn[c].phase = "asking" /\ UNCHANGED <<online, calls, cqi>>
    BY <1>6 DEF GetDownload, Phase
  <2>2. PICK p \in {"transfer", "empty"}, b \in BOOLEAN :
           conn' = [conn EXCEPT ![c] = [phase |-> p, user |-> conn[c].user, download |-> b]]
    <3>1. conn[c].download \in BOOLEAN
      BY <2>1, UserOf
    <3> QED  BY <1>6, <3>1 DEF GetDownload, Goes
  <2> DEFINE s == [phase |-> p, user |-> conn[c].user, download |-> b]
  <2>3. /\ s \in ConnStates /\ s.phase \in AssociatedPhases /\ s.user = u
        /\ Associated(c)
    BY <2>1, NextState DEF Phases, AssociatedPhases, Associated, u
  <2> HIDE DEF s
  <2>4. wanted' \in [Users -> Nat]
    <3>1. CASE u \in Users /\ wanted[u] > 0 /\ wanted' = [wanted EXCEPT ![u] = @ - 1]
      BY <3>1 DEF Typed
    <3>2. CASE wanted' = wanted
      BY <3>2, <1>c
    <3> QED  BY <1>6, <1>0, <2>1, <3>1, <3>2 DEF GetDownload, u
  <2> QED  BY <1>a, <1>b, <2>1, <2>2, <2>3, <2>4 DEF s
<1>7. CASE BecomeIdle(c)
  <2>1. /\ conn[c].phase = "empty" /\ UNCHANGED <<online, wanted, calls, cqi>>
        /\ conn' = Goes(c, "idle")
    BY <1>7 DEF BecomeIdle, Phase
  <2> DEFINE s == [phase |-> "idle", user |-> conn[c].user, download |-> conn[c].download]
  <2>2. /\ s \in ConnStates /\ s.phase \in AssociatedPhases /\ s.user = u
        /\ Associated(c)
    BY <2>1, NextState DEF Phases, AssociatedPhases, Associated, u
  <2>3. conn' = [conn EXCEPT ![c] = s]
    BY <2>1 DEF Goes
  <2> HIDE DEF s
  <2> QED  BY <1>a, <1>b, <1>c, <2>1, <2>2, <2>3
<1>8. CASE Revive(c)
  <2>1. /\ conn[c].phase \in {"idle", "transfer", "closing"}
        /\ UNCHANGED <<online, wanted, calls, cqi>>
        /\ conn' = Goes(c, "added") \/ conn' = conn
    BY <1>8 DEF Revive
  <2> DEFINE s == [phase |-> "added", user |-> conn[c].user, download |-> conn[c].download]
  <2>2. /\ s \in ConnStates /\ s.phase \in AssociatedPhases /\ s.user = u
        /\ Associated(c)
    BY <2>1, NextState DEF Phases, AssociatedPhases, Associated, u
  <2>3. Goes(c, "added") = [conn EXCEPT ![c] = s]
    BY DEF Goes
  <2> HIDE DEF s
  <2>4. CASE conn' = Goes(c, "added")
    BY <1>a, <1>b, <1>c, <2>1, <2>2, <2>3, <2>4
  <2>5. CASE conn' = conn
    BY <2>1, <2>5 DEF Typed, HasItem, HasConnection, OnlyOne, Associated, Active
  <2> QED  BY <2>1, <2>4, <2>5
<1>9. CASE EndDownload(c)
  <2> DEFINE s == [phase |-> "added", user |-> conn[c].user, download |-> FALSE]
  <2>1. /\ conn[c].phase = "transfer" /\ UNCHANGED <<online, calls, cqi>>
        /\ conn' = [conn EXCEPT ![c] = s]
        /\ wanted' = wanted \/ wanted' = [wanted EXCEPT ![u] = @ + 1]
    BY <1>9 DEF EndDownload, Phase, u
  <2>2. /\ s \in ConnStates /\ s.phase \in AssociatedPhases /\ s.user = u
        /\ Associated(c)
    BY <2>1, NextState DEF Phases, AssociatedPhases, Associated, u
  <2> HIDE DEF s
  <2>3. u \in Users
    BY <1>0, <2>1
  <2>4. wanted' \in [Users -> Nat]
    BY <2>1, <2>3 DEF Typed
  <2> QED  BY <1>a, <1>b, <2>1, <2>2, <2>4
<1> QED  BY <1>1, <1>2, <1>3, <1>4, <1>5, <1>6, <1>7, <1>8, <1>9

\* addDownloadConnection: nobody else is associated with the item it makes
\* ACTIVE.
LEMMA AssociateStep ==
    ASSUME IInv, NEW c \in Conns, AddDownloadConnection(c)
    PROVE  IInv'
<1> USE DEF IInv
<1>1. conn[c].phase \in {"handshake", "connected"} /\ UNCHANGED <<online, wanted, calls>>
  BY DEF AddDownloadConnection, Phase
<1>u. PICK u \in Users : u = conn[c].user
  BY <1>1, UserOf
<1>2. u \in Users /\ ~Associated(c)
  BY <1>1 DEF Associated, AssociatedPhases
<1>3. CASE cqi[u].state \in Accepting
  <2> DEFINE s == [phase |-> "new", user |-> u, download |-> conn[c].download]
  <2>1. PICK b \in BOOLEAN : cqi' = [cqi EXCEPT ![u] = [state |-> "ACTIVE", since |-> cqi[u].since,
                                                         barred |-> b]]
    <3>1. cqi[u].barred \in BOOLEAN
      BY <1>2 DEF Typed, CQIs
    <3> QED  BY <1>u, <1>3, <3>1 DEF AddDownloadConnection
  <2>2. conn' = [conn EXCEPT ![c] = s]
    BY <1>u, <1>3 DEF AddDownloadConnection, Goes
  <2>3. s \in ConnStates /\ s.phase \in AssociatedPhases /\ s.user = u
    BY <1>u, <1>1, NextState DEF Phases, AssociatedPhases
  <2>4. [state |-> "ACTIVE", since |-> cqi[u].since, barred |-> b] \in CQIs
    BY <1>2 DEF Typed, CQIs
  <2> HIDE DEF s
  <2>5. Typed'
    BY <1>1, <2>1, <2>2, <2>3, <2>4 DEF Typed
  <2>6. Active(u)' /\ \A v \in Users \ {u} : cqi'[v] = cqi[v]
    BY <1>2, <2>1 DEF Active, Typed
  <2>7. \A d \in Conns : conn'[d] = IF d = c THEN s ELSE conn[d]
    BY <2>2 DEF Typed
  <2>8. \A d \in Conns : Associated(d) => conn[d].user # u
    BY <1>3 DEF HasItem, Active, Accepting
  <2>9. HasItem'
    <3> SUFFICES ASSUME NEW d \in Conns, Associated(d)' PROVE Active(conn[d].user)'
      BY DEF HasItem
    <3>1. CASE d = c
      BY <3>1, <2>3, <2>6, <2>7
    <3>2. CASE d # c
      <4>1. Associated(d) /\ conn'[d].user = conn[d].user /\ conn[d].user \in Users
        BY <3>2, <2>7, UserOf DEF Associated, AssociatedPhases
      <4>2. Active(conn[d].user) /\ conn[d].user # u
        BY <4>1, <2>8 DEF HasItem
      <4> QED  BY <4>1, <4>2, <2>6 DEF Active
    <3> QED  BY <3>1, <3>2
  <2>10. HasConnection'
    <3> SUFFICES ASSUME NEW v \in Users, Active(v)'
                 PROVE  \E d \in Conns : Associated(d)' /\ conn'[d].user = v
      BY DEF HasConnection
    <3>1. CASE v = u
      BY <3>1, <2>3, <2>7 DEF Associated
    <3>2. CASE v # u
      <4>1. PICK d \in Conns : Associated(d) /\ conn[d].user = v
        BY <3>2, <2>6 DEF HasConnection, Active
      <4>2. d # c
        BY <4>1, <1>2
      <4> QED  BY <4>1, <4>2, <2>7 DEF Associated
    <3> QED  BY <3>1, <3>2
  <2>11. OnlyOne'
    BY <2>3, <2>7, <2>8 DEF OnlyOne, Associated
  <2> QED  BY <2>5, <2>9, <2>10, <2>11
<1>4. CASE cqi[u].state \notin Accepting
  <2>1. conn' = [conn EXCEPT ![c] = Free] /\ cqi' = cqi
    BY <1>u, <1>4 DEF AddDownloadConnection, Discard
  <2>2. Free \in ConnStates /\ Free.phase \notin AssociatedPhases
    BY DEF ConnStates, Free, AssociatedPhases
  <2>3. HasItem' /\ HasConnection' /\ OnlyOne' /\ conn' \in [Conns -> ConnStates]
    BY <1>2, <2>1, <2>2, MovesOn DEF Active
  <2> QED  BY <1>1, <2>1, <2>3 DEF Typed
<1> QED  BY <1>3, <1>4

\* ConnectionManager::failed: the one associated connection leaves its item,
\* which waits again.
LEMMA FailedStep ==
    ASSUME IInv, NEW c \in Conns, Failed(c)
    PROVE  IInv'
<1> USE DEF IInv
<1>1. conn[c].phase \in {"idle", "transfer", "closing"} /\ UNCHANGED <<online, wanted, calls>>
  BY DEF Failed
<1>u. PICK u \in Users : u = conn[c].user
  BY <1>1, UserOf
<1>2. u \in Users /\ Associated(c)
  BY <1>1 DEF Associated, AssociatedPhases
<1>3. PICK b \in BOOLEAN : cqi' = [cqi EXCEPT ![u] = [state |-> "WAITING", since |-> "recent",
                                                     barred |-> b]]
  BY <1>u DEF Failed
<1>4. [state |-> "WAITING", since |-> "recent", barred |-> b] \in CQIs
  BY DEF CQIs
<1>5. PICK s \in ConnStates : s.phase \notin AssociatedPhases /\ conn' = [conn EXCEPT ![c] = s]
  <2>1. Free \in ConnStates /\ Free.phase \notin AssociatedPhases
    BY DEF ConnStates, Free, AssociatedPhases
  <2> DEFINE t == [phase |-> "failed", user |-> u, download |-> conn[c].download]
  <2>2. t \in ConnStates /\ t.phase \notin AssociatedPhases
    BY <1>u, <1>1, NextState DEF Phases, AssociatedPhases
  <2>3. conn' = [conn EXCEPT ![c] = Free] \/ conn' = [conn EXCEPT ![c] = t]
    BY <1>u DEF Failed, Goes
  <2> HIDE DEF t
  <2> QED  BY <2>1, <2>2, <2>3
<1>6. Typed'
  BY <1>1, <1>3, <1>4, <1>5 DEF Typed
<1>7. ~Active(u)' /\ cqi'[u].state # "none" /\ \A v \in Users \ {u} : cqi'[v] = cqi[v]
  BY <1>2, <1>3 DEF Active, Typed
<1>8. \A d \in Conns : conn'[d] = IF d = c THEN s ELSE conn[d]
  BY <1>5 DEF Typed
<1>9. \A d \in Conns : Associated(d)' => d # c /\ Associated(d) /\ conn'[d].user = conn[d].user
  BY <1>5, <1>8 DEF Associated
<1>10. HasItem'
  <2> SUFFICES ASSUME NEW d \in Conns, Associated(d)' PROVE Active(conn[d].user)'
    BY DEF HasItem
  <2>1. Associated(d) /\ d # c /\ conn'[d].user = conn[d].user
    BY <1>9
  <2>2. conn[d].user # u /\ conn[d].user \in Users
    BY <1>u, <2>1, <1>2, UserOf DEF OnlyOne, Associated, AssociatedPhases
  <2>3. Active(conn[d].user)
    BY <2>1 DEF HasItem
  <2> QED  BY <2>1, <2>2, <2>3, <1>7 DEF Active
<1>11. HasConnection'
  <2> SUFFICES ASSUME NEW v \in Users, Active(v)'
               PROVE  \E d \in Conns : Associated(d)' /\ conn'[d].user = v
    BY DEF HasConnection
  <2>1. v # u /\ Active(v)
    BY <1>7 DEF Active
  <2>2. PICK d \in Conns : Associated(d) /\ conn[d].user = v
    BY <2>1 DEF HasConnection
  <2>3. d # c
    BY <2>1, <2>2, <1>u
  <2> QED  BY <2>2, <2>3, <1>8 DEF Associated
<1>12. OnlyOne'
  BY <1>9 DEF OnlyOne
<1> QED  BY <1>6, <1>10, <1>11, <1>12

\* An item that is put back: its user is called for in the same step.
LEMMA PutBackSteps ==
    ASSUME IInv, NEW c \in Conns, FailDownload(c) \/ OnFailed(c)
    PROVE  IInv'
<1> USE DEF IInv
<1>1. conn[c].phase \in {"transfer", "failed"} /\ online' = online /\ calls' = calls
  BY DEF FailDownload, OnFailed, Phase
<1>u. PICK u \in Users : u = conn[c].user
  BY <1>1, UserOf
<1>3. PICK s \in ConnStates : /\ conn' = [conn EXCEPT ![c] = s]
                              /\ s.phase \in AssociatedPhases <=> Associated(c)
                              /\ Associated(c) => s.user = u
  <2>1. CASE FailDownload(c)
    <3> DEFINE t == [phase |-> "closing", user |-> u, download |-> FALSE]
    <3>1. conn[c].phase = "transfer" /\ conn' = [conn EXCEPT ![c] = t]
      BY <1>u, <2>1 DEF FailDownload, Phase
    <3>2. t \in ConnStates /\ t.phase \in AssociatedPhases /\ t.user = u /\ Associated(c)
      BY <1>u, <3>1, NextState DEF Phases, AssociatedPhases, Associated
    <3> HIDE DEF t
    <3> QED  BY <3>1, <3>2
  <2>2. CASE OnFailed(c)
    <3>1. conn[c].phase = "failed" /\ conn' = [conn EXCEPT ![c] = Free]
      BY <2>2 DEF OnFailed, Phase
    <3>2. Free \in ConnStates /\ Free.phase \notin AssociatedPhases /\ ~Associated(c)
      BY <3>1 DEF ConnStates, Free, AssociatedPhases, Associated
    <3> QED  BY <3>1, <3>2
  <2> QED  BY <2>1, <2>2
<1>4. \/ wanted' = [wanted EXCEPT ![u] = @ + 1] /\ PutBack(u)
      \/ wanted' = wanted /\ cqi' = cqi
  BY <1>u DEF FailDownload, OnFailed
<1>5. /\ cqi' \in [Users -> CQIs]
      /\ \A v \in Users : Active(v)' <=> Active(v)
      /\ \A v \in Users : cqi[v].state # "none" => cqi'[v].state # "none"
  <2>1. CASE PutBack(u)
    BY <1>u, <2>1, PutBackCalls
  <2>2. CASE cqi' = cqi
    BY <2>2 DEF Typed, Active
  <2> QED  BY <1>4, <2>1, <2>2
<1>6. wanted' \in [Users -> Nat]
  BY <1>u, <1>4 DEF Typed
<1>7. HasItem' /\ HasConnection' /\ OnlyOne' /\ conn' \in [Conns -> ConnStates]
  BY <1>3, <1>5, MovesOn, <1>u
<1>8. Typed'
  BY <1>1, <1>5, <1>6, <1>7 DEF Typed
<1> QED  BY <1>7, <1>8

-----------------------------------------------------------------------------
\* Every step preserves the invariant.
LEMMA NextIInv == IInv /\ [Next]_vars => IInv'
<1> SUFFICES ASSUME IInv, [Next]_vars PROVE IInv'
  OBVIOUS
<1>1. ASSUME NEW u \in Users,
             \/ Add(u) \/ Request(u) \/ GoOffline(u) \/ ComeOnline(u) \/ ForceAttempt(u)
             \/ Age(u) \/ NoAnswer(u)
      PROVE  IInv'
  BY <1>1, QueueSteps
<1>2. ASSUME NEW u \in Users, NEW c \in Conns, Answer(u, c) \/ PeerConnects(u, c)
      PROVE  IInv'
  BY <1>2, AcceptSteps
<1>3. ASSUME NEW c \in Conns,
             \/ Minute(c) \/ MyNick(c) \/ LoseHandshake(c) \/ Refuse(c)
             \/ CheckDownloads(c) \/ GetDownload(c) \/ BecomeIdle(c) \/ Revive(c)
             \/ EndDownload(c)
      PROVE  IInv'
  BY <1>3, PhaseSteps
<1>4. ASSUME NEW c \in Conns, AddDownloadConnection(c) PROVE IInv'
  BY <1>4, AssociateStep
<1>5. ASSUME NEW c \in Conns, Failed(c) PROVE IInv'
  BY <1>5, FailedStep
<1>6. ASSUME NEW c \in Conns, FailDownload(c) \/ OnFailed(c) PROVE IInv'
  BY <1>6, PutBackSteps
<1>7. CASE Second
  BY <1>7, SecondStep
<1>8. CASE UNCHANGED vars
  BY <1>8 DEF vars, IInv, Typed, HasItem, HasConnection, OnlyOne, Associated, Active
<1> QED  BY <1>1, <1>2, <1>3, <1>4, <1>5, <1>6, <1>7, <1>8 DEF Next

\* The pointwise form gives the set form the runs check.
LEMMA IInvActive == IInv => ActiveIsAssociated
<1> SUFFICES ASSUME IInv, NEW u \in Users
             PROVE  IF cqi[u].state = "ACTIVE"
                    THEN \E c \in Conns : Of(u, AssociatedPhases) = {c}
                    ELSE Of(u, AssociatedPhases) = {}
  BY DEF ActiveIsAssociated
<1>1. CASE Active(u)
  <2>1. PICK c \in Conns : Associated(c) /\ conn[c].user = u
    BY <1>1 DEF IInv, HasConnection
  <2>2. Of(u, AssociatedPhases) = {c}
    BY <2>1 DEF Of, IInv, OnlyOne, Associated
  <2> QED  BY <1>1, <2>2 DEF Active
<1>2. CASE ~Active(u)
  <2>1. Of(u, AssociatedPhases) = {}
    BY <1>2 DEF Of, IInv, HasItem, Associated
  <2> QED  BY <1>2, <2>1 DEF Active
<1> QED  BY <1>1, <1>2

\* ConnectionManager::addDownloadConnection and failed keep items and
\* connections in step: an item is ACTIVE exactly while one connection belongs
\* to it, however many users and connections there are.
THEOREM ActiveIsAssociatedTheorem == Spec => []ActiveIsAssociated
<1>1. Init => IInv
  BY InitIInv
<1>2. IInv /\ [Next]_vars => IInv'
  BY NextIInv
<1>3. IInv => ActiveIsAssociated
  BY IInvActive
<1> QED  BY <1>1, <1>2, <1>3, PTL DEF Spec

-----------------------------------------------------------------------------
(* Nothing on offer is forgotten.                                          *)

Loaded(c) == conn[c].phase # "free" /\ conn[c].download

\* A download is held during the transfer and until onFailed,
LoadedPhases == \A c \in Conns : Loaded(c) => conn[c].phase \in {"transfer", "failed"}

\* and not by an idle connection.
IdlersRest ==
    /\ idlers \subseteq Conns
    /\ \A c \in idlers : conn[c].phase \in {"idle", "failed"} /\ ~Loaded(c)

HasDownload(u) == \E c \in Conns : Loaded(c) /\ conn[c].user = u

\* WantedIsPursued, pointwise.
Pursued ==
    \A u \in online :
        wanted[u] > 0 => cqi[u].state # "none" \/ u \in calls \/ HasDownload(u)

Sight == LoadedPhases /\ IdlersRest /\ Pursued

\* What a step on connection c has to show.
LEMMA SightKept ==
    ASSUME Typed, Sight, NEW c \in Conns, NEW s, conn' = [conn EXCEPT ![c] = s],
           s.phase # "free" /\ s.download => s.phase \in {"transfer", "failed"},
           idlers' \subseteq idlers \cup {c},
           c \in idlers' => s.phase \in {"idle", "failed"} /\ ~(s.phase # "free" /\ s.download),
           online' = online, calls' = calls,
           \A v \in Users : cqi[v].state # "none" => cqi'[v].state # "none",
           \A v \in online : wanted'[v] > 0 => wanted[v] > 0 \/ cqi'[v].state # "none",
           Loaded(c) /\ conn[c].user \in online =>
               \/ s.phase # "free" /\ s.download /\ s.user = conn[c].user
               \/ cqi'[conn[c].user].state # "none"
    PROVE  Sight'
<1>1. \A d \in Conns : conn'[d] = IF d = c THEN s ELSE conn[d]
  BY DEF Typed
<1>2. LoadedPhases'
  BY <1>1 DEF Sight, LoadedPhases, Loaded
<1>3. IdlersRest'
  BY <1>1 DEF Sight, IdlersRest, Loaded
<1>4. Pursued'
  <2> SUFFICES ASSUME NEW u \in online, wanted'[u] > 0
               PROVE  cqi'[u].state # "none" \/ u \in calls \/ HasDownload(u)'
    BY DEF Pursued
  <2>1. u \in Users
    BY DEF Typed
  <2>2. CASE wanted[u] > 0 /\ HasDownload(u)
    <3>1. PICK d \in Conns : Loaded(d) /\ conn[d].user = u
      BY <2>2 DEF HasDownload
    <3>2. CASE d = c
      BY <1>1, <3>1, <3>2 DEF HasDownload, Loaded
    <3>3. CASE d # c
      BY <1>1, <3>1, <3>3 DEF HasDownload, Loaded
    <3> QED  BY <3>2, <3>3
  <2>3. CASE wanted[u] > 0 /\ ~HasDownload(u)
    BY <2>1, <2>3 DEF Sight, Pursued
  <2>4. CASE ~(wanted[u] > 0)
    BY <2>4
  <2> QED  BY <2>2, <2>3, <2>4
<1> QED  BY <1>2, <1>3, <1>4 DEF Sight

\* What a step that leaves the connections alone has to show.
LEMMA SightKeptQueue ==
    ASSUME Sight, conn' = conn, idlers' = idlers,
           \A u \in online' : wanted'[u] > 0 =>
               cqi'[u].state # "none" \/ u \in calls' \/ HasDownload(u)
    PROVE  Sight'
<1>1. LoadedPhases' /\ IdlersRest'
  BY DEF Sight, LoadedPhases, IdlersRest, Loaded
<1>2. \A u : HasDownload(u)' <=> HasDownload(u)
  BY DEF HasDownload, Loaded
<1>3. Pursued'
  BY <1>2 DEF Pursued
<1> QED  BY <1>1, <1>3 DEF Sight

\* The two forms of "a download from u is running".
LEMMA HoldingLoaded ==
    ASSUME Typed, NEW u
    PROVE  Holding(u) # {} <=> HasDownload(u)
<1>1. \A c \in Conns : conn[c].phase \in Phases
  BY DEF Typed, ConnStates, Free, Phases
<1>2. \A c : c \in Holding(u) <=> c \in Conns /\ Loaded(c) /\ conn[c].user = u
  BY <1>1 DEF Holding, Of, Loaded
<1> QED  BY <1>2 DEF HasDownload

\* Initially every call is still to come.
LEMMA InitSight == Init => Sight
<1> SUFFICES ASSUME Init PROVE Sight
  OBVIOUS
<1>1. \A c \in Conns : ~Loaded(c)
  BY DEF Init, Free, Loaded
<1> QED  BY <1>1 DEF Init, Sight, LoadedPhases, IdlersRest, Pursued

\* The queue, the user, the hub and the timer.
LEMMA SightQueueSteps ==
    ASSUME IInv, Sight,
           \/ \E u \in Users : \/ Add(u) \/ Request(u) \/ GoOffline(u) \/ ComeOnline(u)
                               \/ ForceAttempt(u) \/ Age(u) \/ NoAnswer(u)
           \/ Second
    PROVE  Sight'
<1> USE DEF IInv
<1>0. conn' = conn /\ idlers' = idlers
  BY DEF Add, Request, GoOffline, ComeOnline, ForceAttempt, Age, NoAnswer, Second
<1>a. ASSUME \A v \in online' : wanted'[v] > 0 =>
                 cqi'[v].state # "none" \/ v \in calls' \/ HasDownload(v)
      PROVE  Sight'
  BY <1>0, <1>a, SightKeptQueue
<1>p. \A v \in online : v \in Users /\ (wanted[v] > 0 =>
          cqi[v].state # "none" \/ v \in calls \/ HasDownload(v))
  BY DEF Sight, Pursued, Typed
<1>1. ASSUME NEW u \in Users, Add(u) PROVE Sight'
  <2>1. /\ wanted' = [wanted EXCEPT ![u] = @ + 1] /\ online' = online /\ cqi' = cqi
        /\ calls' = IF u \in online /\ Holding(u) = {} THEN calls \cup {u} ELSE calls
    BY <1>1 DEF Add
  <2>2. u \in online => u \in calls' \/ HasDownload(u)
    BY <2>1, HoldingLoaded
  <2> QED  BY <1>a, <1>p, <2>1, <2>2 DEF Typed
<1>2. ASSUME NEW u \in Users, Request(u) PROVE Sight'
  <2>1. GetDownloadConnection(u) /\ wanted' = wanted /\ online' = online /\ calls' = calls \ {u}
    BY <1>2 DEF Request
  <2> QED  BY <1>a, <1>p, <2>1, Called
<1>3. ASSUME NEW u \in Users, GoOffline(u) PROVE Sight'
  BY <1>a, <1>p, <1>3 DEF GoOffline
<1>4. ASSUME NEW u \in Users, ComeOnline(u) PROVE Sight'
  BY <1>a, <1>p, <1>4 DEF ComeOnline
<1>5. ASSUME NEW u \in Users, ForceAttempt(u) \/ Age(u) PROVE Sight'
  <2>1. PICK w : cqi' = [cqi EXCEPT ![u] = Since(u, w)]
    BY <1>5 DEF ForceAttempt, Age
  <2>2. \A v \in Users : cqi'[v].state = cqi[v].state
    BY <2>1 DEF Since, Typed
  <2>3. wanted' = wanted /\ online' = online /\ calls' = calls
    BY <1>5 DEF ForceAttempt, Age
  <2> QED  BY <1>a, <1>p, <2>2, <2>3
<1>6. ASSUME NEW u \in Users, NoAnswer(u) PROVE Sight'
  BY <1>a, <1>p, <1>6 DEF NoAnswer
<1>7. CASE Second
  <2>1. PICK skipped : cqi' = [u \in Users |-> Ticked(u, skipped)]
    BY <1>7 DEF Second
  <2>2. wanted' = wanted /\ online' = online /\ calls' = calls
    BY <1>7 DEF Second
  <2>3. \A v \in Users : v \in online /\ wanted[v] > 0 /\ cqi[v].state # "none"
                            => cqi'[v].state # "none"
    BY <2>1, TickedItem
  <2> QED  BY <1>a, <1>p, <2>2, <2>3
<1> QED  BY <1>1, <1>2, <1>3, <1>4, <1>5, <1>6, <1>7

\* A connection's steps before and between downloads: it holds none and, unless
\* it is or becomes idle, is not in the idle list.
LEMMA SightEmptySteps ==
    ASSUME IInv, Sight, NEW c \in Conns,
           \/ \E u \in Users : Answer(u, c) \/ PeerConnects(u, c)
           \/ MyNick(c) \/ LoseHandshake(c) \/ Refuse(c) \/ AddDownloadConnection(c)
           \/ CheckDownloads(c) \/ GetDownload(c) \/ BecomeIdle(c)
    PROVE  Sight'
<1> USE DEF IInv
<1>1. /\ conn[c].phase \in {"free", "connected", "handshake", "new", "added", "asking", "empty"}
      /\ online' = online /\ calls' = calls
  BY DEF Answer, PeerConnects, Accept, MyNick, LoseHandshake, Refuse,
         AddDownloadConnection, CheckDownloads, GetDownload, BecomeIdle, Phase
<1>2. ~Loaded(c) /\ c \notin idlers
  BY <1>1 DEF Sight, LoadedPhases, IdlersRest
<1>3. \A v \in Users : cqi[v].state # "none" => cqi'[v].state # "none"
  <2>1. CASE cqi' = cqi
    BY <2>1
  <2>2. CASE MyNick(c)
    BY <2>2 DEF MyNick
  <2>3. CASE AddDownloadConnection(c)
    <3>1. \/ cqi' = cqi
          \/ \E q : q.state = "ACTIVE" /\ cqi' = [cqi EXCEPT ![conn[c].user] = q]
      BY <2>3 DEF AddDownloadConnection
    <3> QED  BY <3>1 DEF Typed
  <2> QED  BY <2>1, <2>2, <2>3 DEF Answer, PeerConnects, Accept, LoseHandshake, Refuse,
                                   CheckDownloads, GetDownload, BecomeIdle
<1>4. \A v \in online : wanted'[v] > 0 => wanted[v] > 0
  <2>0. conn[c].phase # "free" => conn[c].user \in Users
    BY UserOf
  <2>1. CASE wanted' = wanted
    BY <2>1
  <2>2. CASE Refuse(c)
    BY <2>2, <2>0, <1>1 DEF Refuse, Typed, Phase
  <2>3. CASE GetDownload(c)
    BY <2>3, <2>0 DEF GetDownload, Typed, Phase
  <2> QED  BY <2>1, <2>2, <2>3 DEF Answer, PeerConnects, Accept, MyNick, LoseHandshake,
                                   AddDownloadConnection, CheckDownloads, BecomeIdle
<1>5. idlers' \subseteq idlers \cup {c}
  BY DEF Answer, PeerConnects, Accept, MyNick, LoseHandshake, Refuse,
         AddDownloadConnection, CheckDownloads, GetDownload, BecomeIdle
<1>a. ASSUME NEW s, conn' = [conn EXCEPT ![c] = s],
             s.phase # "free" /\ s.download => s.phase \in {"transfer", "failed"},
             c \in idlers' => s.phase = "idle" /\ ~s.download
      PROVE  Sight'
  BY <1>a, <1>1, <1>2, <1>3, <1>4, <1>5, SightKept
<1>6. ASSUME NEW p, conn' = Goes(c, p), c \in idlers' => p = "idle", conn[c].phase # "free"
      PROVE  Sight'
  <2> DEFINE s == [phase |-> p, user |-> conn[c].user, download |-> conn[c].download]
  <2>1. conn' = [conn EXCEPT ![c] = s] /\ ~s.download /\ s.phase = p
    BY <1>2, <1>6 DEF Goes, Loaded
  <2> HIDE DEF s
  <2> QED  BY <1>6, <1>a, <2>1
<1>7. ASSUME conn' = [conn EXCEPT ![c] = Free], c \notin idlers' PROVE Sight'
  BY <1>7, <1>a DEF Free
<1>8. ASSUME NEW u \in Users, Answer(u, c) \/ PeerConnects(u, c) PROVE Sight'
  <2> DEFINE s == [phase |-> "connected", user |-> u, download |-> FALSE]
  <2>1. conn' = [conn EXCEPT ![c] = s] /\ idlers' = idlers
    BY <1>8 DEF Answer, PeerConnects, Accept
  <2>2. ~s.download /\ s.phase = "connected"
    OBVIOUS
  <2> HIDE DEF s
  <2> QED  BY <1>2, <1>a, <2>1, <2>2
<1>9. CASE MyNick(c) \/ LoseHandshake(c) \/ Refuse(c) \/ AddDownloadConnection(c)
  <2>1. conn[c].phase # "free" /\ idlers' = idlers
    BY <1>9, <1>1 DEF MyNick, LoseHandshake, Refuse, AddDownloadConnection, Phase
  <2>2. \/ conn' = [conn EXCEPT ![c] = Free]
        \/ \E p \in {"handshake", "closing", "new"} : conn' = Goes(c, p)
    BY <1>9 DEF MyNick, LoseHandshake, Refuse, AddDownloadConnection, Discard
  <2> QED  BY <1>2, <1>6, <1>7, <2>1, <2>2
<1>10. CASE CheckDownloads(c)
  <2>1. PICK p \in {"asking", "closing"} : conn' = Goes(c, p)
    BY <1>10 DEF CheckDownloads
  <2>2. conn[c].phase # "free" /\ idlers' = idlers
    BY <1>10 DEF CheckDownloads
  <2> QED  BY <1>2, <1>6, <2>1, <2>2
<1>11. CASE GetDownload(c)
  <2>1. conn[c].phase # "free" /\ idlers' = idlers
    BY <1>11 DEF GetDownload, Phase
  <2>2. CASE conn' = Goes(c, "empty")
    BY <1>2, <1>6, <2>1, <2>2
  <2>3. CASE conn' = [conn EXCEPT ![c] = [phase |-> "transfer", user |-> conn[c].user,
                                          download |-> TRUE]]
    <3> DEFINE s == [phase |-> "transfer", user |-> conn[c].user, download |-> TRUE]
    <3>1. conn' = [conn EXCEPT ![c] = s] /\ s.phase = "transfer"
      BY <2>3
    <3> HIDE DEF s
    <3> QED  BY <1>2, <1>a, <2>1, <3>1
  <2> QED  BY <1>11, <2>2, <2>3 DEF GetDownload
<1>12. CASE BecomeIdle(c)
  <2>1. conn[c].phase # "free" /\ conn' = Goes(c, "idle")
    BY <1>12 DEF BecomeIdle, Phase
  <2> QED  BY <1>6, <2>1
<1> QED  BY <1>8, <1>9, <1>10, <1>11, <1>12

\* The steps of a connection that may be idle or hold a download.  One that ends
\* a download well has an ACTIVE item, the others call for the user.
LEMMA SightLoadedSteps ==
    ASSUME IInv, Sight, NEW c \in Conns,
           \/ Minute(c) \/ Revive(c) \/ EndDownload(c) \/ FailDownload(c)
           \/ Failed(c) \/ OnFailed(c)
    PROVE  Sight'
<1> USE DEF IInv
<1>1. /\ conn[c].phase \in {"idle", "transfer", "closing", "failed"}
      /\ online' = online /\ calls' = calls /\ idlers' \subseteq idlers
  BY DEF Minute, Revive, EndDownload, FailDownload, Failed, OnFailed, Phase
<1>u. PICK u \in Users : u = conn[c].user
  BY <1>1, UserOf
<1>a. ASSUME NEW s, conn' = [conn EXCEPT ![c] = s],
             s.phase # "free" /\ s.download => s.phase \in {"transfer", "failed"},
             c \in idlers' => s.phase \in {"idle", "failed"} /\ ~(s.phase # "free" /\ s.download),
             \A v \in Users : cqi[v].state # "none" => cqi'[v].state # "none",
             \A v \in online : wanted'[v] > 0 => wanted[v] > 0 \/ cqi'[v].state # "none",
             Loaded(c) /\ u \in online =>
                 \/ s.phase # "free" /\ s.download /\ s.user = u
                 \/ cqi'[u].state # "none"
      PROVE  Sight'
  BY <1>a, <1>1, <1>u, SightKept
<1>i. c \in idlers => conn[c].phase \in {"idle", "failed"} /\ ~Loaded(c)
  BY DEF Sight, IdlersRest
<1>2. CASE Minute(c)
  <2>1. UNCHANGED <<online, wanted, calls, cqi, conn, idlers>>
    BY <1>2 DEF Minute
  <2> QED  BY <2>1 DEF Sight, LoadedPhases, IdlersRest, Pursued, HasDownload, Loaded
<1>3. CASE Revive(c)
  <2>1. wanted' = wanted /\ cqi' = cqi /\ idlers' = idlers \ {c}
    BY <1>3 DEF Revive
  <2>2. CASE c \in idlers
    <3> DEFINE s == [phase |-> "added", user |-> conn[c].user, download |-> conn[c].download]
    <3>1. conn' = [conn EXCEPT ![c] = s]
      BY <1>3, <2>2 DEF Revive, Goes
    <3>2. ~Loaded(c) /\ ~s.download
      BY <1>1, <1>i, <2>2 DEF Loaded
    <3> HIDE DEF s
    <3> QED  BY <1>a, <2>1, <3>1, <3>2
  <2>3. CASE c \notin idlers
    <3>1. conn' = conn /\ idlers' = idlers
      BY <1>3, <2>1, <2>3 DEF Revive
    <3> QED  BY <1>1, <2>1, <3>1 DEF Sight, LoadedPhases, IdlersRest, Pursued, HasDownload, Loaded
  <2> QED  BY <2>2, <2>3
<1>4. CASE EndDownload(c)
  <2> DEFINE s == [phase |-> "added", user |-> conn[c].user, download |-> FALSE]
  <2>1. /\ conn[c].phase = "transfer" /\ cqi' = cqi /\ idlers' = idlers
        /\ conn' = [conn EXCEPT ![c] = s]
        /\ wanted' = wanted \/ wanted' = [wanted EXCEPT ![u] = @ + 1]
    BY <1>4, <1>u DEF EndDownload, Phase
  <2>2. ~s.download /\ c \notin idlers
    BY <1>i, <2>1
  <2> HIDE DEF s
  <2>3. Active(u)
    BY <1>u, <2>1 DEF HasItem, Associated, AssociatedPhases
  <2>4. \A v \in online : wanted'[v] > 0 => wanted[v] > 0 \/ cqi'[v].state # "none"
    BY <2>1, <2>3 DEF Typed, Active
  <2> QED  BY <1>a, <2>1, <2>2, <2>3, <2>4 DEF Active
<1>5. CASE FailDownload(c)
  <2> DEFINE s == [phase |-> "closing", user |-> conn[c].user, download |-> FALSE]
  <2>1. /\ conn[c].phase = "transfer" /\ idlers' = idlers
        /\ conn' = [conn EXCEPT ![c] = s]
        /\ wanted' = [wanted EXCEPT ![u] = @ + 1] /\ PutBack(u)
    BY <1>5, <1>u DEF FailDownload, Phase
  <2>2. ~s.download /\ c \notin idlers
    BY <1>i, <2>1
  <2> HIDE DEF s
  <2>3. /\ \A v \in Users : cqi[v].state # "none" => cqi'[v].state # "none"
        /\ u \in online => cqi'[u].state # "none"
    BY <2>1, PutBackCalls
  <2>4. \A v \in online : wanted'[v] > 0 => wanted[v] > 0 \/ cqi'[v].state # "none"
    BY <2>1, <2>3 DEF Typed
  <2> QED  BY <1>a, <2>1, <2>2, <2>3, <2>4
<1>6. CASE Failed(c)
  <2>1. wanted' = wanted /\ idlers' = idlers
    BY <1>6 DEF Failed
  <2>2. PICK q : q.state = "WAITING" /\ cqi' = [cqi EXCEPT ![u] = q]
    BY <1>6, <1>u DEF Failed
  <2>3. /\ \A v \in Users : cqi[v].state # "none" => cqi'[v].state # "none"
        /\ cqi'[u].state # "none"
    BY <2>2 DEF Typed
  <2>4. CASE conn[c].phase = "closing"
    <3>1. conn' = [conn EXCEPT ![c] = Free] /\ c \notin idlers
      BY <1>6, <1>i, <2>4 DEF Failed, Phase
    <3> QED  BY <1>a, <2>1, <2>3, <3>1 DEF Free
  <2>5. CASE conn[c].phase # "closing"
    <3> DEFINE s == [phase |-> "failed", user |-> conn[c].user, download |-> conn[c].download]
    <3>1. conn' = [conn EXCEPT ![c] = s]
      BY <1>6, <2>5 DEF Failed, Phase, Goes
    <3>2. s.phase = "failed" /\ (c \in idlers => ~s.download)
      BY <1>1, <1>i DEF Loaded
    <3> HIDE DEF s
    <3> QED  BY <1>a, <2>1, <2>3, <3>1, <3>2
  <2> QED  BY <2>4, <2>5
<1>7. CASE OnFailed(c)
  <2>1. conn' = [conn EXCEPT ![c] = Free] /\ c \notin idlers'
    BY <1>7 DEF OnFailed
  <2>2. Free.phase = "free"
    BY DEF Free
  <2>3. CASE conn[c].download
    <3>1. wanted' = [wanted EXCEPT ![u] = @ + 1] /\ PutBack(u)
      BY <1>7, <1>u, <2>3 DEF OnFailed
    <3>2. /\ \A v \in Users : cqi[v].state # "none" => cqi'[v].state # "none"
          /\ u \in online => cqi'[u].state # "none"
      BY <3>1, PutBackCalls
    <3>3. \A v \in online : wanted'[v] > 0 => wanted[v] > 0 \/ cqi'[v].state # "none"
      BY <3>1, <3>2 DEF Typed
    <3> QED  BY <1>a, <2>1, <2>2, <3>2, <3>3
  <2>4. CASE ~conn[c].download
    <3>1. wanted' = wanted /\ cqi' = cqi /\ ~Loaded(c)
      BY <1>7, <2>4 DEF OnFailed, Loaded
    <3> QED  BY <1>a, <2>1, <2>2, <3>1
  <2> QED  BY <2>3, <2>4
<1> QED  BY <1>2, <1>3, <1>4, <1>5, <1>6, <1>7

\* Every step keeps what is on offer in sight.
LEMMA NextSight == IInv /\ Sight /\ [Next]_vars => Sight'
<1> SUFFICES ASSUME IInv, Sight, [Next]_vars PROVE Sight'
  OBVIOUS
<1>1. CASE \/ \E u \in Users : \/ Add(u) \/ Request(u) \/ GoOffline(u) \/ ComeOnline(u)
                               \/ ForceAttempt(u) \/ Age(u) \/ NoAnswer(u)
           \/ Second
  BY <1>1, SightQueueSteps
<1>2. ASSUME NEW c \in Conns,
             \/ \E u \in Users : Answer(u, c) \/ PeerConnects(u, c)
             \/ MyNick(c) \/ LoseHandshake(c) \/ Refuse(c) \/ AddDownloadConnection(c)
             \/ CheckDownloads(c) \/ GetDownload(c) \/ BecomeIdle(c)
      PROVE  Sight'
  BY <1>2, SightEmptySteps
<1>3. ASSUME NEW c \in Conns,
             \/ Minute(c) \/ Revive(c) \/ EndDownload(c) \/ FailDownload(c)
             \/ Failed(c) \/ OnFailed(c)
      PROVE  Sight'
  BY <1>3, SightLoadedSteps
<1>4. CASE UNCHANGED vars
  BY <1>4 DEF vars, Sight, LoadedPhases, IdlersRest, Pursued, HasDownload, Loaded
<1> QED  BY <1>1, <1>2, <1>3, <1>4 DEF Next

\* getDownloadConnection, the removal of items in on(Second), addSource's trust
\* in a running download and the handlers of a connection's end never lose sight
\* of something on offer.
THEOREM WantedIsPursuedTheorem == Spec => []WantedIsPursued
<1>1. Init => IInv /\ Sight
  BY InitIInv, InitSight
<1>2. (IInv /\ Sight) /\ [Next]_vars => (IInv /\ Sight)'
  BY NextIInv, NextSight
<1>3. IInv /\ Sight => WantedIsPursued
  BY HoldingLoaded DEF IInv, Sight, Pursued, WantedIsPursued
<1> QED  BY <1>1, <1>2, <1>3, PTL DEF Spec

-----------------------------------------------------------------------------
(* The bounds.  An item is on offer or held by a connection, and only Add  *)
(* makes one: what a connection puts back it was given before.             *)

RestTyped ==
    /\ calls \subseteq Users
    /\ asked \in [Users -> 0 .. MaxAsked]
    /\ idlers \subseteq Conns /\ revives \subseteq Conns /\ kicked \subseteq Conns
    /\ events \in 0 .. MaxEvents

\* A transfer has a Download: with LoadedPhases, it is put back once.
TransfersHold == \A c \in Conns : conn[c].phase = "transfer" => conn[c].download

Fits ==
    \A u \in Users :
        IsFiniteSet(Holding(u)) /\ wanted[u] + Cardinality(Holding(u)) <= MaxItems

BoundInv == RestTyped /\ TransfersHold /\ Fits

\* What u's connections hold, before and after a step.
LEMMA HeldBy ==
    ASSUME Typed
    PROVE  \A u, c : c \in Holding(u) <=> c \in Conns /\ Loaded(c) /\ conn[c].user = u
<1>1. \A c \in Conns : conn[c].phase \in Phases
  BY DEF Typed, ConnStates, Free, Phases
<1> QED  BY <1>1 DEF Holding, Of, Loaded

\* Who holds a connection after a step, in terms of the primed variables.
LEMMA HeldByNext ==
    ASSUME Typed'
    PROVE  \A u, c : c \in Holding(u)' <=> c \in Conns /\ Loaded(c)' /\ conn'[c].user = u
<1>1. \A c \in Conns : conn'[c].phase \in Phases
  BY DEF Typed, ConnStates, Free, Phases
<1> QED  BY <1>1 DEF Holding, Of, Loaded

\* A connection that stays loaded or stays empty.
LEMMA HoldingKept ==
    ASSUME Typed, Typed', NEW c \in Conns, NEW s, conn' = [conn EXCEPT ![c] = s],
           s.phase # "free" /\ s.download <=> Loaded(c),
           Loaded(c) => s.user = conn[c].user
    PROVE  \A u \in Users : Holding(u)' = Holding(u)
<1>1. \A d \in Conns : conn'[d] = IF d = c THEN s ELSE conn[d]
  BY DEF Typed
<1>2. \A d \in Conns : (Loaded(d)' <=> Loaded(d)) /\ (Loaded(d) => conn'[d].user = conn[d].user)
  BY <1>1 DEF Loaded
<1>3. ASSUME NEW u \in Users PROVE \A d : d \in Holding(u)' <=> d \in Holding(u)
  BY <1>2, HeldBy, HeldByNext
<1> QED  BY <1>3

\* A connection that is unloaded.
LEMMA HoldingLess ==
    ASSUME Typed, Typed', NEW c \in Conns, NEW s, conn' = [conn EXCEPT ![c] = s],
           Loaded(c), ~(s.phase # "free" /\ s.download)
    PROVE  /\ conn[c].user \in Users /\ c \in Holding(conn[c].user)
           /\ \A u \in Users : Holding(u)' = IF u = conn[c].user THEN Holding(u) \ {c}
                                             ELSE Holding(u)
<1>1. \A d \in Conns : conn'[d] = IF d = c THEN s ELSE conn[d]
  BY DEF Typed
<1>2. ~Loaded(c)' /\ \A d \in Conns \ {c} : (Loaded(d)' <=> Loaded(d)) /\ conn'[d] = conn[d]
  BY <1>1 DEF Loaded
<1>3. ASSUME NEW u \in Users
      PROVE  \A d : d \in Holding(u)' <=>
                d \in (IF u = conn[c].user THEN Holding(u) \ {c} ELSE Holding(u))
  BY <1>2, HeldBy, HeldByNext
<1>4. conn[c].user \in Users /\ c \in Holding(conn[c].user)
  BY UserOf, HeldBy DEF Loaded
<1> QED  BY <1>3, <1>4

\* A connection that is loaded.
LEMMA HoldingMore ==
    ASSUME Typed, Typed', NEW c \in Conns, NEW s, conn' = [conn EXCEPT ![c] = s],
           ~Loaded(c), s.phase # "free", s.download, s.user \in Users
    PROVE  /\ c \notin Holding(s.user)
           /\ \A u \in Users : Holding(u)' = IF u = s.user THEN Holding(u) \cup {c}
                                             ELSE Holding(u)
<1>1. \A d \in Conns : conn'[d] = IF d = c THEN s ELSE conn[d]
  BY DEF Typed
<1>2. /\ Loaded(c)' /\ conn'[c].user = s.user
      /\ \A d \in Conns \ {c} : (Loaded(d)' <=> Loaded(d)) /\ conn'[d] = conn[d]
  BY <1>1 DEF Loaded
<1>3. ASSUME NEW u \in Users
      PROVE  \A d : d \in Holding(u)' <=>
                d \in (IF u = s.user THEN Holding(u) \cup {c} ELSE Holding(u))
  BY <1>2, HeldBy, HeldByNext
<1>4. c \notin Holding(s.user)
  BY HeldBy
<1> QED  BY <1>3, <1>4

\* A step after which no user has more on offer and holds what he held.
LEMMA FitsKept ==
    ASSUME Fits, Typed, Typed', \A u \in Users : Holding(u)' = Holding(u),
           \A u \in Users : wanted'[u] <= wanted[u]
    PROVE  Fits'
<1> SUFFICES ASSUME NEW u \in Users
             PROVE  IsFiniteSet(Holding(u)') /\ wanted'[u] + Cardinality(Holding(u)') <= MaxItems
  BY DEF Fits
<1>1. IsFiniteSet(Holding(u)) /\ wanted[u] + Cardinality(Holding(u)) <= MaxItems
  BY DEF Fits
<1>2. Cardinality(Holding(u)) \in Nat /\ wanted[u] \in Nat /\ wanted'[u] \in Nat
  BY <1>1, FS_CardinalityType DEF Typed
<1> QED  BY <1>1, <1>2, ConnsAssumption

\* Putting back what was held.
LEMMA FitsPutBack ==
    ASSUME Fits, Typed, Typed', NEW c \in Conns, NEW s, conn' = [conn EXCEPT ![c] = s],
           Loaded(c), ~(s.phase # "free" /\ s.download),
           wanted' \in {wanted, [wanted EXCEPT ![conn[c].user] = wanted[conn[c].user] + 1]}
    PROVE  Fits'
<1> SUFFICES ASSUME NEW u \in Users
             PROVE  IsFiniteSet(Holding(u)') /\ wanted'[u] + Cardinality(Holding(u)') <= MaxItems
  BY DEF Fits
<1>1. IsFiniteSet(Holding(u)) /\ wanted[u] + Cardinality(Holding(u)) <= MaxItems
  BY DEF Fits
<1>2. Cardinality(Holding(u)) \in Nat /\ wanted[u] \in Nat /\ wanted'[u] \in Nat
  BY <1>1, FS_CardinalityType DEF Typed
<1>3. /\ conn[c].user \in Users /\ c \in Holding(conn[c].user)
      /\ Holding(u)' = IF u = conn[c].user THEN Holding(u) \ {c} ELSE Holding(u)
  BY HoldingLess
<1>4. CASE u = conn[c].user
  <2>1. IsFiniteSet(Holding(u)') /\ Cardinality(Holding(u)') = Cardinality(Holding(u)) - 1
    BY <1>1, <1>3, <1>4, FS_RemoveElement
  <2>2. wanted'[u] \in {wanted[u], wanted[u] + 1}
    BY <1>3, <1>4 DEF Typed
  <2> QED  BY <1>1, <1>2, <2>1, <2>2, ConnsAssumption
<1>5. CASE u # conn[c].user
  <2>1. wanted'[u] = wanted[u]
    BY <1>3, <1>5 DEF Typed
  <2> QED  BY <1>1, <1>3, <1>5, <2>1
<1> QED  BY <1>4, <1>5

\* getDownload takes an item off the offer.
LEMMA FitsTaken ==
    ASSUME Fits, Typed, Typed', NEW c \in Conns, NEW s, conn' = [conn EXCEPT ![c] = s],
           ~Loaded(c), s.phase # "free", s.download, s.user \in Users,
           wanted' = [wanted EXCEPT ![s.user] = wanted[s.user] - 1]
    PROVE  Fits'
<1> SUFFICES ASSUME NEW u \in Users
             PROVE  IsFiniteSet(Holding(u)') /\ wanted'[u] + Cardinality(Holding(u)') <= MaxItems
  BY DEF Fits
<1>1. IsFiniteSet(Holding(u)) /\ wanted[u] + Cardinality(Holding(u)) <= MaxItems
  BY DEF Fits
<1>2. Cardinality(Holding(u)) \in Nat /\ wanted[u] \in Nat
  BY <1>1, FS_CardinalityType DEF Typed
<1>3. /\ c \notin Holding(s.user)
      /\ Holding(u)' = IF u = s.user THEN Holding(u) \cup {c} ELSE Holding(u)
  BY HoldingMore
<1>4. wanted'[u] = IF u = s.user THEN wanted[u] - 1 ELSE wanted[u]
  BY DEF Typed
<1>5. CASE u = s.user
  <2>1. IsFiniteSet(Holding(u)') /\ Cardinality(Holding(u)') = Cardinality(Holding(u)) + 1
    BY <1>1, <1>3, <1>5, FS_AddElement
  <2> QED  BY <1>1, <1>2, <1>4, <1>5, <2>1, ConnsAssumption
<1>6. CASE u # s.user
  BY <1>1, <1>3, <1>4, <1>6
<1> QED  BY <1>5, <1>6

\* checkIdle only revives connections of the idle list.
LEMMA RevivesTyped ==
    ASSUME RestTyped, NEW u, GetDownloadConnection(u) \/ PutBack(u)
    PROVE  revives' \subseteq Conns
<1>1. CheckIdle(u) \/ revives' = revives
  BY DEF GetDownloadConnection, PutBack
<1>2. CASE CheckIdle(u)
  BY <1>2 DEF CheckIdle, RestTyped
<1> QED  BY <1>1, <1>2 DEF RestTyped

\* What happens from outside is counted, up to the bound.
LEMMA EventsTyped ==
    ASSUME RestTyped, Event \/ events' = events
    PROVE  events' \in 0 .. MaxEvents
BY ConnsAssumption DEF RestTyped, Event

\* The sets and counters of the queue, the timer and the hub.
LEMMA RestQueueSteps ==
    ASSUME RestTyped, NEW u \in Users,
           \/ Add(u) \/ Request(u) \/ GoOffline(u) \/ ComeOnline(u) \/ ForceAttempt(u)
           \/ Age(u) \/ NoAnswer(u)
    PROVE  RestTyped'
<1>1. /\ idlers' = idlers /\ kicked' = kicked
      /\ Event \/ events' = events
  BY DEF Add, Request, GoOffline, ComeOnline, ForceAttempt, Age, NoAnswer
<1>2. events' \in 0 .. MaxEvents
  BY <1>1, EventsTyped
<1>3. calls' \subseteq Users
  BY DEF RestTyped, Add, Request, GoOffline, ComeOnline, ForceAttempt, Age, NoAnswer
<1>4. asked' \in [Users -> 0 .. MaxAsked]
  <2>1. CASE NoAnswer(u)
    BY <2>1, ConnsAssumption DEF NoAnswer, RestTyped
  <2>2. CASE asked' = asked
    BY <2>2 DEF RestTyped
  <2> QED  BY <2>1, <2>2 DEF Add, Request, GoOffline, ComeOnline, ForceAttempt, Age
<1>5. revives' \subseteq Conns
  <2>1. CASE Request(u)
    BY <2>1, RevivesTyped DEF Request
  <2>2. CASE revives' = revives
    BY <2>2 DEF RestTyped
  <2> QED  BY <2>1, <2>2 DEF Add, GoOffline, ComeOnline, ForceAttempt, Age, NoAnswer
<1> QED  BY <1>1, <1>2, <1>3, <1>4, <1>5 DEF RestTyped

\* on(Second) leaves the counters and event lists within their types.
LEMMA RestSecond ==
    ASSUME RestTyped, Second
    PROVE  RestTyped'
<1>1. UNCHANGED <<calls, idlers, revives, kicked, events>>
  BY DEF Second
<1>2. PICK first :
         asked' = [u \in Users |-> IF u \in first /\ asked[u] < MaxAsked
                                   THEN asked[u] + 1 ELSE asked[u]]
  BY DEF Second
<1>3. asked' \in [Users -> 0 .. MaxAsked]
  BY <1>2, ConnsAssumption DEF RestTyped
<1> QED  BY <1>1, <1>3 DEF RestTyped

\* Those of a connection.
LEMMA RestConnSteps ==
    ASSUME RestTyped, NEW c \in Conns,
           \/ \E u \in Users : Answer(u, c) \/ PeerConnects(u, c)
           \/ Minute(c) \/ MyNick(c) \/ AddDownloadConnection(c) \/ LoseHandshake(c) \/ Refuse(c)
           \/ CheckDownloads(c) \/ GetDownload(c) \/ BecomeIdle(c) \/ Revive(c)
           \/ EndDownload(c) \/ FailDownload(c) \/ Failed(c) \/ OnFailed(c)
    PROVE  RestTyped'
<1>1. CASE \E u \in Users : Answer(u, c) \/ PeerConnects(u, c)
  <2>1. PICK u \in Users : Answer(u, c) \/ PeerConnects(u, c)
    BY <1>1
  <2>2. /\ UNCHANGED <<calls, idlers, revives, kicked>>
        /\ Event \/ events' = events
    BY <2>1 DEF Answer, PeerConnects, Accept
  <2>3. asked' \in [Users -> 0 .. MaxAsked]
    <3>1. CASE Answer(u, c)
      BY <3>1, ConnsAssumption DEF Answer, RestTyped
    <3>2. CASE PeerConnects(u, c)
      BY <3>2 DEF PeerConnects, RestTyped
    <3> QED  BY <2>1, <3>1, <3>2
  <2>4. events' \in 0 .. MaxEvents
    BY <2>2, EventsTyped
  <2> QED  BY <2>2, <2>3, <2>4 DEF RestTyped
<1>2. CASE \/ Minute(c) \/ MyNick(c) \/ AddDownloadConnection(c) \/ LoseHandshake(c) \/ Refuse(c)
           \/ CheckDownloads(c) \/ GetDownload(c) \/ BecomeIdle(c) \/ Revive(c)
  <2>1. /\ calls' = calls /\ asked' = asked
        /\ idlers' \subseteq idlers \cup {c} /\ revives' \subseteq revives
        /\ kicked' \subseteq kicked \cup {c}
        /\ Event \/ events' = events
    BY <1>2 DEF Minute, MyNick, AddDownloadConnection, LoseHandshake, Refuse, CheckDownloads,
                GetDownload, BecomeIdle, Revive
  <2>2. events' \in 0 .. MaxEvents
    BY <2>1, EventsTyped
  <2> QED  BY <2>1, <2>2 DEF RestTyped
<1>3. CASE EndDownload(c) \/ FailDownload(c) \/ Failed(c) \/ OnFailed(c)
  <2>1. /\ calls' = calls /\ asked' = asked
        /\ idlers' \subseteq idlers /\ kicked' \subseteq kicked
        /\ Event \/ events' = events
    BY <1>3 DEF EndDownload, FailDownload, Failed, OnFailed
  <2>2. events' \in 0 .. MaxEvents
    BY <2>1, EventsTyped
  <2>3. PutBack(conn[c].user) \/ revives' \subseteq revives
    BY <1>3 DEF EndDownload, FailDownload, Failed, OnFailed
  <2>4. revives' \subseteq Conns
    BY <2>3, RevivesTyped DEF RestTyped
  <2> QED  BY <2>1, <2>2, <2>4 DEF RestTyped
<1> QED  BY <1>1, <1>2, <1>3

\* Every step of the sets and counters.
LEMMA NextRest == RestTyped /\ [Next]_vars => RestTyped'
<1> SUFFICES ASSUME RestTyped, [Next]_vars PROVE RestTyped'
  OBVIOUS
<1>1. ASSUME NEW u \in Users,
             \/ Add(u) \/ Request(u) \/ GoOffline(u) \/ ComeOnline(u) \/ ForceAttempt(u)
             \/ Age(u) \/ NoAnswer(u)
      PROVE  RestTyped'
  BY <1>1, RestQueueSteps
<1>2. ASSUME NEW c \in Conns,
             \/ \E u \in Users : Answer(u, c) \/ PeerConnects(u, c)
             \/ Minute(c) \/ MyNick(c) \/ AddDownloadConnection(c) \/ LoseHandshake(c)
             \/ Refuse(c) \/ CheckDownloads(c) \/ GetDownload(c) \/ BecomeIdle(c) \/ Revive(c)
             \/ EndDownload(c) \/ FailDownload(c) \/ Failed(c) \/ OnFailed(c)
      PROVE  RestTyped'
  BY <1>2, RestConnSteps
<1>3. CASE Second
  BY <1>3, RestSecond
<1>4. CASE UNCHANGED vars
  BY <1>4 DEF vars, RestTyped
<1> QED  BY <1>1, <1>2, <1>3, <1>4 DEF Next

\* What a step on connection c has to show of its transfers.
LEMMA TransfersKept ==
    ASSUME Typed, TransfersHold, NEW c \in Conns, NEW s, conn' = [conn EXCEPT ![c] = s],
           s.phase = "transfer" => s.download
    PROVE  TransfersHold'
BY DEF Typed, TransfersHold

\* A connection that holds nothing, before and after.
LEMMA EmptyMove ==
    ASSUME Typed, Typed', TransfersHold, Fits, NEW c \in Conns, NEW s,
           conn' = [conn EXCEPT ![c] = s], ~Loaded(c), ~(s.phase # "free" /\ s.download),
           s.phase # "transfer", \A u \in Users : wanted'[u] <= wanted[u]
    PROVE  TransfersHold' /\ Fits'
<1>1. TransfersHold'
  BY TransfersKept
<1>2. \A u \in Users : Holding(u)' = Holding(u)
  BY HoldingKept
<1> QED  BY <1>1, <1>2, FitsKept

\* The steps that leave the connections alone: only Add raises an offer, and
\* only below the bound.
LEMMA FitsQueueSteps ==
    ASSUME IInv, IInv', TransfersHold, Fits,
           \/ \E u \in Users : \/ Add(u) \/ Request(u) \/ GoOffline(u) \/ ComeOnline(u)
                               \/ ForceAttempt(u) \/ Age(u) \/ NoAnswer(u)
           \/ \E c \in Conns : Minute(c)
           \/ Second \/ UNCHANGED vars
    PROVE  TransfersHold' /\ Fits'
<1> USE DEF IInv
<1>1. conn' = conn
  BY DEF Add, Request, GoOffline, ComeOnline, ForceAttempt, Age, NoAnswer, Minute, Second, vars
<1>2. TransfersHold'
  BY <1>1 DEF TransfersHold
<1>3. \A u : Holding(u)' = Holding(u)
  BY <1>1 DEF Holding, Of
<1>4. CASE \E u \in Users : Add(u)
  <2>1. PICK u \in Users : Add(u)
    BY <1>4
  <2>2. /\ wanted[u] + Cardinality(Holding(u)) < MaxItems
        /\ wanted' = [wanted EXCEPT ![u] = wanted[u] + 1]
    BY <2>1 DEF Add
  <2>3. ASSUME NEW v \in Users
        PROVE  IsFiniteSet(Holding(v)') /\ wanted'[v] + Cardinality(Holding(v)') <= MaxItems
    <3>1. IsFiniteSet(Holding(v)) /\ wanted[v] + Cardinality(Holding(v)) <= MaxItems
      BY DEF Fits
    <3>2. Cardinality(Holding(v)) \in Nat /\ wanted[v] \in Nat
      BY <3>1, FS_CardinalityType DEF Typed
    <3>3. wanted'[v] = IF v = u THEN wanted[v] + 1 ELSE wanted[v]
      BY <2>2 DEF Typed
    <3> QED  BY <1>3, <2>2, <3>1, <3>2, <3>3, ConnsAssumption
  <2>4. Fits'
    BY <2>3 DEF Fits
  <2> QED  BY <1>2, <2>4
<1>5. CASE wanted' = wanted
  <2>1. \A u \in Users : wanted'[u] <= wanted[u]
    BY <1>5 DEF Typed
  <2>2. Fits'
    BY <1>3, <2>1, FitsKept
  <2> QED  BY <1>2, <2>2
<1> QED
  BY <1>4, <1>5 DEF Request, GoOffline, ComeOnline, ForceAttempt, Age, NoAnswer, Minute,
                    Second, vars

\* Nobody's offer grows.
LEMMA SameOffer ==
    ASSUME Typed, wanted' = wanted
    PROVE  \A u \in Users : wanted'[u] <= wanted[u]
BY DEF Typed

\* The steps of a connection that holds nothing yet.
LEMMA FitsEmptySteps ==
    ASSUME IInv, IInv', Sight, TransfersHold, Fits, NEW c \in Conns,
           \/ \E u \in Users : Answer(u, c) \/ PeerConnects(u, c)
           \/ MyNick(c) \/ LoseHandshake(c) \/ Refuse(c) \/ AddDownloadConnection(c)
           \/ CheckDownloads(c) \/ GetDownload(c) \/ BecomeIdle(c)
    PROVE  TransfersHold' /\ Fits'
<1> USE DEF IInv
<1>1. conn[c].phase \in {"free", "connected", "handshake", "new", "added", "asking", "empty"}
  BY DEF Answer, PeerConnects, Accept, MyNick, LoseHandshake, Refuse, AddDownloadConnection,
         CheckDownloads, GetDownload, BecomeIdle, Phase
<1>2. ~Loaded(c)
  BY <1>1 DEF Sight, LoadedPhases
<1>a. ASSUME NEW s, conn' = [conn EXCEPT ![c] = s], ~(s.phase # "free" /\ s.download),
             s.phase # "transfer", \A u \in Users : wanted'[u] <= wanted[u]
      PROVE  TransfersHold' /\ Fits'
  BY <1>2, <1>a, EmptyMove
<1>b. ASSUME NEW p \in {"handshake", "new", "asking", "empty", "idle", "closing"},
             conn[c].phase # "free", conn' = Goes(c, p),
             \A u \in Users : wanted'[u] <= wanted[u]
      PROVE  TransfersHold' /\ Fits'
  <2> DEFINE s == [phase |-> p, user |-> conn[c].user, download |-> conn[c].download]
  <2>1. conn' = [conn EXCEPT ![c] = s] /\ s.phase # "transfer" /\ ~s.download
    BY <1>2, <1>b DEF Goes, Loaded
  <2> HIDE DEF s
  <2> QED  BY <1>a, <1>b, <2>1
<1>c. ASSUME conn' = [conn EXCEPT ![c] = Free], \A u \in Users : wanted'[u] <= wanted[u]
      PROVE  TransfersHold' /\ Fits'
  <2>1. Free.phase = "free"
    BY DEF Free
  <2> QED  BY <1>a, <1>c, <2>1
<1>3. CASE \E u \in Users : Answer(u, c) \/ PeerConnects(u, c)
  <2>1. PICK u \in Users :
           /\ conn' = [conn EXCEPT ![c] = [phase |-> "connected", user |-> u, download |-> FALSE]]
           /\ wanted' = wanted
    BY <1>3 DEF Answer, PeerConnects, Accept
  <2> DEFINE s == [phase |-> "connected", user |-> u, download |-> FALSE]
  <2>2. conn' = [conn EXCEPT ![c] = s] /\ s.phase # "transfer" /\ ~s.download
    BY <2>1
  <2> HIDE DEF s
  <2> QED  BY <1>a, <2>1, <2>2, SameOffer
<1>4. CASE MyNick(c) \/ LoseHandshake(c) \/ AddDownloadConnection(c)
  <2>1. wanted' = wanted /\ conn[c].phase # "free"
    BY <1>4 DEF MyNick, LoseHandshake, AddDownloadConnection, Phase
  <2>2. conn' \in {[conn EXCEPT ![c] = Free], Goes(c, "handshake"), Goes(c, "new")}
    BY <1>4 DEF MyNick, LoseHandshake, AddDownloadConnection, Discard
  <2> QED  BY <1>b, <1>c, <2>1, <2>2, SameOffer
<1>5. CASE Refuse(c)
  <2>1. /\ conn[c].phase # "free" /\ wanted' = [wanted EXCEPT ![conn[c].user] = 0]
        /\ conn' \in {[conn EXCEPT ![c] = Free], Goes(c, "closing")}
    BY <1>5 DEF Refuse, Phase, Discard
  <2>2. \A u \in Users : wanted'[u] <= wanted[u]
    BY <2>1 DEF Typed
  <2> QED  BY <1>b, <1>c, <2>1, <2>2
<1>6. CASE CheckDownloads(c) \/ BecomeIdle(c)
  <2>1. wanted' = wanted /\ conn[c].phase # "free"
    BY <1>6 DEF CheckDownloads, BecomeIdle, Phase
  <2>2. conn' \in {Goes(c, "asking"), Goes(c, "closing"), Goes(c, "idle")}
    BY <1>6 DEF CheckDownloads, BecomeIdle
  <2> QED  BY <1>b, <2>1, <2>2, SameOffer
<1>7. CASE GetDownload(c)
  <2>1. conn[c].phase # "free" /\ conn[c].user \in Users
    BY <1>7, UserOf DEF GetDownload, Phase
  <2>2. CASE conn' = Goes(c, "empty") /\ wanted' = wanted
    BY <1>b, <2>1, <2>2, SameOffer
  <2>3. CASE /\ conn' = [conn EXCEPT ![c] = [phase |-> "transfer", user |-> conn[c].user,
                                             download |-> TRUE]]
             /\ wanted' = [wanted EXCEPT ![conn[c].user] = wanted[conn[c].user] - 1]
    <3> DEFINE s == [phase |-> "transfer", user |-> conn[c].user, download |-> TRUE]
    <3>1. /\ conn' = [conn EXCEPT ![c] = s] /\ s.phase # "free" /\ s.download
          /\ s.user = conn[c].user
      BY <2>3
    <3> HIDE DEF s
    <3>2. TransfersHold'
      BY <3>1, TransfersKept
    <3>3. Fits'
      BY <1>2, <2>1, <2>3, <3>1, FitsTaken
    <3> QED  BY <3>2, <3>3
  <2> QED  BY <1>7, <2>2, <2>3 DEF GetDownload
<1> QED  BY <1>3, <1>4, <1>5, <1>6, <1>7

\* The steps of a connection that may hold a download: it is put back once.
LEMMA FitsLoadedSteps ==
    ASSUME IInv, IInv', Sight, TransfersHold, Fits, NEW c \in Conns,
           Revive(c) \/ EndDownload(c) \/ FailDownload(c) \/ Failed(c) \/ OnFailed(c)
    PROVE  TransfersHold' /\ Fits'
<1> USE DEF IInv
<1>1. CASE Revive(c)
  <2>1. wanted' = wanted
    BY <1>1 DEF Revive
  <2>2. CASE c \in idlers
    <3> DEFINE s == [phase |-> "added", user |-> conn[c].user, download |-> conn[c].download]
    <3>1. conn' = [conn EXCEPT ![c] = s] /\ s.phase # "transfer"
      BY <1>1, <2>2 DEF Revive, Goes
    <3>2. conn[c].phase # "free" /\ ~Loaded(c) /\ ~s.download
      BY <2>2 DEF Sight, IdlersRest, Loaded
    <3> HIDE DEF s
    <3> QED  BY <2>1, <3>1, <3>2, EmptyMove, SameOffer
  <2>3. CASE c \notin idlers
    <3>1. conn' = conn
      BY <1>1, <2>3 DEF Revive
    <3>2. \A u : Holding(u)' = Holding(u)
      BY <3>1 DEF Holding, Of
    <3>3. TransfersHold'
      BY <3>1 DEF TransfersHold
    <3> QED  BY <2>1, <3>2, <3>3, FitsKept, SameOffer
  <2> QED  BY <2>2, <2>3
<1>2. CASE EndDownload(c) \/ FailDownload(c)
  <2>1. PICK p \in {"added", "closing"} :
           conn' = [conn EXCEPT ![c] = [phase |-> p, user |-> conn[c].user, download |-> FALSE]]
    BY <1>2 DEF EndDownload, FailDownload
  <2> DEFINE s == [phase |-> p, user |-> conn[c].user, download |-> FALSE]
  <2>2. conn' = [conn EXCEPT ![c] = s] /\ s.phase # "transfer" /\ ~s.download
    BY <2>1
  <2> HIDE DEF s
  <2>3. conn[c].phase = "transfer"
    BY <1>2 DEF EndDownload, FailDownload, Phase
  <2>4. Loaded(c)
    BY <2>3 DEF TransfersHold, Loaded
  <2>5. wanted' \in {wanted, [wanted EXCEPT ![conn[c].user] = wanted[conn[c].user] + 1]}
    BY <1>2 DEF EndDownload, FailDownload
  <2>6. Fits'
    BY <2>2, <2>4, <2>5, FitsPutBack
  <2>7. TransfersHold'
    BY <2>2, TransfersKept
  <2> QED  BY <2>6, <2>7
<1>3. CASE Failed(c)
  <2>1. wanted' = wanted /\ conn[c].phase # "free"
    BY <1>3 DEF Failed
  <2>2. CASE conn[c].phase = "closing"
    <3>1. conn' = [conn EXCEPT ![c] = Free] /\ Free.phase = "free"
      BY <1>3, <2>2 DEF Failed, Phase, Free
    <3>2. ~Loaded(c)
      BY <2>2 DEF Sight, LoadedPhases
    <3> QED  BY <2>1, <3>1, <3>2, EmptyMove, SameOffer
  <2>3. CASE conn[c].phase # "closing"
    <3> DEFINE s == [phase |-> "failed", user |-> conn[c].user, download |-> conn[c].download]
    <3>1. /\ conn' = [conn EXCEPT ![c] = s] /\ s.phase = "failed" /\ s.user = conn[c].user
          /\ s.phase # "free" /\ s.download <=> Loaded(c)
      BY <1>3, <2>1, <2>3 DEF Failed, Phase, Goes, Loaded
    <3> HIDE DEF s
    <3>2. \A u \in Users : Holding(u)' = Holding(u)
      BY <3>1, HoldingKept
    <3>3. Fits'
      BY <2>1, <3>2, FitsKept, SameOffer
    <3>4. TransfersHold'
      BY <3>1, TransfersKept
    <3> QED  BY <3>3, <3>4
  <2> QED  BY <2>2, <2>3
<1>4. CASE OnFailed(c)
  <2>1. conn' = [conn EXCEPT ![c] = Free] /\ Free.phase = "free" /\ conn[c].phase = "failed"
    BY <1>4 DEF OnFailed, Phase, Free
  <2>2. CASE conn[c].download
    <3>1. Loaded(c) /\ wanted' = [wanted EXCEPT ![conn[c].user] = wanted[conn[c].user] + 1]
      BY <1>4, <2>1, <2>2 DEF OnFailed, Loaded
    <3>2. Fits'
      BY <2>1, <3>1, FitsPutBack
    <3>3. TransfersHold'
      BY <2>1, TransfersKept
    <3> QED  BY <3>2, <3>3
  <2>3. CASE ~conn[c].download
    <3>1. ~Loaded(c) /\ wanted' = wanted
      BY <1>4, <2>3 DEF OnFailed, Loaded
    <3> QED  BY <2>1, <3>1, EmptyMove, SameOffer
  <2> QED  BY <2>2, <2>3
<1> QED  BY <1>1, <1>2, <1>3, <1>4

\* Initially one item a user is on offer and no connection is up.
LEMMA InitBound == Init => BoundInv
<1> SUFFICES ASSUME Init PROVE BoundInv
  OBVIOUS
<1>1. RestTyped
  BY ConnsAssumption DEF Init, RestTyped
<1>2. \A c \in Conns : conn[c].phase = "free"
  BY DEF Init, Free
<1>3. TransfersHold
  BY <1>2 DEF TransfersHold
<1>4. \A u : Holding(u) = {}
  BY <1>2 DEF Holding, Of
<1>5. IsFiniteSet({}) /\ Cardinality({}) = 0
  BY FS_EmptySet
<1>6. \A u \in Users : wanted[u] = 1
  BY DEF Init
<1>7. Fits
  BY <1>4, <1>5, <1>6, ConnsAssumption DEF Fits
<1> QED  BY <1>1, <1>3, <1>7 DEF BoundInv

\* Every step keeps the bound invariant, given the layers under it before and after.
LEMMA NextBound == IInv /\ IInv' /\ Sight /\ BoundInv /\ [Next]_vars => BoundInv'
<1> SUFFICES ASSUME IInv, IInv', Sight, BoundInv, [Next]_vars PROVE BoundInv'
  OBVIOUS
<1>1. RestTyped'
  BY NextRest DEF BoundInv
<1>2. TransfersHold' /\ Fits'
  <2> USE DEF BoundInv
  <2>1. CASE \/ \E u \in Users : \/ Add(u) \/ Request(u) \/ GoOffline(u) \/ ComeOnline(u)
                                 \/ ForceAttempt(u) \/ Age(u) \/ NoAnswer(u)
             \/ \E c \in Conns : Minute(c)
             \/ Second \/ UNCHANGED vars
    BY <2>1, FitsQueueSteps
  <2>2. ASSUME NEW c \in Conns,
               \/ \E u \in Users : Answer(u, c) \/ PeerConnects(u, c)
               \/ MyNick(c) \/ LoseHandshake(c) \/ Refuse(c) \/ AddDownloadConnection(c)
               \/ CheckDownloads(c) \/ GetDownload(c) \/ BecomeIdle(c)
        PROVE  TransfersHold' /\ Fits'
    BY <2>2, FitsEmptySteps
  <2>3. ASSUME NEW c \in Conns,
               Revive(c) \/ EndDownload(c) \/ FailDownload(c) \/ Failed(c) \/ OnFailed(c)
        PROVE  TransfersHold' /\ Fits'
    BY <2>3, FitsLoadedSteps
  <2> QED  BY <2>1, <2>2, <2>3 DEF Next
<1> QED  BY <1>1, <1>2 DEF BoundInv

\* The invariant gives the types, the bound on what is on offer included.
LEMMA BoundTypes == IInv /\ BoundInv => TypeOK
<1> SUFFICES ASSUME IInv, BoundInv PROVE TypeOK
  OBVIOUS
<1>1. wanted \in [Users -> 0 .. MaxItems]
  <2>1. ASSUME NEW u \in Users PROVE wanted[u] \in 0 .. MaxItems
    <3>1. IsFiniteSet(Holding(u)) /\ wanted[u] + Cardinality(Holding(u)) <= MaxItems
      BY DEF BoundInv, Fits
    <3>2. Cardinality(Holding(u)) \in Nat /\ wanted[u] \in Nat
      BY <3>1, FS_CardinalityType DEF IInv, Typed
    <3> QED  BY <3>1, <3>2, ConnsAssumption
  <2> QED  BY <2>1 DEF IInv, Typed
<1> QED  BY <1>1 DEF IInv, Typed, BoundInv, RestTyped, TypeOK, ConnStates

\* The state stays in its types: what the handlers of a connection's end put
\* back (putDownload) never exceeds what getDownload took, so a user's offers
\* stay below what the queue was given.
THEOREM ConnectionTypes == Spec => []TypeOK
<1>1. Init => IInv /\ Sight /\ BoundInv
  BY InitIInv, InitSight, InitBound
<1>2. (IInv /\ Sight /\ BoundInv) /\ [Next]_vars => (IInv /\ Sight /\ BoundInv)'
  BY NextIInv, NextSight, NextBound
<1>3. IInv /\ Sight /\ BoundInv => TypeOK
  BY BoundTypes
<1> QED  BY <1>1, <1>2, <1>3, PTL DEF Spec
=============================================================================
