---------------------------- MODULE UploadManager ----------------------------
(***************************************************************************)
(* Upload slots, mini slots, the users waiting for one and the users told  *)
(* to come back: UploadManager, and ConnectionManager's rule of one upload *)
(* connection per user.                                                    *)
(*                                                                         *)
(* Every upload connection has a socket thread of its own that runs its    *)
(* handlers one after the other; the timer and the user interface are      *)
(* threads too.  An action is one critical section of UploadManager::cs.   *)
(* prepareFile decides on a slot in one, opens the file with no lock held  *)
(* and counts the slot in another.  removeConnection counts with no lock   *)
(* at all: its running-- and extra-- are a load and a store, which race    *)
(* with each other and with the locked updates of prepareFile.             *)
(***************************************************************************)
EXTENDS Integers, Sequences, FiniteSets, SequencesExt

CONSTANTS
    Users,
    Conns,          \* UserConnection objects with FLAG_UPLOAD
    NmdcUsers,      \* users whose client asks with $Get and $Send
    Favorites,      \* FavoriteManager::hasSlot
    MiniUsers,      \* users whose client has FLAG_SUPPORTS_MINISLOTS
    Operators,      \* users whose connections have FLAG_OP
    Slots,          \* SETTING(SLOTS)
    MaxExtraSlots,  \* SETTING(MAX_EXTRA_SLOTS), at least 1
    AutoSlots,      \* SETTING(MIN_UPLOAD_SPEED) is not 0
    NoUser,
    MaxPrivileged,  \* BOUND: slots reserved or granted automatically
    MaxOverlaps     \* BOUND: counter updates that overlap in a behaviour

ASSUME ConstAssumption ==
    /\ NmdcUsers \cup Favorites \cup MiniUsers \cup Operators \subseteq Users
    /\ IsFiniteSet(Users) /\ IsFiniteSet(Conns) /\ NoUser \notin Users
    /\ Slots \in Nat /\ MaxExtraSlots \in Nat \ {0} /\ AutoSlots \in BOOLEAN
    /\ MaxPrivileged \in Nat /\ MaxOverlaps \in Nat

VARIABLES
    st,             \* st[c]: what connection c and its thread are doing
    owner,          \* owner[c]: its user
    cqi,            \* users ConnectionManager has an upload item for
    hasSlot,        \* connections with FLAG_HASSLOT
    hasExtra,       \* connections with FLAG_HASEXTRASLOT
    decision,       \* decision[c]: the locals extraSlot and gotFullSlot
    uploads,        \* UploadManager::uploads, by connection
    running, extra, \* the counters
    todo,           \* todo[c]: the counters c, being removed, has to decrement
    reg,            \* reg[c]: the counter it has loaded and not yet stored
    waitingUsers, waitingFiles,
    connecting,     \* connectingUsers
    reserved,       \* reservedSlots
    recent,         \* lastGrant is less than 30 s ago
    online,
    overlaps,       \* HISTORY: updates made or begun while one was under way
    privileged      \* how much of MaxPrivileged is used up

counters == <<running, extra, todo, reg, overlaps>>
lists    == <<waitingUsers, waitingFiles, connecting>>
flags    == <<cqi, owner, hasSlot, hasExtra, uploads>>
privileges == <<reserved, recent, privileged>>
vars     == <<st, decision, flags, counters, lists, privileges, online>>

NoReg == [cell |-> "none", value |-> 0]

Init ==
    /\ st = [c \in Conns |-> "closed"] /\ owner = [c \in Conns |-> NoUser]
    /\ cqi = {} /\ hasSlot = {} /\ hasExtra = {} /\ uploads = {}
    /\ decision = [c \in Conns |-> "none"]
    /\ running = 0 /\ extra = 0
    /\ todo = [c \in Conns |-> {}] /\ reg = [c \in Conns |-> NoReg]
    /\ waitingUsers = <<>> /\ waitingFiles = {} /\ connecting = {}
    /\ reserved = {} /\ recent = FALSE /\ online = Users
    /\ overlaps = 0 /\ privileged = 0

\* One more slot is reserved or granted automatically.
Privilege == privileged < MaxPrivileged /\ privileged' = privileged + 1

Goto(c, s) == st' = [st EXCEPT ![c] = s]

-----------------------------------------------------------------------------
(* Helpers                                                                 *)

GetFreeSlots      == IF Slots > running THEN Slots - running ELSE 0
GetFreeExtraSlots == IF MaxExtraSlots > extra THEN MaxExtraSlots - extra ELSE 0

\* The free slots are for those who were told to come, or nobody is waiting.
HasFreeSlot(u) ==
    /\ GetFreeSlots > 0
    /\ (waitingFiles = {} /\ connecting = {}) \/ u \in connecting

Deserves(u) == u \in reserved \/ u \in Favorites \/ HasFreeSlot(u)

\* getAutoSlot, the upload speed being anything.
AutoSlot == AutoSlots /\ ~recent

AllowedMini(c) ==
    /\ owner[c] \in MiniUsers
    /\ c \in hasExtra \/ owner[c] \in Operators \/ GetFreeExtraSlots > 0

\* Mutant: only the list of files is cleared.
ClearUserFilesOnly(us) ==
    /\ waitingFiles' = waitingFiles \ us
    /\ UNCHANGED waitingUsers

\* clearUserFiles for each of us: who stays keeps his place before and after the
\* others who stay.
ClearUserFiles(us) ==
    LET stay == {i \in DOMAIN waitingUsers : waitingUsers[i] \notin us}
    IN  /\ waitingFiles' = waitingFiles \ (us \cap ToSet(waitingUsers))
        /\ \E at \in [1 .. Cardinality(stay) -> stay] :
              /\ \A i, j \in DOMAIN at : i < j => at[i] < at[j]
              /\ waitingUsers' = [i \in DOMAIN at |-> waitingUsers[at[i]]]

AddFailedUpload(u) ==
    /\ waitingUsers' = IF u \in ToSet(waitingUsers) THEN waitingUsers
                       ELSE Append(waitingUsers, u)
    /\ waitingFiles' = waitingFiles \cup {u}

-----------------------------------------------------------------------------
(* The life of an upload connection.                                       *)

\* Mutant: ConnectionManager does not look for the user's item.
ConnectAgain(c, u) ==
    /\ st[c] = "closed"
    /\ cqi' = cqi \cup {u}
    /\ owner' = [owner EXCEPT ![c] = u]
    /\ Goto(c, "get")
    /\ UNCHANGED <<hasSlot, hasExtra, uploads, decision, counters,
                   lists, privileges, online>>

\* ConnectionManager::addNewConnection, UploadManager::addConnection.
Connect(c, u) ==
    /\ st[c] = "closed"
    /\ u \notin cqi /\ cqi' = cqi \cup {u}
    /\ owner' = [owner EXCEPT ![c] = u]
    /\ Goto(c, "get")
    /\ UNCHANGED <<hasSlot, hasExtra, uploads, decision, counters,
                   lists, privileges, online>>

\* prepareFile up to the slot decision: on(Get) and on(GET) in STATE_GET ask
\* for a file small enough for a mini slot or for another one.
Decide(c, d) ==
    /\ st[c] = "get"
    /\ Goto(c, "opening")
    /\ decision' = [decision EXCEPT ![c] = d]
    /\ UNCHANGED <<flags, counters, lists, reserved, recent, online>>

KeepSlot(c)  == c \in hasSlot /\ Decide(c, "kept") /\ UNCHANGED privileged
FullSlot(c)  == /\ c \notin hasSlot /\ Deserves(owner[c])
                /\ Decide(c, "full") /\ UNCHANGED privileged
GrantAuto(c) == /\ c \notin hasSlot /\ ~Deserves(owner[c]) /\ AutoSlot
                /\ Decide(c, "full") /\ Privilege
ExtraSlot(c) == /\ c \notin hasSlot /\ ~Deserves(owner[c]) /\ AllowedMini(c)
                /\ Decide(c, "extra") /\ UNCHANGED privileged

\* No slot: the user is put on the list and the connection asked to close.
Refuse(c) ==
    /\ st[c] = "get"
    /\ c \notin hasSlot /\ ~Deserves(owner[c])
    /\ AddFailedUpload(owner[c])
    /\ UNCHANGED <<st, decision, flags, counters, connecting, privileges, online>>

\* The file cannot be opened: fileNotAvail, nothing was counted.
NotAvailable(c) ==
    /\ st[c] = "opening"
    /\ Goto(c, "get")
    /\ decision' = [decision EXCEPT ![c] = "none"]
    /\ UNCHANGED <<flags, counters, lists, privileges, online>>

\* Connections whose decrement of the counter is between load and store.
Racing(cell) == {d \in Conns : reg[d].cell = cell}

\* An increment or decrement under the lock.  Racing decrements that store
\* between its load and its store are overwritten: `lost'.
Count(cells, lost) ==
    /\ lost \subseteq UNION {Racing(cell) : cell \in cells}
    /\ todo' = [d \in Conns |-> IF d \in lost THEN todo[d] \ {reg[d].cell} ELSE todo[d]]
    /\ reg' = [d \in Conns |-> IF d \in lost THEN NoReg ELSE reg[d]]
    /\ IF \A cell \in cells : Racing(cell) = {} THEN UNCHANGED overlaps
       ELSE overlaps < MaxOverlaps /\ overlaps' = overlaps + 1

\* Mutant: the mini slot stays counted when its user gets a full one.
GrantFullKeepsExtra(c, lost) ==
    /\ decision[c] = "full"
    /\ Count({"running"}, lost)
    /\ hasSlot' = hasSlot \cup {c} /\ hasExtra' = hasExtra \ {c}
    /\ running' = running + 1 /\ UNCHANGED extra
    /\ ClearUserFiles({owner[c]})
    /\ connecting' = connecting \ {owner[c]}

GrantFull(c, lost) ==
    /\ decision[c] = "full"
    /\ Count({"running"} \cup (IF c \in hasExtra THEN {"extra"} ELSE {}), lost)
    /\ hasSlot' = hasSlot \cup {c} /\ hasExtra' = hasExtra \ {c}
    /\ running' = running + 1
    /\ extra' = IF c \in hasExtra THEN extra - 1 ELSE extra
    /\ ClearUserFiles({owner[c]})
    /\ connecting' = connecting \ {owner[c]}

GrantExtra(c, lost) ==
    /\ decision[c] = "extra"
    /\ Count(IF c \in hasExtra THEN {} ELSE {"extra"}, lost)
    /\ hasExtra' = hasExtra \cup {c}
    /\ extra' = IF c \in hasExtra THEN extra ELSE extra + 1
    /\ UNCHANGED <<hasSlot, running, lists>>

\* The second critical section of prepareFile; then on(Get) waits for $Send and
\* on(GET) transmits at once.
Grant(c) ==
    /\ st[c] = "opening"
    /\ Goto(c, IF owner[c] \in NmdcUsers THEN "send" ELSE "running")
    /\ decision' = [decision EXCEPT ![c] = "none"]
    /\ uploads' = uploads \cup {c}
    /\ \/ /\ decision[c] = "kept"
          /\ UNCHANGED <<hasSlot, hasExtra, counters, lists, reserved, recent>>
       \/ /\ \E lost \in SUBSET Conns : GrantFull(c, lost) \/ GrantExtra(c, lost)
          /\ recent' = AutoSlots     \* lastGrant, which only getAutoSlot reads
          /\ reserved' = reserved \ {owner[c]}
    /\ UNCHANGED <<cqi, owner, privileged, online>>

Send(c) ==
    /\ st[c] = "send"
    /\ Goto(c, "running")
    /\ UNCHANGED <<decision, flags, counters, lists, privileges, online>>

\* Mutant: the Upload stays in the list.
RemoveUploadNot(c) == UNCHANGED uploads

\* removeUpload.
RemoveUpload(c) == uploads' = uploads \ {c}

TransmitDone(c) ==
    /\ st[c] = "running"
    /\ Goto(c, "get")
    /\ RemoveUpload(c)
    /\ UNCHANGED <<cqi, owner, hasSlot, hasExtra, decision, counters, lists,
                   privileges, online>>

\* The socket fails; ConnectionManager, the first listener, drops its item.
Fail(c) ==
    /\ st[c] \in {"get", "send", "running"}
    /\ Goto(c, "failed")
    /\ cqi' = cqi \ {owner[c]}
    /\ UNCHANGED <<owner, hasSlot, hasExtra, uploads, decision, counters,
                   lists, privileges, online>>

\* What removeConnection has to decrement.
Held(c) == (IF c \in hasSlot THEN {"running"} ELSE {})
           \cup (IF c \in hasExtra THEN {"extra"} ELSE {})

Closed(c) == Goto(c, "closed") /\ owner' = [owner EXCEPT ![c] = NoUser]

\* UploadManager::on(Failed), the second one, up to removeConnection.
RemoveConnection(c) ==
    /\ st[c] = "failed"
    /\ RemoveUpload(c)
    /\ todo' = [todo EXCEPT ![c] = Held(c)]
    /\ hasSlot' = hasSlot \ {c} /\ hasExtra' = hasExtra \ {c}
    /\ IF Held(c) = {} THEN Closed(c) ELSE Goto(c, "removing") /\ UNCHANGED owner
    /\ UNCHANGED <<cqi, decision, running, extra, reg, overlaps, lists, privileges, online>>

\* running-- and extra-- of removeConnection; the connection is deleted then.
Load(c) ==
    /\ st[c] = "removing" /\ reg[c] = NoReg
    /\ \E cell \in todo[c] :
          /\ reg' = [reg EXCEPT ![c] =
                [cell |-> cell, value |-> IF cell = "running" THEN running ELSE extra]]
          /\ IF Racing(cell) = {} THEN UNCHANGED overlaps
             ELSE overlaps < MaxOverlaps /\ overlaps' = overlaps + 1
    /\ UNCHANGED <<st, decision, flags, running, extra, todo, lists, privileges, online>>

Store(c) ==
    /\ st[c] = "removing" /\ reg[c] # NoReg
    /\ IF reg[c].cell = "running"
       THEN running' = reg[c].value - 1 /\ UNCHANGED extra
       ELSE extra' = reg[c].value - 1 /\ UNCHANGED running
    /\ todo' = [todo EXCEPT ![c] = @ \ {reg[c].cell}]
    /\ reg' = [reg EXCEPT ![c] = NoReg]
    /\ UNCHANGED <<st, decision, flags, overlaps, lists, privileges, online>>

Removed(c) ==
    /\ st[c] = "removing" /\ todo[c] = {}
    /\ Closed(c)
    /\ UNCHANGED <<cqi, hasSlot, hasExtra, uploads, decision, counters, lists, privileges,
                   online>>

-----------------------------------------------------------------------------
(* The user interface, the hubs and the timer.                             *)

ReserveSlot(u) ==
    /\ Privilege
    /\ reserved' = reserved \cup {u}
    /\ UNCHANGED <<st, decision, flags, counters, lists, recent, online>>

\* A user leaves his last hub: on(UserDisconnected).
UserDisconnected(u) ==
    /\ u \in online
    /\ online' = online \ {u}
    /\ ClearUserFiles({u})
    /\ UNCHANGED <<st, decision, flags, counters, connecting, privileges>>

UserConnected(u) ==
    /\ u \notin online /\ online' = online \cup {u}
    /\ UNCHANGED <<st, decision, flags, counters, lists, privileges>>

\* Mutant: the slots kept for users on their way are given away again.
ToCallAll == GetFreeSlots

\* How many users notifyQueuedUsers may call.
ToCall == GetFreeSlots - Cardinality(connecting)

\* The online ones among the first n.
Called(n) == {waitingUsers[i] : i \in 1 .. n} \cap online

\* on(Second) with notifyQueuedUsers: from the front of the list, those offline
\* are dropped and the others called, until no slot is left.
Second ==
    /\ waitingUsers # <<>> /\ ToCall > 0
    /\ \E n \in 1 .. Len(waitingUsers) :
          /\ Cardinality(Called(n - 1)) < ToCall
          /\ n = Len(waitingUsers) \/ Cardinality(Called(n)) = ToCall
          /\ ClearUserFiles({waitingUsers[i] : i \in 1 .. n})
          /\ connecting' = connecting \cup Called(n)
    /\ UNCHANGED <<st, decision, flags, counters, privileges, online>>

\* Mutant: who did not come is left among the called.
MinuteForgets(old) ==
    /\ ClearUserFiles(old)
    /\ UNCHANGED <<st, decision, flags, counters, connecting, privileges, online>>

\* on(Minute), `old' being those called more than 90 s ago.  The uploads that
\* AUTO_KICK ends, those of users who left the hubs, end as by Fail.
Minute(old) ==
    /\ ClearUserFiles(old)
    /\ connecting' = connecting \ old
    /\ UNCHANGED <<st, decision, flags, counters, privileges, online>>

\* 30 s have passed since the last grant.
Pass30s ==
    /\ recent /\ recent' = FALSE
    /\ UNCHANGED <<st, decision, flags, counters, lists, reserved, privileged, online>>

-----------------------------------------------------------------------------
Request(c) == KeepSlot(c) \/ FullSlot(c) \/ GrantAuto(c) \/ ExtraSlot(c) \/ Refuse(c)

\* What the thread of c does without waiting for its peer.
Thread(c) ==
    \/ NotAvailable(c) \/ Grant(c)
    \/ RemoveConnection(c) \/ Removed(c) \/ Load(c) \/ Store(c)

Timer == Second \/ (\E old \in SUBSET connecting : Minute(old)) \/ Pass30s

Next ==
    \/ \E c \in Conns : \/ \E u \in Users : Connect(c, u)
                        \/ Request(c) \/ Thread(c)
                        \/ Send(c) \/ TransmitDone(c) \/ Fail(c)
    \/ \E u \in Users : ReserveSlot(u) \/ UserDisconnected(u) \/ UserConnected(u)
    \/ Timer

Spec == Init /\ [][Next]_vars

\* Threads run, the timer ticks, and no peer keeps a connection for ever.
Fairness ==
    /\ \A c \in Conns : WF_vars(Thread(c)) /\ SF_vars(Fail(c))
    /\ SF_vars(Second) /\ SF_vars(connecting # {} /\ Minute(connecting))

FairSpec == Spec /\ Fairness

-----------------------------------------------------------------------------
(* Properties                                                              *)

Cells == {"running", "extra"}

TypeOK ==
    /\ st \in [Conns -> {"closed", "get", "opening", "send", "running",
                         "failed", "removing"}]
    /\ owner \in [Conns -> Users \cup {NoUser}]
    /\ cqi \subseteq Users
    /\ hasSlot \subseteq Conns /\ hasExtra \subseteq Conns
    /\ decision \in [Conns -> {"none", "kept", "full", "extra"}]
    /\ uploads \subseteq {c \in Conns : st[c] \in {"send", "running", "failed"}}
    /\ running \in Int /\ extra \in Int
    /\ todo \in [Conns -> SUBSET Cells]
    /\ reg \in [Conns -> [cell : Cells, value : Int] \cup {NoReg}]
    /\ waitingUsers \in Seq(Users) /\ waitingFiles \subseteq Users
    /\ connecting \subseteq Users
    /\ reserved \subseteq Users /\ online \subseteq Users
    /\ recent \in BOOLEAN /\ overlaps \in 0 .. MaxOverlaps
    /\ privileged \in 0 .. MaxPrivileged

\* Connections whose slot is in the counter: those with the flag and those
\* that have still to decrement it.
CountedIn(cell, flagged) == flagged \cup {c \in Conns : cell \in todo[c]}

\* As long as no two updates overlapped, running and extra are exactly the
\* number of connections with FLAG_HASSLOT and FLAG_HASEXTRASLOT: refusals,
\* files that cannot be opened, a mini slot turned into a full one and
\* connections that fail at any point leave no slot counted twice or leaked.
SlotsCounted ==
    overlaps = 0 => /\ running = Cardinality(CountedIn("running", hasSlot))
                    /\ extra = Cardinality(CountedIn("extra", hasExtra))

\* waitingUsers and waitingFiles are about the same users, each once
\* (prepareFile asks the one, notifyQueuedUsers empties the other).
WaitingAgree ==
    /\ ToSet(waitingUsers) = waitingFiles
    /\ IsInjective(waitingUsers)

\* Who has a slot is neither waiting for one nor told to come for one, although
\* a connection of his may still be on its way out.
HolderDoesNotWait ==
    \A c \in hasSlot : st[c] # "failed" =>
        owner[c] \notin waitingFiles /\ owner[c] \notin connecting

\* No more users are called than there are slots, whatever happens between a
\* call and the arrival.
CalledFitSlots == overlaps = 0 => Cardinality(connecting) <= Slots

\* While the counters are right, whoever is on the waiting list is called, gets
\* a slot or leaves.
WaitingEnds == \A u \in Users :
    u \in waitingFiles ~> u \notin waitingFiles \/ overlaps > 0
=============================================================================
