---------------------------- MODULE QueueManager ----------------------------
(***************************************************************************)
(* The indexes of the download queue: FileQueue (items by target), which   *)
(* owns the items, and UserQueue (items by priority and user, and what     *)
(* each user is running), "a cache for the FileQueue really".  Every       *)
(* operation of QueueManager that touches them is one action, since each   *)
(* holds QueueManager::cs throughout.                                      *)
(*                                                                         *)
(* An item is a pointer out of Items; what is left of one in an index      *)
(* after `delete qi' is a dangling pointer.  How far a file has got is     *)
(* abstracted to none / part / full (module SegmentedDownload has the byte *)
(* level), and the lists of UserQueue to a set, so that getNext may pick   *)
(* any eligible item of the highest priority that has one.                 *)
(***************************************************************************)
EXTENDS Integers, FiniteSets

CONSTANTS
    Users,          \* the other users
    Files,          \* target paths of ordinary downloads
    Items,          \* BOUND: the QueueItem objects that can exist at a time
    MaxPriority,    \* BOUND: priorities are PAUSED = 0 .. MaxPriority
    KeepFinished,   \* SETTING(KEEP_FINISHED_FILES)
    Rechecks,       \* the user rechecks items
    NoItem, NoDownload

ASSUME ConstAssumption ==
    /\ NoItem \notin Items
    /\ MaxPriority \in Nat \ {0}
    /\ KeepFinished \in BOOLEAN
    /\ Rechecks \in BOOLEAN
    /\ Files \cap Users = {}
    /\ NoDownload \notin Files \cup Users

\* getListPath: the file list of a user has that user's own target.
Targets    == Files \cup Users
Priorities == 0 .. MaxPriority
PAUSED     == 0
Progress   == {"none", "part", "full"}

VARIABLES
    fileQueue,   \* FileQueue::queue
    userQueue,   \* UserQueue::userQueue, as a set of <<priority, user, item>>
    running,     \* UserQueue::running
    priority, sources, badSources, progress, downloads,  \* fields of QueueItem
    connection,  \* the target of the Download a user's connection holds
    recheck,     \* what the Rechecker thread is doing
    broken       \* a dcassert of UserQueue has failed

vars == <<fileQueue, userQueue, running, priority, sources, badSources,
          progress, downloads, connection, recheck, broken>>

Idle == [step |-> "idle"]
item == <<priority, sources, badSources, progress, downloads>>

Init ==
    /\ fileQueue = [t \in Targets |-> NoItem]
    /\ userQueue = {}
    /\ running = [u \in Users |-> NoItem]
    /\ priority = [i \in Items |-> PAUSED]
    /\ sources = [i \in Items |-> {}]
    /\ badSources = [i \in Items |-> {}]
    /\ progress = [i \in Items |-> "none"]
    /\ downloads = [i \in Items |-> {}]
    /\ connection = [u \in Users |-> NoDownload]
    /\ recheck = Idle
    /\ broken = FALSE

-----------------------------------------------------------------------------
(* Helpers                                                                 *)

Queued(i)     == \E t \in Targets : fileQueue[t] = i
IsFinished(i) == progress[i] = "full"

\* Where UserQueue has, or should have, item i under users us.
Entries(i, p, us) == {<<p, u, i>> : u \in us}

\* Nothing in the program points to i any more (or yet).
Unused(i) ==
    /\ ~Queued(i)
    /\ \A u \in Users : running[u] # i
    /\ \A e \in userQueue : e[3] # i

\* UserQueue::remove finds an entry for every user it is asked about.
CheckEntries(i, us) == broken' = (broken \/ ~(Entries(i, priority[i], us) \subseteq userQueue))

\* removeDownload for those of us that are running i.
ForgetRunning(i, us) ==
    LET gone == {u \in us : running[u] = i}
    IN  /\ running' = [u \in Users |-> IF u \in gone THEN NoItem ELSE running[u]]
        /\ downloads' = [downloads EXCEPT ![i] = @ \ gone]

\* UserQueue::remove(qi), then FileQueue::remove(qi), which deletes it.
Delete(t) ==
    LET i == fileQueue[t]
    IN  /\ fileQueue' = [fileQueue EXCEPT ![t] = NoItem]
        /\ priority' = [priority EXCEPT ![i] = PAUSED]
        /\ sources' = [sources EXCEPT ![i] = {}]
        /\ badSources' = [badSources EXCEPT ![i] = {}]
        /\ progress' = [progress EXCEPT ![i] = "none"]
        /\ downloads' = [downloads EXCEPT ![i] = {}]

-----------------------------------------------------------------------------
(* Adding                                                                  *)

\* Mutant: the source stays listed among the bad ones.
AddSourceKeepsBad(i, u, passive) ==
    /\ sources' = IF passive THEN sources ELSE [sources EXCEPT ![i] = @ \cup {u}]
    /\ badSources' = [badSources EXCEPT ![i] = IF passive THEN @ \cup {u} ELSE @]
    /\ userQueue' = IF passive \/ IsFinished(i) THEN userQueue
                    ELSE userQueue \cup {<<priority[i], u, i>>}

\* Mutant: the source is filed under the default priority.
AddSourceWrongList(i, u, passive) ==
    /\ sources' = IF passive THEN sources ELSE [sources EXCEPT ![i] = @ \cup {u}]
    /\ badSources' = [badSources EXCEPT ![i] = IF passive THEN @ \cup {u} ELSE @ \ {u}]
    /\ userQueue' = IF passive \/ IsFinished(i) THEN userQueue
                    ELSE userQueue \cup {<<MaxPriority, u, i>>}

\* QueueManager::addSource to an item that exists.  Two passive users cannot
\* connect: such a source is recorded as bad at once.
AddSource(i, u, passive) ==
    /\ sources' = IF passive THEN sources ELSE [sources EXCEPT ![i] = @ \cup {u}]
    /\ badSources' = [badSources EXCEPT ![i] = IF passive THEN @ \cup {u} ELSE @ \ {u}]
    /\ userQueue' = IF passive \/ IsFinished(i) THEN userQueue
                    ELSE userQueue \cup {<<priority[i], u, i>>}

\* FileQueue::add resolves DEFAULT by the size of the file; lists are HIGHEST.
InitialPriority(t) == IF t \in Users THEN {MaxPriority} ELSE Priorities

\* QueueManager::add of a target that is not queued.
AddNew(t, u) ==
    /\ fileQueue[t] = NoItem
    /\ t \in Users => t = u
    /\ \E i \in Items, p \in InitialPriority(t), passive \in BOOLEAN :
          /\ Unused(i)
          /\ fileQueue' = [fileQueue EXCEPT ![t] = i]
          /\ priority' = [priority EXCEPT ![i] = p]
          /\ sources' = [sources EXCEPT ![i] = IF passive THEN {} ELSE {u}]
          /\ badSources' = [badSources EXCEPT ![i] = IF passive THEN {u} ELSE {}]
          /\ userQueue' = IF passive THEN userQueue ELSE userQueue \cup {<<p, u, i>>}
    /\ UNCHANGED <<running, progress, downloads, connection, recheck, broken>>

\* QueueManager::add of a target that is queued, readd, and a search result:
\* all of them end in addSource.
AddToExisting(t, u) ==
    LET i == fileQueue[t]
    IN  /\ i # NoItem
        /\ t \in Users => t = u
        /\ u \notin sources[i]
        /\ \E passive \in BOOLEAN : AddSource(i, u, passive)
        /\ UNCHANGED <<fileQueue, running, priority, progress, downloads,
                       connection, recheck, broken>>

-----------------------------------------------------------------------------
(* Downloading                                                             *)

\* UserQueue::getNext: a waiting item is taken; one that others are running
\* only if it has a free segment, which the byte-level module decides.
MayGet(u, i) ==
    /\ <<priority[i], u, i>> \in userQueue
    /\ priority[i] # PAUSED
    /\ \A e \in userQueue : e[2] = u /\ e[1] > priority[i] => downloads[e[3]] # {}

\* QueueManager::getDownload.  Progress is reset if the temporary file is gone.
GetDownload(u) ==
    /\ connection[u] = NoDownload
    /\ \E t \in Targets :
          LET i == fileQueue[t]
          IN  /\ i # NoItem
              /\ MayGet(u, i)
              /\ progress' \in {progress, [progress EXCEPT ![i] = "none"]}
              /\ downloads' = [downloads EXCEPT ![i] = @ \cup {u}]
              /\ running' = [running EXCEPT ![u] = i]
              /\ broken' = (broken \/ running[u] # NoItem)
              /\ connection' = [connection EXCEPT ![u] = t]
    /\ UNCHANGED <<fileQueue, userQueue, priority, sources, badSources, recheck>>

\* putDownload when the target has been removed meanwhile.
PutLate(u) ==
    /\ connection[u] # NoDownload
    /\ fileQueue[connection[u]] = NoItem
    /\ connection' = [connection EXCEPT ![u] = NoDownload]
    /\ UNCHANGED <<fileQueue, userQueue, running, item, recheck, broken>>

\* Mutant: putDownload forgets to clear UserQueue::running.
RemoveDownloadFromItem(i, u) ==
    /\ downloads' = [downloads EXCEPT ![i] = @ \ {u}]
    /\ UNCHANGED running

\* UserQueue::removeDownload.
RemoveDownload(i, u) ==
    /\ running' = [running EXCEPT ![u] = NoItem]
    /\ downloads' = [downloads EXCEPT ![i] = @ \ {u}]

\* What addSegment can make of the progress of an item (SegmentedDownload):
\* a late Download may even cut a finished item back.
Advance(i) == {[progress EXCEPT ![i] = "part"]}

\* putDownload of a failed transfer, of a tree, or of a segment that leaves the
\* item unfinished.
PutUnfinished(u) ==
    LET i == fileQueue[connection[u]]
    IN  /\ connection[u] # NoDownload /\ i # NoItem
        /\ connection' = [connection EXCEPT ![u] = NoDownload]
        /\ progress' \in {progress} \cup (IF connection[u] \in Files THEN Advance(i) ELSE {})
        /\ RemoveDownload(i, u)
        /\ UNCHANGED <<fileQueue, userQueue, priority, sources, badSources, recheck,
                       broken>>

\* Only the last of the listed downloads can complete the file, their ranges
\* being disjoint; one that is no longer listed can do so at any time.
MayComplete(i, u) == u \notin downloads[i] \/ downloads[i] = {u}

\* putDownload of the segment that completes the item (of the whole list).
PutComplete(u) ==
    LET t == connection[u]
        i == fileQueue[t]
    IN  /\ t # NoDownload /\ i # NoItem
        /\ MayComplete(i, u)
        /\ connection' = [connection EXCEPT ![u] = NoDownload]
        /\ CheckEntries(i, sources[i])
        /\ userQueue' = userQueue \ Entries(i, priority[i], sources[i])
        /\ IF KeepFinished /\ t \in Files
           THEN /\ progress' = [progress EXCEPT ![i] = "full"]
                /\ ForgetRunning(i, sources[i])
                /\ UNCHANGED <<fileQueue, priority, sources, badSources>>
           ELSE /\ Delete(t)
                /\ running' = [v \in Users |-> IF v \in sources[i] /\ running[v] = i
                                               THEN NoItem ELSE running[v]]
        /\ UNCHANGED recheck

\* checkSfv: the complete file fails its checksum; start over, paused, without
\* any of its sources.
PutCorrupt(u) ==
    LET t == connection[u]
        i == fileQueue[t]
    IN  /\ t \in Files /\ i # NoItem
        /\ MayComplete(i, u)
        /\ connection' = [connection EXCEPT ![u] = NoDownload]
        /\ CheckEntries(i, sources[i])
        /\ userQueue' = userQueue \ Entries(i, priority[i], sources[i])
        /\ progress' = [progress EXCEPT ![i] = "none"]
        /\ priority' = [priority EXCEPT ![i] = PAUSED]
        /\ sources' = [sources EXCEPT ![i] = {}]
        /\ badSources' = [badSources EXCEPT ![i] = @ \cup sources[i]]
        /\ ForgetRunning(i, sources[i] \cup {u})
        /\ UNCHANGED <<fileQueue, recheck>>

-----------------------------------------------------------------------------
(* Removing and changing                                                   *)

\* QueueManager::remove.  The running connections are asked to disconnect once
\* the lock is released; their Downloads come back through PutLate.
Remove(t) ==
    LET i == fileQueue[t]
    IN  /\ i # NoItem
        /\ IF IsFinished(i)
           THEN UNCHANGED <<userQueue, running, broken>>
           ELSE /\ CheckEntries(i, sources[i])
                /\ userQueue' = userQueue \ Entries(i, priority[i], sources[i])
                /\ running' = [v \in Users |-> IF v \in sources[i] /\ running[v] = i
                                               THEN NoItem ELSE running[v]]
        /\ Delete(t)
        /\ UNCHANGED <<connection, recheck>>

\* QueueManager::removeSource(target, user, reason); for a list it is remove.
RemoveSource(t, u) ==
    LET i == fileQueue[t]
    IN  /\ t \in Files /\ i # NoItem /\ u \in sources[i]
        /\ ForgetRunning(i, {u})
        /\ IF IsFinished(i)
           THEN UNCHANGED <<userQueue, broken>>
           ELSE /\ CheckEntries(i, {u})
                /\ userQueue' = userQueue \ Entries(i, priority[i], {u})
        /\ sources' = [sources EXCEPT ![i] = @ \ {u}]
        /\ badSources' = [badSources EXCEPT ![i] = @ \cup {u}]
        /\ UNCHANGED <<fileQueue, priority, progress, connection, recheck>>

\* QueueManager::removeSource(user, reason): whatever getNext returns for u is
\* removed until it returns nothing.  It does not return an item that somebody
\* is downloading the tree of, or of which all that is missing is running.
RemoveSourceEverywhere(u) ==
    LET mine == {i \in Items : <<priority[i], u, i>> \in userQueue}
    IN  \E skipped \in SUBSET {i \in mine : downloads[i] # {} /\ running[u] # i
                                             /\ fileQueue[u] # i} :
          LET hit  == mine \ skipped
              list == fileQueue[u]
              gone == IF list # NoItem /\ list \in hit THEN {list} ELSE {}
          IN  /\ hit # {}
              /\ fileQueue' = IF gone # {} THEN [fileQueue EXCEPT ![u] = NoItem] ELSE fileQueue
              /\ userQueue' = {e \in userQueue : ~(e[2] = u /\ e[3] \in hit)}
              /\ running' = [running EXCEPT ![u] = IF @ \in hit THEN NoItem ELSE @]
              /\ downloads' = [i \in Items |-> IF i \in hit THEN downloads[i] \ {u}
                                               ELSE downloads[i]]
              /\ sources' = [i \in Items |-> IF i \in hit THEN sources[i] \ {u}
                                             ELSE sources[i]]
              /\ badSources' = [i \in Items |-> IF i \in gone THEN {}
                                                ELSE IF i \in hit THEN badSources[i] \cup {u}
                                                ELSE badSources[i]]
              /\ priority' = [i \in Items |-> IF i \in gone THEN PAUSED ELSE priority[i]]
              /\ progress' = [i \in Items |-> IF i \in gone THEN "none" ELSE progress[i]]
              /\ UNCHANGED <<connection, recheck, broken>>

\* QueueManager::setPriority.  Pausing asks the connections to disconnect.
SetPriority(t, p) ==
    LET i == fileQueue[t]
    IN  /\ i # NoItem /\ priority[i] # p /\ ~IsFinished(i)
        /\ CheckEntries(i, sources[i])
        /\ userQueue' = (userQueue \ Entries(i, priority[i], sources[i]))
                        \cup Entries(i, p, sources[i])
        /\ priority' = [priority EXCEPT ![i] = p]
        /\ UNCHANGED <<fileQueue, running, sources, badSources, progress, downloads,
                       connection, recheck>>

\* Mutant: the old target keeps pointing to the item.
MoveInsert(s, t) ==
    LET i == fileQueue[s]
    IN  /\ {s, t} \subseteq Files /\ i # NoItem /\ fileQueue[t] = NoItem
        /\ downloads[i] = {}
        /\ fileQueue' = [fileQueue EXCEPT ![t] = i]
        /\ UNCHANGED <<userQueue, running, item, connection, recheck, broken>>

\* QueueManager::move to a free target ...
Move(s, t) ==
    LET i == fileQueue[s]
    IN  /\ {s, t} \subseteq Files /\ i # NoItem /\ fileQueue[t] = NoItem
        /\ downloads[i] = {}
        /\ fileQueue' = [fileQueue EXCEPT ![s] = NoItem, ![t] = i]
        /\ UNCHANGED <<userQueue, running, item, connection, recheck, broken>>

\* ... and onto an item of the same file, which takes over the sources it can
\* use; the moved item is removed.
MoveOnto(s, t) ==
    LET i == fileQueue[s]
        k == fileQueue[t]
    IN  /\ s # t /\ {s, t} \subseteq Files /\ i # NoItem /\ k # NoItem
        /\ downloads[i] = {}
        /\ \E passive \in SUBSET (sources[i] \ sources[k]) :
              LET new == (sources[i] \ sources[k]) \ passive
              IN  /\ sources' = [sources EXCEPT ![k] = @ \cup new, ![i] = {}]
                  /\ badSources' = [badSources EXCEPT ![k] = (@ \ new) \cup passive, ![i] = {}]
                  /\ userQueue' = (userQueue \ (IF IsFinished(i) THEN {}
                                                ELSE Entries(i, priority[i], sources[i])))
                                  \cup (IF IsFinished(k) THEN {} ELSE Entries(k, priority[k], new))
        /\ IF IsFinished(i) THEN UNCHANGED broken ELSE CheckEntries(i, sources[i])
        /\ fileQueue' = [fileQueue EXCEPT ![s] = NoItem]
        /\ priority' = [priority EXCEPT ![i] = PAUSED]
        /\ progress' = [progress EXCEPT ![i] = "none"]
        /\ UNCHANGED <<running, downloads, connection, recheck>>

-----------------------------------------------------------------------------
(* Rechecker::run: three critical sections, each of which looks the target *)
(* up again.                                                               *)

RecheckStart(t) ==
    /\ Rechecks /\ recheck.step = "idle"
    /\ t \in Files /\ fileQueue[t] # NoItem /\ downloads[fileQueue[t]] = {}
    /\ recheck' = [step |-> "found", target |-> t]
    /\ UNCHANGED <<fileQueue, userQueue, running, item, connection, broken>>

\* The target is gone, or its tree is not known.
RecheckGivesUp ==
    /\ \/ recheck.step = "found"
       \/ recheck.step = "reset" /\ fileQueue[recheck.target] = NoItem
    /\ recheck' = Idle
    /\ UNCHANGED <<fileQueue, userQueue, running, item, connection, broken>>

RecheckReset ==
    LET i == fileQueue[recheck.target]
    IN  /\ recheck.step = "found" /\ i # NoItem
        /\ progress' = [progress EXCEPT ![i] = "none"]
        /\ recheck' = [step |-> "reset", target |-> recheck.target]
        /\ UNCHANGED <<fileQueue, userQueue, running, priority, sources, badSources,
                       downloads, connection, broken>>

\* Some leaves do not match; the others are recorded.  Together with what other
\* transfers recorded since the reset they may cover the file.
RecheckDone ==
    LET i == fileQueue[recheck.target]
    IN  /\ recheck.step = "reset" /\ i # NoItem
        /\ progress' \in {progress, [progress EXCEPT ![i] = "part"]} \cup
                 (IF progress[i] = "part" THEN {[progress EXCEPT ![i] = "full"]} ELSE {})
        /\ recheck' = Idle
        /\ UNCHANGED <<fileQueue, userQueue, running, priority, sources, badSources,
                       downloads, connection, broken>>

\* All leaves match: moveStuckFile.
MoveStuckFile ==
    LET i == fileQueue[recheck.target]
    IN  /\ recheck.step = "reset" /\ i # NoItem
        /\ recheck' = Idle
        /\ IF IsFinished(i)
           THEN /\ CheckEntries(i, sources[i])
                /\ userQueue' = userQueue \ Entries(i, priority[i], sources[i])
           ELSE UNCHANGED <<userQueue, broken>>
        /\ IF KeepFinished
           THEN /\ progress' = [progress EXCEPT ![i] = "full"]
                /\ UNCHANGED <<fileQueue, priority, sources, badSources, downloads>>
           ELSE Delete(recheck.target)
        /\ UNCHANGED <<running, connection>>

-----------------------------------------------------------------------------
Next ==
    \/ \E u \in Users :
          \/ GetDownload(u)
          \/ PutLate(u) \/ PutUnfinished(u) \/ PutComplete(u) \/ PutCorrupt(u)
          \/ RemoveSourceEverywhere(u)
    \/ \E t \in Targets, u \in Users :
          AddNew(t, u) \/ AddToExisting(t, u) \/ RemoveSource(t, u)
    \/ \E t \in Targets : Remove(t) \/ RecheckStart(t)
    \/ RecheckGivesUp \/ RecheckReset \/ RecheckDone \/ MoveStuckFile
    \/ \E t \in Targets, p \in Priorities : SetPriority(t, p)
    \/ \E s, t \in Targets : Move(s, t) \/ MoveOnto(s, t)

Spec == Init /\ [][Next]_vars

-----------------------------------------------------------------------------
(* Properties                                                              *)

TypeOK ==
    /\ fileQueue \in [Targets -> Items \cup {NoItem}]
    /\ userQueue \subseteq Priorities \X Users \X Items
    /\ running \in [Users -> Items \cup {NoItem}]
    /\ priority \in [Items -> Priorities]
    /\ sources \in [Items -> SUBSET Users]
    /\ badSources \in [Items -> SUBSET Users]
    /\ progress \in [Items -> Progress]
    /\ downloads \in [Items -> SUBSET Users]
    /\ connection \in [Users -> Targets \cup {NoDownload}]
    /\ recheck \in {Idle} \cup [step : {"found", "reset"}, target : Files]
    /\ broken \in BOOLEAN

\* QueueManager.h: UserQueue is "a cache for the FileQueue": an item is listed
\* under exactly its sources at exactly its priority while it is queued and
\* unfinished, and no pointer to a deleted item is left.
UserQueueIsCache ==
    userQueue = {e \in Priorities \X Users \X Items :
                    /\ Queued(e[3]) /\ ~IsFinished(e[3])
                    /\ e[1] = priority[e[3]] /\ e[2] \in sources[e[3]]}

\* UserQueue::running and the downloads of the items say the same; what runs is
\* queued and its user holds the Download for its target.
RunningIsListed ==
    /\ \A u \in Users, i \in Items : running[u] = i <=> u \in downloads[i]
    /\ \A u \in Users : running[u] # NoItem =>
          connection[u] # NoDownload /\ fileQueue[connection[u]] = running[u]

\* The assertions of UserQueue::remove and addDownload never fail.
AssertionsHold == ~broken

\* No item is queued under two targets, so that deleting it by one of them
\* leaves no pointer under the other (FileQueue::add, move and remove).
OneTarget ==
    \A s, t \in Targets : fileQueue[s] = fileQueue[t] /\ fileQueue[s] # NoItem => s = t

\* A user is never a source and a bad source of the same item, however often it
\* is removed, found again, merged by a move or blamed for a bad checksum
\* (QueueItem::addSource and removeSource).
SourcesDisjoint == \A i \in Items : sources[i] \cap badSources[i] = {}
=============================================================================
