-------------------------- MODULE QueueManagerProof --------------------------
(***************************************************************************)
(* Proofs about QueueManager, for any number of users, files, items and    *)
(* priorities, in three layers, each resting on the one before:            *)
(*                                                                         *)
(*   QueueInv     whatever happens: an item has one target and no user is  *)
(*                a source and a bad source of it;                         *)
(*   PointerInv   as long as nothing is rechecked: no entry of UserQueue   *)
(*                and no running download belongs to a deleted item;       *)
(*   CompleteInv  as long as, besides, finished files are dropped: no      *)
(*                entry is missing, and no assertion of UserQueue fails.   *)
(*                                                                         *)
(* The hypotheses are needed.  The run queue_stuck shows what a recheck    *)
(* leaves behind; and a finished file that is kept can be cut back by a    *)
(* late Download, after which its entries are missing.                     *)
(***************************************************************************)
EXTENDS QueueManager, TLAPS

\* The entries of an item are found one user at a time.
LEMMA EntriesOf ==
    ASSUME NEW i, NEW p, NEW us, NEW q, NEW u, NEW k
    PROVE  <<q, u, k>> \in Entries(i, p, us) <=> q = p /\ u \in us /\ k = i
BY DEF Entries

\* An item has at most one target.
LEMMA TargetOf ==
    ASSUME OneTarget, NEW s \in Targets, NEW t \in Targets, fileQueue[s] # NoItem
    PROVE  fileQueue[s] = fileQueue[t] <=> s = t
BY DEF OneTarget

-----------------------------------------------------------------------------
(* What holds whatever is rechecked and whether or not finished files are  *)
(* kept: an item has one target, and no user is a source and a bad source  *)
(* of it.                                                                  *)

QueueInv == TypeOK /\ OneTarget /\ SourcesDisjoint

\* An assertion is evaluated.
LEMMA CheckTyped ==
    ASSUME NEW i, NEW us, CheckEntries(i, us)
    PROVE  broken' \in BOOLEAN
BY DEF CheckEntries

\* Emptying a target makes no item have two.
LEMMA FewerTargets ==
    ASSUME QueueInv, NEW t \in Targets,
           fileQueue' \in {fileQueue, [fileQueue EXCEPT ![t] = NoItem]}
    PROVE  OneTarget' /\ fileQueue' \in [Targets -> Items \cup {NoItem}]
<1>1. fileQueue \in [Targets -> Items \cup {NoItem}]
    BY DEF QueueInv, TypeOK
<1>2. \A s \in Targets : fileQueue'[s] \in {fileQueue[s], NoItem}
    BY <1>1
<1>3. OneTarget'
    BY <1>2 DEF QueueInv, OneTarget
<1> QED
    BY <1>1, <1>3

\* The fields of an item that are reset, together with those an operation
\* changes on its own.
LEMMA ResetTyped ==
    ASSUME QueueInv, NEW i \in Items
    PROVE  /\ [priority EXCEPT ![i] = PAUSED] \in [Items -> Priorities]
           /\ [sources EXCEPT ![i] = {}] \in [Items -> SUBSET Users]
           /\ [badSources EXCEPT ![i] = {}] \in [Items -> SUBSET Users]
           /\ [downloads EXCEPT ![i] = {}] \in [Items -> SUBSET Users]
           /\ \A s \in Progress : [progress EXCEPT ![i] = s] \in [Items -> Progress]
           /\ "none" \in Progress /\ "part" \in Progress /\ "full" \in Progress
<1>1. PAUSED \in Priorities
    BY ConstAssumption DEF PAUSED, Priorities
<1>2. "none" \in Progress /\ "part" \in Progress /\ "full" \in Progress
    BY DEF Progress
<1> QED
    BY <1>1, <1>2 DEF QueueInv, TypeOK

\* FileQueue::remove deletes an item that no other target has.
LEMMA DeleteQueueInv ==
    ASSUME QueueInv, NEW t \in Targets, fileQueue[t] # NoItem, Delete(t),
           userQueue' \subseteq userQueue,
           running' \in [Users -> Items \cup {NoItem}],
           connection' \in [Users -> Targets \cup {NoDownload}],
           recheck' \in {Idle} \cup [step : {"found", "reset"}, target : Files],
           broken' \in BOOLEAN
    PROVE  QueueInv'
<1> DEFINE i == fileQueue[t]
<1>1. /\ i \in Items
      /\ fileQueue' = [fileQueue EXCEPT ![t] = NoItem]
      /\ priority' = [priority EXCEPT ![i] = PAUSED]
      /\ sources' = [sources EXCEPT ![i] = {}]
      /\ badSources' = [badSources EXCEPT ![i] = {}]
      /\ progress' = [progress EXCEPT ![i] = "none"]
      /\ downloads' = [downloads EXCEPT ![i] = {}]
    BY DEF Delete, QueueInv, TypeOK
<1> HIDE DEF i
<1>2. OneTarget' /\ fileQueue' \in [Targets -> Items \cup {NoItem}]
    BY <1>1, FewerTargets
<1>3. TypeOK'
    <2>1. userQueue' \subseteq Priorities \X Users \X Items
        BY DEF QueueInv, TypeOK
    <2>2. /\ priority' \in [Items -> Priorities] /\ sources' \in [Items -> SUBSET Users]
          /\ badSources' \in [Items -> SUBSET Users] /\ progress' \in [Items -> Progress]
          /\ downloads' \in [Items -> SUBSET Users]
        BY <1>1, ResetTyped
    <2> QED
        BY <1>2, <2>1, <2>2 DEF TypeOK
<1>4. SourcesDisjoint'
    BY <1>1 DEF QueueInv, TypeOK, SourcesDisjoint
<1> QED
    BY <1>2, <1>3, <1>4 DEF QueueInv

\* QueueManager::add and addSource: a user is added on one side only.
LEMMA AddQueueInv ==
    ASSUME QueueInv, NEW t \in Targets, NEW u \in Users, AddNew(t, u) \/ AddToExisting(t, u)
    PROVE  QueueInv'
<1> USE ConstAssumption
<1>1. CASE AddNew(t, u)
    <2>1. PICK i \in Items, p \in Priorities, passive \in BOOLEAN :
              /\ Unused(i)
              /\ fileQueue' = [fileQueue EXCEPT ![t] = i]
              /\ priority' = [priority EXCEPT ![i] = p]
              /\ sources' = [sources EXCEPT ![i] = IF passive THEN {} ELSE {u}]
              /\ badSources' = [badSources EXCEPT ![i] = IF passive THEN {u} ELSE {}]
              /\ userQueue' = IF passive THEN userQueue ELSE userQueue \cup {<<p, u, i>>}
        <3>1. InitialPriority(t) \subseteq Priorities
            BY DEF InitialPriority, Priorities
        <3> QED
            BY <1>1, <3>1 DEF AddNew
    <2>2. UNCHANGED <<running, progress, downloads, connection, recheck, broken>>
        BY <1>1 DEF AddNew
    <2>3. TypeOK'
        BY <2>1, <2>2 DEF QueueInv, TypeOK, Targets
    <2>4. /\ fileQueue \in [Targets -> Items \cup {NoItem}]
          /\ \A s \in Targets : fileQueue[s] # i
        BY <2>1 DEF QueueInv, TypeOK, Unused, Queued
    <2>5. OneTarget'
        BY <2>1, <2>4 DEF QueueInv, OneTarget
    <2>6. SourcesDisjoint'
        BY <2>1 DEF QueueInv, TypeOK, SourcesDisjoint
    <2> QED
        BY <2>3, <2>5, <2>6 DEF QueueInv
<1>2. CASE AddToExisting(t, u)
    <2> DEFINE i == fileQueue[t]
    <2>1. /\ i \in Items /\ u \notin sources[i]
          /\ UNCHANGED <<fileQueue, running, priority, progress, downloads, connection, recheck,
                         broken>>
        BY <1>2 DEF AddToExisting, QueueInv, TypeOK
    <2>2. PICK passive \in BOOLEAN : AddSource(i, u, passive)
        BY <1>2 DEF AddToExisting
    <2> HIDE DEF i
    <2>3. /\ sources' = IF passive THEN sources ELSE [sources EXCEPT ![i] = sources[i] \cup {u}]
          /\ userQueue' \in {userQueue, userQueue \cup {<<priority[i], u, i>>}}
          /\ badSources' = [badSources EXCEPT ![i] = IF passive THEN badSources[i] \cup {u}
                                                     ELSE badSources[i] \ {u}]
        BY <2>2 DEF AddSource
    <2>4. TypeOK'
        BY <2>1, <2>3 DEF QueueInv, TypeOK
    <2>5. SourcesDisjoint'
        BY <2>1, <2>3 DEF QueueInv, TypeOK, SourcesDisjoint
    <2> QED
        BY <2>1, <2>4, <2>5 DEF QueueInv, OneTarget
<1> QED
    BY <1>1, <1>2

\* getDownload, and putDownload of what does not complete the file.
LEMMA TransferQueueInv ==
    ASSUME QueueInv, NEW u \in Users, GetDownload(u) \/ PutLate(u) \/ PutUnfinished(u)
    PROVE  QueueInv'
<1>1. UNCHANGED <<fileQueue, userQueue, priority, sources, badSources, recheck>>
    BY DEF GetDownload, PutLate, PutUnfinished, item
<1>2. TypeOK'
    <2>1. CASE GetDownload(u)
        <3>1. PICK t \in Targets :
                  /\ fileQueue[t] # NoItem
                  /\ progress' \in {progress, [progress EXCEPT ![fileQueue[t]] = "none"]}
                  /\ downloads' = [downloads EXCEPT
                                      ![fileQueue[t]] = downloads[fileQueue[t]] \cup {u}]
                  /\ running' = [running EXCEPT ![u] = fileQueue[t]]
                  /\ broken' = (broken \/ running[u] # NoItem)
                  /\ connection' = [connection EXCEPT ![u] = t]
            BY <2>1 DEF GetDownload
        <3>2. broken' \in BOOLEAN /\ fileQueue[t] \in Items
            BY <3>1 DEF QueueInv, TypeOK
        <3>3. progress' \in [Items -> Progress]
            BY <3>1, <3>2, ResetTyped DEF QueueInv, TypeOK
        <3> QED
            BY <1>1, <3>1, <3>2, <3>3 DEF QueueInv, TypeOK
    <2>2. CASE PutLate(u)
        BY <2>2, <1>1 DEF PutLate, item, QueueInv, TypeOK
    <2>3. CASE PutUnfinished(u)
        <3> DEFINE i == fileQueue[connection[u]]
        <3>1. /\ i \in Items
              /\ connection' = [connection EXCEPT ![u] = NoDownload]
              /\ running' = [running EXCEPT ![u] = NoItem]
              /\ downloads' = [downloads EXCEPT ![i] = downloads[i] \ {u}]
              /\ progress' \in {progress, [progress EXCEPT ![i] = "part"]}
              /\ broken' = broken
            BY <2>3 DEF PutUnfinished, RemoveDownload, Advance, QueueInv, TypeOK
        <3> HIDE DEF i
        <3>2. progress' \in [Items -> Progress]
            BY <3>1, ResetTyped DEF QueueInv, TypeOK
        <3> QED
            BY <1>1, <3>1, <3>2 DEF QueueInv, TypeOK
    <2> QED
        BY <2>1, <2>2, <2>3
<1> QED
    BY <1>1, <1>2 DEF QueueInv, OneTarget, SourcesDisjoint

\* removeDownload for a set of users.
LEMMA ForgetTyped ==
    ASSUME QueueInv, NEW i \in Items, NEW us, ForgetRunning(i, us)
    PROVE  /\ running' \in [Users -> Items \cup {NoItem}]
           /\ downloads' \in [Items -> SUBSET Users]
BY DEF ForgetRunning, QueueInv, TypeOK

\* putDownload of the segment that completes the item, kept or not, and checkSfv,
\* which moves every source to the bad ones.
LEMMA CompleteQueueInv ==
    ASSUME QueueInv, NEW u \in Users, PutComplete(u) \/ PutCorrupt(u)
    PROVE  QueueInv'
<1> USE ConstAssumption
<1> DEFINE t == connection[u]
           i == fileQueue[t]
<1>1. /\ t \in Targets /\ i \in Items /\ i # NoItem
      /\ connection' = [connection EXCEPT ![u] = NoDownload]
      /\ CheckEntries(i, sources[i])
      /\ userQueue' = userQueue \ Entries(i, priority[i], sources[i])
      /\ recheck' = recheck
    <2>1. t \in Targets \cup {NoDownload}
        BY DEF QueueInv, TypeOK
    <2>2. t # NoDownload /\ i # NoItem
        BY DEF PutComplete, PutCorrupt
    <2> QED
        BY <2>1, <2>2 DEF PutComplete, PutCorrupt, QueueInv, TypeOK
<1>2. /\ userQueue' \subseteq userQueue
      /\ connection' \in [Users -> Targets \cup {NoDownload}]
      /\ broken' \in BOOLEAN
      /\ recheck' \in {Idle} \cup [step : {"found", "reset"}, target : Files]
      /\ userQueue' \subseteq Priorities \X Users \X Items
    BY <1>1, CheckTyped DEF QueueInv, TypeOK
<1>3. CASE PutComplete(u) /\ KeepFinished /\ t \in Files
    <2>1. /\ progress' = [progress EXCEPT ![i] = "full"]
          /\ ForgetRunning(i, sources[i])
          /\ UNCHANGED <<fileQueue, priority, sources, badSources>>
        BY <1>3 DEF PutComplete
    <2> HIDE DEF i, t
    <2>2. progress' \in [Items -> Progress]
        BY <1>1, <2>1, ResetTyped
    <2>3. TypeOK'
        BY <1>1, <1>2, <2>1, <2>2, ForgetTyped DEF QueueInv, TypeOK
    <2> QED
        BY <2>1, <2>3 DEF QueueInv, OneTarget, SourcesDisjoint
<1>4. CASE PutComplete(u) /\ ~(KeepFinished /\ t \in Files)
    <2>1. /\ Delete(t)
          /\ running' = [v \in Users |-> IF v \in sources[i] /\ running[v] = i
                                         THEN NoItem ELSE running[v]]
        BY <1>4 DEF PutComplete
    <2>2. running' \in [Users -> Items \cup {NoItem}]
        BY <2>1 DEF QueueInv, TypeOK
    <2> QED
        BY <1>1, <1>2, <2>1, <2>2, DeleteQueueInv
<1>5. CASE PutCorrupt(u)
    <2>1. /\ fileQueue' = fileQueue
          /\ progress' = [progress EXCEPT ![i] = "none"]
          /\ priority' = [priority EXCEPT ![i] = PAUSED]
          /\ sources' = [sources EXCEPT ![i] = {}]
          /\ badSources' = [badSources EXCEPT ![i] = badSources[i] \cup sources[i]]
          /\ ForgetRunning(i, sources[i] \cup {u})
        BY <1>5 DEF PutCorrupt
    <2> HIDE DEF i, t
    <2>2. /\ progress' \in [Items -> Progress] /\ priority' \in [Items -> Priorities]
          /\ sources' \in [Items -> SUBSET Users]
        BY <1>1, <2>1, ResetTyped
    <2>3. badSources' \in [Items -> SUBSET Users]
        BY <1>1, <2>1 DEF QueueInv, TypeOK
    <2>4. TypeOK'
        BY <1>1, <1>2, <2>1, <2>2, <2>3, ForgetTyped DEF QueueInv, TypeOK
    <2>5. SourcesDisjoint'
        BY <1>1, <2>1 DEF QueueInv, TypeOK, SourcesDisjoint
    <2> QED
        BY <2>1, <2>4, <2>5 DEF QueueInv, OneTarget
<1> QED
    BY <1>3, <1>4, <1>5

\* QueueManager::remove and both removeSource: a removed source becomes a bad one.
LEMMA RemoveQueueInv ==
    ASSUME QueueInv, NEW t \in Targets, NEW u, Remove(t) \/ (u \in Users /\ RemoveSource(t, u))
    PROVE  QueueInv'
<1> USE ConstAssumption
<1> DEFINE i == fileQueue[t]
<1>1. /\ i \in Items /\ i # NoItem
      /\ connection' = connection /\ recheck' = recheck
    BY DEF Remove, RemoveSource, QueueInv, TypeOK
<1>2. /\ userQueue' \subseteq userQueue
      /\ broken' \in BOOLEAN
    <2>1. /\ \/ userQueue' = userQueue
             \/ \E us : userQueue' = userQueue \ Entries(i, priority[i], us)
          /\ broken' = broken \/ CheckEntries(i, sources[i]) \/ CheckEntries(i, {u})
        <3>1. CASE Remove(t)
            BY <3>1 DEF Remove
        <3>2. CASE RemoveSource(t, u)
            BY <3>2 DEF RemoveSource
        <3> QED
            BY <3>1, <3>2
    <2>2. userQueue' \subseteq userQueue
        BY <2>1
    <2>3. broken \in BOOLEAN
        BY DEF QueueInv, TypeOK
    <2>4. CASE broken' = broken
        BY <2>2, <2>3, <2>4
    <2>5. CASE CheckEntries(i, sources[i]) \/ CheckEntries(i, {u})
        BY <2>2, <2>5, CheckTyped
    <2> QED
        BY <2>1, <2>4, <2>5
<1>3. /\ userQueue' \subseteq Priorities \X Users \X Items
      /\ connection' \in [Users -> Targets \cup {NoDownload}]
      /\ recheck' \in {Idle} \cup [step : {"found", "reset"}, target : Files]
    BY <1>1, <1>2 DEF QueueInv, TypeOK
<1>4. CASE Remove(t)
    <2>1. /\ Delete(t)
          /\ \/ running' = running
             \/ running' = [v \in Users |-> IF v \in sources[i] /\ running[v] = i
                                            THEN NoItem ELSE running[v]]
        BY <1>4 DEF Remove
    <2>2. running' \in [Users -> Items \cup {NoItem}]
        BY <2>1 DEF QueueInv, TypeOK
    <2> QED
        BY <1>1, <1>2, <1>3, <2>1, <2>2, DeleteQueueInv
<1>5. CASE u \in Users /\ RemoveSource(t, u)
    <2>1. /\ ForgetRunning(i, {u})
          /\ sources' = [sources EXCEPT ![i] = sources[i] \ {u}]
          /\ badSources' = [badSources EXCEPT ![i] = badSources[i] \cup {u}]
          /\ UNCHANGED <<fileQueue, priority, progress>>
        BY <1>5 DEF RemoveSource
    <2> HIDE DEF i
    <2>2. sources' \in [Items -> SUBSET Users] /\ badSources' \in [Items -> SUBSET Users]
        BY <1>1, <1>5, <2>1 DEF QueueInv, TypeOK
    <2>3. TypeOK'
        BY <1>1, <1>2, <1>3, <2>1, <2>2, ForgetTyped DEF QueueInv, TypeOK
    <2>4. SourcesDisjoint'
        BY <1>1, <2>1 DEF QueueInv, TypeOK, SourcesDisjoint
    <2> QED
        BY <2>1, <2>3, <2>4 DEF QueueInv, OneTarget
<1> QED
    BY <1>4, <1>5

\* What removeSource of all targets of u does: he is taken from the items in hit,
\* and his own list, if it is one of them (gone), is removed.
TakesFromAll(u, hit, gone) ==
    /\ hit \subseteq {i \in Items : <<priority[i], u, i>> \in userQueue}
    /\ gone \subseteq hit \cap {fileQueue[u]}
    /\ fileQueue' = IF gone # {} THEN [fileQueue EXCEPT ![u] = NoItem] ELSE fileQueue
    /\ userQueue' = {e \in userQueue : ~(e[2] = u /\ e[3] \in hit)}
    /\ running' = [running EXCEPT ![u] = IF running[u] \in hit THEN NoItem ELSE running[u]]
    /\ downloads' = [i \in Items |-> IF i \in hit THEN downloads[i] \ {u} ELSE downloads[i]]
    /\ sources' = [i \in Items |-> IF i \in hit THEN sources[i] \ {u} ELSE sources[i]]
    /\ badSources' = [i \in Items |-> IF i \in gone THEN {}
                                      ELSE IF i \in hit THEN badSources[i] \cup {u}
                                      ELSE badSources[i]]
    /\ priority' = [i \in Items |-> IF i \in gone THEN PAUSED ELSE priority[i]]
    /\ progress' = [i \in Items |-> IF i \in gone THEN "none" ELSE progress[i]]
    /\ UNCHANGED <<connection, recheck, broken>>

\* Removing a user everywhere takes it from a set of items, of which some leave the queue.
LEMMA TakenFromAll ==
    ASSUME NEW u \in Users, RemoveSourceEverywhere(u)
    PROVE  \E hit, gone \in SUBSET Items : TakesFromAll(u, hit, gone)
<1> DEFINE mine == {i \in Items : <<priority[i], u, i>> \in userQueue}
<1>1. PICK skipped \in SUBSET {i \in mine : downloads[i] # {} /\ running[u] # i
                                            /\ fileQueue[u] # i} :
        LET h == mine \ skipped
            list == fileQueue[u]
            g == IF list # NoItem /\ list \in h THEN {list} ELSE {}
        IN  /\ fileQueue' = IF g # {} THEN [fileQueue EXCEPT ![u] = NoItem] ELSE fileQueue
            /\ userQueue' = {e \in userQueue : ~(e[2] = u /\ e[3] \in h)}
            /\ running' = [running EXCEPT ![u] = IF running[u] \in h THEN NoItem
                                                 ELSE running[u]]
            /\ downloads' = [i \in Items |-> IF i \in h THEN downloads[i] \ {u}
                                             ELSE downloads[i]]
            /\ sources' = [i \in Items |-> IF i \in h THEN sources[i] \ {u}
                                           ELSE sources[i]]
            /\ badSources' = [i \in Items |-> IF i \in g THEN {}
                                              ELSE IF i \in h THEN badSources[i] \cup {u}
                                              ELSE badSources[i]]
            /\ priority' = [i \in Items |-> IF i \in g THEN PAUSED ELSE priority[i]]
            /\ progress' = [i \in Items |-> IF i \in g THEN "none" ELSE progress[i]]
            /\ UNCHANGED <<connection, recheck, broken>>
    BY DEF RemoveSourceEverywhere
<1> DEFINE h == mine \ skipped
           g == IF fileQueue[u] # NoItem /\ fileQueue[u] \in h THEN {fileQueue[u]} ELSE {}
<1>2. /\ h \in SUBSET Items /\ g \in SUBSET Items
      /\ h \subseteq {i \in Items : <<priority[i], u, i>> \in userQueue}
      /\ g \subseteq h \cap {fileQueue[u]}
    OBVIOUS
<1>3. /\ fileQueue' = IF g # {} THEN [fileQueue EXCEPT ![u] = NoItem] ELSE fileQueue
      /\ userQueue' = {e \in userQueue : ~(e[2] = u /\ e[3] \in h)}
      /\ running' = [running EXCEPT ![u] = IF running[u] \in h THEN NoItem ELSE running[u]]
      /\ downloads' = [i \in Items |-> IF i \in h THEN downloads[i] \ {u} ELSE downloads[i]]
      /\ sources' = [i \in Items |-> IF i \in h THEN sources[i] \ {u} ELSE sources[i]]
      /\ badSources' = [i \in Items |-> IF i \in g THEN {}
                                        ELSE IF i \in h THEN badSources[i] \cup {u}
                                        ELSE badSources[i]]
      /\ priority' = [i \in Items |-> IF i \in g THEN PAUSED ELSE priority[i]]
      /\ progress' = [i \in Items |-> IF i \in g THEN "none" ELSE progress[i]]
      /\ UNCHANGED <<connection, recheck, broken>>
    BY <1>1
<1> HIDE DEF h, g, mine
<1> QED
    BY <1>2, <1>3 DEF TakesFromAll

\* removeSource of all targets of a user.
LEMMA RemoveEverywhereQueueInv ==
    ASSUME QueueInv, NEW u \in Users, RemoveSourceEverywhere(u)
    PROVE  QueueInv'
<1> USE ConstAssumption
<1>1. PICK hit \in SUBSET Items, gone \in SUBSET Items : TakesFromAll(u, hit, gone)
    BY TakenFromAll
<1> USE <1>1 DEF TakesFromAll
<1>2. OneTarget' /\ fileQueue' \in [Targets -> Items \cup {NoItem}]
    BY <1>1, FewerTargets DEF Targets
<1>3. TypeOK'
    <2>1. /\ userQueue' \subseteq Priorities \X Users \X Items
          /\ running' \in [Users -> Items \cup {NoItem}]
          /\ downloads' \in [Items -> SUBSET Users] /\ sources' \in [Items -> SUBSET Users]
          /\ badSources' \in [Items -> SUBSET Users]
        BY <1>1 DEF QueueInv, TypeOK
    <2>2. priority' \in [Items -> Priorities] /\ progress' \in [Items -> Progress]
        BY <1>1 DEF QueueInv, TypeOK, Priorities, PAUSED, Progress
    <2> QED
        BY <1>1, <1>2, <2>1, <2>2 DEF QueueInv, TypeOK
<1>4. SourcesDisjoint'
    BY <1>1 DEF QueueInv, SourcesDisjoint
<1> QED
    BY <1>2, <1>3, <1>4 DEF QueueInv

\* setPriority, and move to a free target.
LEMMA ChangeQueueInv ==
    ASSUME QueueInv, NEW s \in Targets, NEW t \in Targets, NEW p \in Priorities,
           SetPriority(t, p) \/ Move(s, t)
    PROVE  QueueInv'
<1> USE ConstAssumption
<1>1. CASE SetPriority(t, p)
    <2> DEFINE i == fileQueue[t]
    <2>1. /\ i \in Items
          /\ CheckEntries(i, sources[i])
          /\ userQueue' = (userQueue \ Entries(i, priority[i], sources[i]))
                          \cup Entries(i, p, sources[i])
          /\ priority' = [priority EXCEPT ![i] = p]
          /\ UNCHANGED <<fileQueue, running, sources, badSources, progress, downloads,
                         connection, recheck>>
        BY <1>1 DEF SetPriority, QueueInv, TypeOK
    <2> HIDE DEF i
    <2>2. userQueue' \subseteq Priorities \X Users \X Items
        BY <2>1 DEF QueueInv, TypeOK, Entries
    <2>3. TypeOK'
        BY <2>1, <2>2, CheckTyped DEF QueueInv, TypeOK
    <2> QED
        BY <2>1, <2>3 DEF QueueInv, OneTarget, SourcesDisjoint
<1>2. CASE Move(s, t)
    <2> DEFINE i == fileQueue[s]
    <2>1. /\ i \in Items /\ fileQueue[t] = NoItem /\ s # t
          /\ fileQueue' = [fileQueue EXCEPT ![s] = NoItem, ![t] = i]
          /\ UNCHANGED <<userQueue, running, priority, sources, badSources, progress, downloads,
                         connection, recheck, broken>>
        BY <1>2 DEF Move, item, QueueInv, TypeOK
    <2>2. /\ fileQueue \in [Targets -> Items \cup {NoItem}]
          /\ \A r \in Targets : fileQueue[r] = i <=> r = s
        BY <2>1, TargetOf DEF QueueInv, TypeOK
    <2> HIDE DEF i
    <2>3. \A r \in Targets : fileQueue'[r] = IF r = s THEN NoItem ELSE IF r = t THEN i
                                             ELSE fileQueue[r]
        BY <2>1, <2>2
    <2>4. OneTarget'
        BY <2>1, <2>2, <2>3 DEF QueueInv, OneTarget
    <2>5. TypeOK'
        BY <2>1, <2>2 DEF QueueInv, TypeOK
    <2> QED
        BY <2>1, <2>4, <2>5 DEF QueueInv, SourcesDisjoint
<1> QED
    BY <1>1, <1>2

\* move onto an item of the same file: the sources it takes over are removed from
\* its bad ones, the passive ones added to them.
LEMMA MergeQueueInv ==
    ASSUME QueueInv, NEW s \in Targets, NEW t \in Targets, MoveOnto(s, t)
    PROVE  QueueInv'
<1> USE ConstAssumption
<1> DEFINE i == fileQueue[s]
           m == fileQueue[t]
<1>1. /\ s # t /\ i \in Items /\ m \in Items /\ i # NoItem
      /\ fileQueue' = [fileQueue EXCEPT ![s] = NoItem]
      /\ priority' = [priority EXCEPT ![i] = PAUSED]
      /\ progress' = [progress EXCEPT ![i] = "none"]
      /\ UNCHANGED <<running, downloads, connection, recheck>>
    BY DEF MoveOnto, QueueInv, TypeOK
<1>2. PICK passive \in SUBSET (sources[i] \ sources[m]) :
         /\ sources' = [sources EXCEPT
               ![m] = sources[m] \cup ((sources[i] \ sources[m]) \ passive), ![i] = {}]
         /\ badSources' = [badSources EXCEPT
               ![m] = (badSources[m] \ ((sources[i] \ sources[m]) \ passive)) \cup passive,
               ![i] = {}]
         /\ userQueue' \subseteq userQueue
               \cup Entries(m, priority[m], (sources[i] \ sources[m]) \ passive)
    BY DEF MoveOnto
<1> DEFINE new == (sources[i] \ sources[m]) \ passive
<1>3. i # m
    BY <1>1, TargetOf DEF QueueInv
<1>4. broken' \in BOOLEAN
    <2>1. broken' = broken \/ CheckEntries(i, sources[i])
        BY DEF MoveOnto
    <2>2. CASE broken' = broken
        BY <2>2 DEF QueueInv, TypeOK
    <2>3. CASE CheckEntries(i, sources[i])
        BY <2>3, CheckTyped
    <2> QED
        BY <2>1, <2>2, <2>3
<1>5. /\ sources \in [Items -> SUBSET Users] /\ badSources \in [Items -> SUBSET Users]
      /\ priority \in [Items -> Priorities]
    BY DEF QueueInv, TypeOK
<1> HIDE DEF i, m
<1>6. /\ new \subseteq Users /\ passive \subseteq Users /\ new \cap passive = {}
      /\ passive \cap sources[m] = {}
    BY <1>1, <1>5
<1>7. /\ sources' = [sources EXCEPT ![m] = sources[m] \cup new, ![i] = {}]
      /\ badSources' = [badSources EXCEPT ![m] = (badSources[m] \ new) \cup passive, ![i] = {}]
      /\ userQueue' \subseteq userQueue \cup Entries(m, priority[m], new)
    BY <1>2
<1> HIDE DEF new
<1>8. OneTarget' /\ fileQueue' \in [Targets -> Items \cup {NoItem}]
    BY <1>1, FewerTargets
<1>9. TypeOK'
    <2>1. Entries(m, priority[m], new) \subseteq Priorities \X Users \X Items
        BY <1>1, <1>5, <1>6 DEF Entries
    <2>2. userQueue' \subseteq Priorities \X Users \X Items
        BY <1>7, <2>1 DEF QueueInv, TypeOK
    <2>3. sources' \in [Items -> SUBSET Users] /\ badSources' \in [Items -> SUBSET Users]
        BY <1>1, <1>5, <1>6, <1>7
    <2>4. progress' \in [Items -> Progress] /\ priority' \in [Items -> Priorities]
        BY <1>1, ResetTyped
    <2> QED
        BY <1>1, <1>4, <1>8, <2>2, <2>3, <2>4 DEF QueueInv, TypeOK
<1>10. SourcesDisjoint'
    <2> SUFFICES ASSUME NEW k \in Items PROVE sources'[k] \cap badSources'[k] = {}
        BY DEF SourcesDisjoint
    <2>1. sources[k] \cap badSources[k] = {}
        BY DEF QueueInv, SourcesDisjoint
    <2>2. /\ sources'[k] = IF k = i THEN {} ELSE IF k = m THEN sources[m] \cup new
                           ELSE sources[k]
          /\ badSources'[k] = IF k = i THEN {}
                              ELSE IF k = m THEN (badSources[m] \ new) \cup passive
                              ELSE badSources[k]
        BY <1>1, <1>3, <1>5, <1>7
    <2> QED
        BY <1>6, <2>1, <2>2
<1> QED
    BY <1>8, <1>9, <1>10 DEF QueueInv

\* The Rechecker's sections, moveStuckFile included.
LEMMA RecheckQueueInv ==
    ASSUME QueueInv,
           \/ \E t \in Targets : RecheckStart(t)
           \/ RecheckGivesUp \/ RecheckReset \/ RecheckDone \/ MoveStuckFile
    PROVE  QueueInv'
<1> USE ConstAssumption
<1> DEFINE r == recheck.target
           i == fileQueue[r]
<1>1. \/ recheck = Idle
      \/ recheck.step \in {"found", "reset"} /\ r \in Targets
    BY DEF QueueInv, TypeOK, Targets
<1>2. recheck' \in {Idle} \cup [step : {"found", "reset"}, target : Files]
    BY DEF RecheckStart, RecheckGivesUp, RecheckReset, RecheckDone, MoveStuckFile, QueueInv,
           TypeOK, Idle
<1>3. ASSUME UNCHANGED <<fileQueue, userQueue, running, priority, sources, badSources, downloads,
                         connection, broken>>,
             progress' \in [Items -> Progress]
      PROVE  QueueInv'
    BY <1>2, <1>3 DEF QueueInv, TypeOK, OneTarget, SourcesDisjoint
<1>4. CASE (\E t \in Targets : RecheckStart(t)) \/ RecheckGivesUp
    <2>1. progress' = progress
        BY <1>4 DEF RecheckStart, RecheckGivesUp, item
    <2> QED
        BY <1>3, <1>4, <2>1 DEF RecheckStart, RecheckGivesUp, item, QueueInv, TypeOK
<1>5. CASE RecheckReset \/ RecheckDone
    <2>1. i \in Items
        BY <1>1, <1>5 DEF RecheckReset, RecheckDone, QueueInv, TypeOK, Idle
    <2>2. progress' = progress \/ \E g \in Progress : progress' = [progress EXCEPT ![i] = g]
        BY <1>5, <2>1, ResetTyped DEF RecheckReset, RecheckDone
    <2> HIDE DEF i, r
    <2>3. progress' \in [Items -> Progress]
        BY <2>1, <2>2, ResetTyped DEF QueueInv, TypeOK
    <2> QED
        BY <1>3, <1>5, <2>3 DEF RecheckReset, RecheckDone
<1>6. CASE MoveStuckFile
    <2>1. r \in Targets /\ i \in Items /\ i # NoItem
        BY <1>1, <1>6 DEF MoveStuckFile, QueueInv, TypeOK, Idle
    <2>2. userQueue' \subseteq userQueue
        BY <1>6 DEF MoveStuckFile
    <2>3. broken' \in BOOLEAN
        <3>1. broken' = broken \/ CheckEntries(i, sources[i])
            BY <1>6 DEF MoveStuckFile
        <3>2. CASE broken' = broken
            BY <3>2 DEF QueueInv, TypeOK
        <3>3. CASE CheckEntries(i, sources[i])
            BY <3>3, CheckTyped
        <3> QED
            BY <3>1, <3>2, <3>3
    <2>4. /\ running' = running /\ connection' = connection
          /\ running' \in [Users -> Items \cup {NoItem}]
          /\ connection' \in [Users -> Targets \cup {NoDownload}]
          /\ userQueue' \subseteq Priorities \X Users \X Items
        BY <1>6, <2>2 DEF MoveStuckFile, QueueInv, TypeOK
    <2>5. CASE KeepFinished
        <3>1. /\ progress' = [progress EXCEPT ![i] = "full"]
              /\ UNCHANGED <<fileQueue, priority, sources, badSources, downloads>>
            BY <1>6, <2>5 DEF MoveStuckFile
        <3> HIDE DEF i, r
        <3>2. progress' \in [Items -> Progress]
            BY <2>1, <3>1, ResetTyped
        <3>3. TypeOK'
            BY <1>2, <2>3, <2>4, <3>1, <3>2 DEF QueueInv, TypeOK
        <3> QED
            BY <3>1, <3>3 DEF QueueInv, OneTarget, SourcesDisjoint
    <2>6. CASE ~KeepFinished
        <3>1. Delete(r)
            BY <1>6, <2>6 DEF MoveStuckFile
        <3> QED
            BY <1>2, <2>1, <2>2, <2>3, <2>4, <3>1, DeleteQueueInv
    <2> QED
        BY <2>5, <2>6
<1> QED
    BY <1>4, <1>5, <1>6

\* The queue starts empty, and every operation preserves the three.
LEMMA QueueInvHolds == Spec => []QueueInv
<1>1. ASSUME Init PROVE QueueInv
    <2>1. PAUSED \in Priorities /\ "none" \in Progress
        BY ConstAssumption DEF PAUSED, Priorities, Progress
    <2>2. TypeOK
        BY <1>1, <2>1 DEF Init, TypeOK
    <2>3. \A t \in Targets : fileQueue[t] = NoItem
        BY <1>1 DEF Init
    <2> QED
        BY <1>1, <2>2, <2>3 DEF Init, QueueInv, OneTarget, SourcesDisjoint
<1>2. ASSUME QueueInv, [Next]_vars PROVE QueueInv'
    <2>1. CASE UNCHANGED vars
        BY <1>2, <2>1 DEF vars, QueueInv, TypeOK, OneTarget, SourcesDisjoint
    <2>2. ASSUME NEW u \in Users,
                 \/ GetDownload(u) \/ PutLate(u) \/ PutUnfinished(u) \/ PutComplete(u)
                 \/ PutCorrupt(u) \/ RemoveSourceEverywhere(u)
          PROVE  QueueInv'
        BY <1>2, <2>2, TransferQueueInv, CompleteQueueInv, RemoveEverywhereQueueInv
    <2>3. ASSUME NEW t \in Targets, NEW u \in Users,
                 AddNew(t, u) \/ AddToExisting(t, u) \/ RemoveSource(t, u)
          PROVE  QueueInv'
        BY <1>2, <2>3, AddQueueInv, RemoveQueueInv
    <2>4. ASSUME NEW t \in Targets, Remove(t) PROVE QueueInv'
        BY <1>2, <2>4, RemoveQueueInv
    <2>5. ASSUME NEW t \in Targets, NEW p \in Priorities, SetPriority(t, p) PROVE QueueInv'
        BY <1>2, <2>5, ChangeQueueInv
    <2>6. ASSUME NEW s \in Targets, NEW t \in Targets, Move(s, t) \/ MoveOnto(s, t)
          PROVE  QueueInv'
        <3>1. MaxPriority \in Priorities
            BY ConstAssumption DEF Priorities
        <3> QED
            BY <1>2, <2>6, <3>1, ChangeQueueInv, MergeQueueInv
    <2> QED
        BY <1>2, <2>1, <2>2, <2>3, <2>4, <2>5, <2>6, RecheckQueueInv DEF Next
<1> QED
    BY <1>1, <1>2, PTL DEF Spec

-----------------------------------------------------------------------------
(* No dangling pointers, as long as nothing is rechecked.                  *)

\* What UserQueue lists is queued, at its priority, under one of its sources:
\* half of UserQueueIsCache, one entry at a time.
EntriesLive ==
    \A p \in Priorities, u \in Users, i \in Items :
        <<p, u, i>> \in userQueue => Queued(i) /\ p = priority[i] /\ u \in sources[i]

\* A finished item is out of UserQueue and nobody runs it: remove then has no need
\* to look for it there.
FinishedIsOut ==
    \A i \in Items : IsFinished(i) =>
        /\ Queued(i) /\ downloads[i] = {}
        /\ \A p \in Priorities, u \in Users : <<p, u, i>> \notin userQueue

\* Only a source of an item runs it: UserQueue::remove, which goes through the
\* sources, then finds every running download.
RunnersAreSources == \A i \in Items : downloads[i] \subseteq sources[i]

\* A file list has no source but the user whose list it is.
ListSources ==
    \A u \in Users : fileQueue[u] # NoItem => sources[fileQueue[u]] \subseteq {u}

PointerInv ==
    /\ recheck = Idle
    /\ EntriesLive
    /\ FinishedIsOut
    /\ RunningIsListed
    /\ RunnersAreSources
    /\ ListSources

IndexInv == QueueInv /\ PointerInv

\* What a user runs is what its connection holds the Download of.
LEMMA RunningOf ==
    ASSUME IndexInv, NEW u \in Users, connection[u] # NoDownload
    PROVE  /\ connection[u] \in Targets
           /\ running[u] # NoItem => running[u] = fileQueue[connection[u]]
BY DEF IndexInv, QueueInv, TypeOK, PointerInv, RunningIsListed

\* Taking the entries of a finished item out of UserQueue changes nothing.
LEMMA NothingToTake ==
    ASSUME IndexInv, NEW i \in Items, IsFinished(i)
    PROVE  /\ userQueue \ Entries(i, priority[i], sources[i]) = userQueue
           /\ \A us \in SUBSET Users : userQueue \ Entries(i, priority[i], us) = userQueue
           /\ \A v \in Users : running[v] # i
<1>1. /\ priority[i] \in Priorities /\ sources[i] \in SUBSET Users
      /\ \A p \in Priorities, u \in Users : <<p, u, i>> \notin userQueue
    BY DEF IndexInv, QueueInv, TypeOK, PointerInv, FinishedIsOut
<1>2. ASSUME NEW us \in SUBSET Users
      PROVE  userQueue \ Entries(i, priority[i], us) = userQueue
    <2>1. \A e \in Entries(i, priority[i], us) : e \notin userQueue
        BY <1>1 DEF Entries
    <2> QED
        BY <2>1
<1>3. \A v \in Users : running[v] # i
    BY DEF IndexInv, PointerInv, FinishedIsOut, RunningIsListed
<1> QED
    BY <1>1, <1>2, <1>3

\* A step after which no file list has a source it did not have.
LEMMA ListsKept ==
    ASSUME IndexInv,
           \A v \in Users : fileQueue'[v] \in {fileQueue[v], NoItem},
           \A v \in Users : fileQueue[v] # NoItem =>
               sources'[fileQueue[v]] \subseteq sources[fileQueue[v]]
    PROVE  ListSources'
BY DEF ListSources, IndexInv, PointerInv

\* QueueManager::add of a new target.
LEMMA AddNewStep ==
    ASSUME IndexInv, NEW t \in Targets, NEW u \in Users, AddNew(t, u)
    PROVE  PointerInv'
<1> USE ConstAssumption
<1>1. PICK i \in Items, p \in Priorities, passive \in BOOLEAN :
          /\ Unused(i)
          /\ fileQueue' = [fileQueue EXCEPT ![t] = i]
          /\ priority' = [priority EXCEPT ![i] = p]
          /\ sources' = [sources EXCEPT ![i] = IF passive THEN {} ELSE {u}]
          /\ userQueue' = IF passive THEN userQueue ELSE userQueue \cup {<<p, u, i>>}
    <2>1. InitialPriority(t) \subseteq Priorities
        BY DEF InitialPriority, Priorities
    <2> QED
        BY <2>1 DEF AddNew
<1>2. /\ fileQueue[t] = NoItem /\ (t \in Users => t = u)
      /\ UNCHANGED <<running, progress, downloads, connection, recheck, broken>>
    BY DEF AddNew
<1>3. /\ fileQueue \in [Targets -> Items \cup {NoItem}]
      /\ priority \in [Items -> Priorities] /\ sources \in [Items -> SUBSET Users]
      /\ connection \in [Users -> Targets \cup {NoDownload}]
    BY DEF IndexInv, QueueInv, TypeOK
<1>4. /\ ~Queued(i) /\ \A s \in Targets : fileQueue[s] # i
      /\ \A q, v : <<q, v, i>> \notin userQueue
    BY <1>1 DEF Unused, Queued
<1>5. \A k \in Items : Queued(k)' <=> (Queued(k) \/ k = i)
    BY <1>1, <1>2, <1>3, <1>4 DEF Queued
<1>6. downloads[i] = {} /\ ~IsFinished(i)
    <2>1. downloads[i] \subseteq Users /\ \A v \in Users : running[v] # i
        BY <1>1 DEF Unused, IndexInv, QueueInv, TypeOK
    <2> QED
        BY <1>4, <2>1 DEF IndexInv, PointerInv, RunningIsListed, FinishedIsOut
<1>7. EntriesLive'
    <2> SUFFICES ASSUME NEW q \in Priorities, NEW v \in Users, NEW k \in Items,
                        <<q, v, k>> \in userQueue'
                 PROVE  Queued(k)' /\ q = priority'[k] /\ v \in sources'[k]
        BY DEF EntriesLive
    <2>1. CASE <<q, v, k>> \in userQueue
        <3>1. k # i /\ Queued(k) /\ q = priority[k] /\ v \in sources[k]
            BY <1>4, <2>1 DEF IndexInv, PointerInv, EntriesLive
        <3> QED
            BY <1>1, <1>3, <1>5, <3>1
    <2>2. CASE <<q, v, k>> \notin userQueue
        <3>1. ~passive /\ q = p /\ v = u /\ k = i
            BY <1>1, <2>2
        <3> QED
            BY <1>1, <1>3, <1>5, <3>1
    <2> QED
        BY <2>1, <2>2
<1>8. FinishedIsOut'
    <2> SUFFICES ASSUME NEW k \in Items, IsFinished(k)'
                 PROVE  /\ Queued(k)' /\ downloads'[k] = {}
                        /\ \A q \in Priorities, v \in Users : <<q, v, k>> \notin userQueue'
        BY DEF FinishedIsOut
    <2>1. IsFinished(k) /\ k # i
        BY <1>2, <1>6 DEF IsFinished
    <2>2. /\ Queued(k) /\ downloads[k] = {}
          /\ \A q \in Priorities, v \in Users : <<q, v, k>> \notin userQueue
        BY <2>1 DEF IndexInv, PointerInv, FinishedIsOut
    <2> QED
        BY <1>1, <1>2, <1>5, <2>1, <2>2
<1>9. RunnersAreSources'
    BY <1>1, <1>2, <1>3, <1>6 DEF IndexInv, PointerInv, RunnersAreSources
<1>10. RunningIsListed'
    <2>1. \A v \in Users : connection[v] # NoDownload /\ fileQueue[connection[v]] # NoItem
             => fileQueue'[connection[v]] = fileQueue[connection[v]]
        BY <1>1, <1>2, <1>3
    <2> QED
        BY <1>2, <2>1 DEF IndexInv, PointerInv, RunningIsListed
<1>11. ListSources'
    <2>1. \A v \in Users : v # t => fileQueue'[v] = fileQueue[v] /\ fileQueue[v] # i
        BY <1>1, <1>3, <1>4 DEF Targets
    <2>2. sources'[i] \subseteq {u} /\ \A k \in Items : k # i => sources'[k] = sources[k]
        BY <1>1, <1>3
    <2>3. fileQueue'[t] = i /\ \A v \in Users : fileQueue[v] \in Items \cup {NoItem}
        BY <1>1, <1>3 DEF Targets
    <2> QED
        BY <1>2, <2>1, <2>2, <2>3 DEF ListSources, IndexInv, PointerInv
<1> QED
    BY <1>2, <1>7, <1>8, <1>9, <1>10, <1>11 DEF IndexInv, PointerInv

\* addSource to an item that is queued.
LEMMA AddToExistingStep ==
    ASSUME IndexInv, NEW t \in Targets, NEW u \in Users, AddToExisting(t, u)
    PROVE  PointerInv'
<1> USE ConstAssumption
<1> DEFINE i == fileQueue[t]
<1>1. /\ i \in Items /\ i # NoItem /\ Queued(i) /\ (t \in Users => t = u)
      /\ UNCHANGED <<fileQueue, running, priority, progress, downloads, connection, recheck,
                     broken>>
    BY DEF AddToExisting, IndexInv, QueueInv, TypeOK, Queued
<1>2. PICK passive \in BOOLEAN : AddSource(i, u, passive)
    BY DEF AddToExisting
<1>3. sources \in [Items -> SUBSET Users] /\ \A v \in Users : fileQueue[v] = i => v = t
    BY <1>1, TargetOf DEF IndexInv, QueueInv, TypeOK, Targets
<1>4. fileQueue[t] = i
    OBVIOUS
<1> HIDE DEF i
<1>5. /\ sources' = IF passive THEN sources ELSE [sources EXCEPT ![i] = sources[i] \cup {u}]
      /\ userQueue' = IF passive \/ IsFinished(i) THEN userQueue
                      ELSE userQueue \cup {<<priority[i], u, i>>}
    BY <1>2 DEF AddSource
<1>6. EntriesLive'
    <2> SUFFICES ASSUME NEW q \in Priorities, NEW v \in Users, NEW k \in Items,
                        <<q, v, k>> \in userQueue'
                 PROVE  Queued(k)' /\ q = priority'[k] /\ v \in sources'[k]
        BY DEF EntriesLive
    <2>1. (Queued(k)' <=> Queued(k)) /\ priority' = priority
        BY <1>1 DEF Queued
    <2>2. CASE <<q, v, k>> \in userQueue
        <3>1. Queued(k) /\ q = priority[k] /\ v \in sources[k]
            BY <2>2 DEF IndexInv, PointerInv, EntriesLive
        <3>2. sources[k] \subseteq sources'[k]
            BY <1>3, <1>5
        <3> QED
            BY <2>1, <3>1, <3>2
    <2>3. CASE <<q, v, k>> \notin userQueue
        <3>1. ~passive /\ q = priority[i] /\ v = u /\ k = i
            BY <1>5, <2>3
        <3> QED
            BY <1>1, <1>3, <1>5, <2>1, <3>1
    <2> QED
        BY <2>2, <2>3
<1>7. FinishedIsOut'
    <2> SUFFICES ASSUME NEW k \in Items, IsFinished(k)'
                 PROVE  /\ Queued(k)' /\ downloads'[k] = {}
                        /\ \A q \in Priorities, v \in Users : <<q, v, k>> \notin userQueue'
        BY DEF FinishedIsOut
    <2>1. IsFinished(k) /\ (Queued(k)' <=> Queued(k))
        BY <1>1 DEF IsFinished, Queued
    <2>2. /\ Queued(k) /\ downloads[k] = {}
          /\ \A q \in Priorities, v \in Users : <<q, v, k>> \notin userQueue
        BY <2>1 DEF IndexInv, PointerInv, FinishedIsOut
    <2> QED
        BY <1>1, <1>5, <2>1, <2>2
<1>8. RunnersAreSources'
    BY <1>1, <1>3, <1>5 DEF IndexInv, PointerInv, RunnersAreSources
<1>9. ListSources'
    <2> SUFFICES ASSUME NEW v \in Users, fileQueue'[v] # NoItem
                 PROVE  sources'[fileQueue'[v]] \subseteq {v}
        BY DEF ListSources
    <2>1. fileQueue' = fileQueue /\ sources[fileQueue[v]] \subseteq {v}
        BY <1>1 DEF ListSources, IndexInv, PointerInv
    <2>2. fileQueue[v] \in Items
        BY <2>1 DEF IndexInv, QueueInv, TypeOK, Targets
    <2>3. CASE fileQueue[v] = i
        <3>1. v = u
            BY <1>1, <1>3, <2>3
        <3> QED
            BY <1>3, <1>5, <2>1, <2>2, <2>3, <3>1
    <2>4. CASE fileQueue[v] # i
        BY <1>3, <1>5, <2>1, <2>2, <2>4
    <2> QED
        BY <2>3, <2>4
<1> QED
    BY <1>1, <1>6, <1>7, <1>8, <1>9 DEF IndexInv, PointerInv, RunningIsListed

\* QueueManager::getDownload.
LEMMA GetDownloadStep ==
    ASSUME IndexInv, NEW u \in Users, GetDownload(u)
    PROVE  PointerInv'
<1> USE ConstAssumption
<1>1. PICK t \in Targets :
          /\ fileQueue[t] # NoItem
          /\ MayGet(u, fileQueue[t])
          /\ progress' \in {progress, [progress EXCEPT ![fileQueue[t]] = "none"]}
          /\ downloads' = [downloads EXCEPT ![fileQueue[t]] = downloads[fileQueue[t]] \cup {u}]
          /\ running' = [running EXCEPT ![u] = fileQueue[t]]
          /\ broken' = (broken \/ running[u] # NoItem)
          /\ connection' = [connection EXCEPT ![u] = t]
    BY DEF GetDownload
<1> DEFINE i == fileQueue[t]
<1>2. /\ i \in Items
      /\ connection[u] = NoDownload
      /\ UNCHANGED <<fileQueue, userQueue, priority, sources, badSources, recheck>>
    BY <1>1 DEF GetDownload, IndexInv, QueueInv, TypeOK
<1>3. running[u] = NoItem
    BY <1>2 DEF IndexInv, PointerInv, RunningIsListed
<1>4. priority[i] \in Priorities /\ <<priority[i], u, i>> \in userQueue
    BY <1>1, <1>2 DEF MayGet, IndexInv, QueueInv, TypeOK
<1>5. u \in sources[i] /\ ~IsFinished(i)
    BY <1>2, <1>4 DEF IndexInv, PointerInv, EntriesLive, FinishedIsOut
<1>6. \A k \in Items : u \notin downloads[k]
    BY <1>3 DEF IndexInv, PointerInv, RunningIsListed
<1>7. fileQueue[t] = i
    OBVIOUS
<1> HIDE DEF i
<1>8. /\ running \in [Users -> Items \cup {NoItem}]
      /\ downloads \in [Items -> SUBSET Users]
      /\ connection \in [Users -> Targets \cup {NoDownload}]
      /\ progress \in [Items -> Progress]
    BY DEF IndexInv, QueueInv, TypeOK
<1>9. RunnersAreSources'
    BY <1>1, <1>2, <1>5, <1>7, <1>8 DEF IndexInv, PointerInv, RunnersAreSources
<1>10. RunningIsListed'
    <2>1. \A v \in Users, k \in Items : running'[v] = k <=> v \in downloads'[k]
        BY <1>1, <1>2, <1>6, <1>7, <1>8 DEF IndexInv, PointerInv, RunningIsListed
    <2>2. \A v \in Users : running'[v] # NoItem =>
             connection'[v] # NoDownload /\ fileQueue'[connection'[v]] = running'[v]
        BY <1>1, <1>2, <1>7, <1>8 DEF IndexInv, PointerInv, RunningIsListed, Targets
    <2> QED
        BY <2>1, <2>2 DEF RunningIsListed
<1>11. FinishedIsOut'
    <2>1. \A k \in Items : progress'[k] = "full" => progress[k] = "full" /\ k # i
        BY <1>1, <1>2, <1>5, <1>7, <1>8 DEF IsFinished
    <2>2. \A k \in Items : k # i => downloads'[k] = downloads[k]
        BY <1>1, <1>7, <1>8
    <2> QED
        BY <1>2, <2>1, <2>2 DEF IndexInv, PointerInv, FinishedIsOut, IsFinished, Queued
<1>12. EntriesLive' /\ ListSources'
    BY <1>2 DEF IndexInv, PointerInv, EntriesLive, ListSources, Queued
<1> QED
    BY <1>2, <1>9, <1>10, <1>11, <1>12 DEF IndexInv, PointerInv

\* putDownload of a removed target, of a failure and of a segment that does not
\* complete the file.
LEMMA PutUnfinishedStep ==
    ASSUME IndexInv, NEW u \in Users, PutLate(u) \/ PutUnfinished(u)
    PROVE  PointerInv'
<1> USE ConstAssumption
<1> DEFINE i == fileQueue[connection[u]]
<1>1. /\ connection[u] # NoDownload /\ connection[u] \in Targets
      /\ connection' = [connection EXCEPT ![u] = NoDownload]
      /\ UNCHANGED <<fileQueue, userQueue, priority, sources, badSources, recheck, broken>>
    BY RunningOf DEF PutLate, PutUnfinished, item
<1>2. running[u] # NoItem => running[u] = i
    BY <1>1, RunningOf
<1>3. /\ running \in [Users -> Items \cup {NoItem}]
      /\ downloads \in [Items -> SUBSET Users]
      /\ connection \in [Users -> Targets \cup {NoDownload}]
      /\ progress \in [Items -> Progress]
    BY DEF IndexInv, QueueInv, TypeOK
<1>4. EntriesLive' /\ ListSources'
    BY <1>1 DEF IndexInv, PointerInv, EntriesLive, ListSources, Queued
<1>5. CASE PutLate(u)
    <2>1. running[u] = NoItem /\ running' = running /\ downloads' = downloads
          /\ progress' = progress
        BY <1>2, <1>5 DEF PutLate, item
    <2>2. RunningIsListed'
        BY <1>1, <1>3, <2>1 DEF IndexInv, PointerInv, RunningIsListed
    <2> QED
        BY <1>1, <1>4, <2>1, <2>2
           DEF IndexInv, PointerInv, FinishedIsOut, IsFinished, Queued, RunnersAreSources
<1>6. CASE PutUnfinished(u)
    <2>1. /\ i \in Items
          /\ running' = [running EXCEPT ![u] = NoItem]
          /\ downloads' = [downloads EXCEPT ![i] = downloads[i] \ {u}]
          /\ progress' \in {progress, [progress EXCEPT ![i] = "part"]}
        BY <1>1, <1>6 DEF PutUnfinished, RemoveDownload, Advance, IndexInv, QueueInv, TypeOK
    <2> HIDE DEF i
    <2>2. RunningIsListed'
        <3>1. \A v \in Users, k \in Items : running'[v] = k <=> v \in downloads'[k]
            BY <1>2, <1>3, <2>1 DEF IndexInv, PointerInv, RunningIsListed
        <3>2. \A v \in Users : running'[v] # NoItem =>
                 connection'[v] # NoDownload /\ fileQueue'[connection'[v]] = running'[v]
            BY <1>1, <1>3, <2>1 DEF IndexInv, PointerInv, RunningIsListed
        <3> QED
            BY <3>1, <3>2 DEF RunningIsListed
    <2>3. FinishedIsOut'
        <3>1. \A k \in Items : progress'[k] = "full" => progress[k] = "full"
            BY <1>3, <2>1
        <3>2. \A k \in Items : downloads'[k] \subseteq downloads[k]
            BY <1>3, <2>1
        <3> QED
            BY <1>1, <3>1, <3>2 DEF IndexInv, PointerInv, FinishedIsOut, IsFinished, Queued
    <2>4. RunnersAreSources'
        BY <1>1, <1>3, <2>1 DEF IndexInv, PointerInv, RunnersAreSources
    <2> QED
        BY <1>1, <1>4, <2>2, <2>3, <2>4 DEF IndexInv, PointerInv
<1> QED
    BY <1>5, <1>6

\* An item that is taken out of both indexes leaves nothing behind, whether its
\* connections still hold Downloads for it or one of them has just ended.
LEMMA DeleteStep ==
    ASSUME IndexInv, NEW t \in Targets, fileQueue[t] # NoItem, Delete(t),
           userQueue' = userQueue \ Entries(fileQueue[t], priority[fileQueue[t]],
                                            sources[fileQueue[t]]),
           running' = [v \in Users |-> IF v \in sources[fileQueue[t]]
                                          /\ running[v] = fileQueue[t]
                                       THEN NoItem ELSE running[v]],
           recheck' = recheck,
           connection' \in [Users -> Targets \cup {NoDownload}],
           \A v \in Users : connection'[v] = connection[v] \/ connection[v] = t
    PROVE  PointerInv'
<1> USE ConstAssumption
<1> DEFINE i == fileQueue[t]
<1>1. /\ i \in Items
      /\ fileQueue' = [fileQueue EXCEPT ![t] = NoItem]
      /\ priority' = [priority EXCEPT ![i] = PAUSED]
      /\ sources' = [sources EXCEPT ![i] = {}]
      /\ progress' = [progress EXCEPT ![i] = "none"]
      /\ downloads' = [downloads EXCEPT ![i] = {}]
    BY DEF Delete, IndexInv, QueueInv, TypeOK
<1>2. \A v \in Users : running'[v] = IF running[v] = i THEN NoItem ELSE running[v]
    BY <1>1 DEF IndexInv, PointerInv, RunningIsListed, RunnersAreSources
<1>3. \A s \in Targets : fileQueue[s] = i <=> s = t
    BY <1>1, TargetOf DEF IndexInv, QueueInv
<1> HIDE DEF i
<1>4. /\ fileQueue \in [Targets -> Items \cup {NoItem}]
      /\ priority \in [Items -> Priorities] /\ sources \in [Items -> SUBSET Users]
      /\ downloads \in [Items -> SUBSET Users] /\ progress \in [Items -> Progress]
      /\ running \in [Users -> Items \cup {NoItem}]
      /\ connection \in [Users -> Targets \cup {NoDownload}]
    BY DEF IndexInv, QueueInv, TypeOK
<1>5. \A k \in Items : Queued(k)' <=> Queued(k) /\ k # i
    BY <1>1, <1>3, <1>4 DEF Queued
<1>6. EntriesLive'
    <2> SUFFICES ASSUME NEW q \in Priorities, NEW v \in Users, NEW k \in Items,
                        <<q, v, k>> \in userQueue'
                 PROVE  Queued(k)' /\ q = priority'[k] /\ v \in sources'[k]
        BY DEF EntriesLive
    <2>1. /\ <<q, v, k>> \in userQueue
          /\ ~(q = priority[i] /\ v \in sources[i] /\ k = i)
        BY EntriesOf DEF i
    <2>2. Queued(k) /\ q = priority[k] /\ v \in sources[k] /\ k # i
        BY <2>1 DEF IndexInv, PointerInv, EntriesLive
    <2> QED
        BY <1>1, <1>4, <1>5, <2>2
<1>7. FinishedIsOut'
    <2>1. \A k \in Items : progress'[k] = "full" => progress[k] = "full" /\ k # i
        BY <1>1, <1>4
    <2>2. \A k \in Items : k # i => downloads'[k] = downloads[k]
        BY <1>1, <1>4
    <2>3. userQueue' \subseteq userQueue
        OBVIOUS
    <2> QED
        BY <1>5, <2>1, <2>2, <2>3 DEF IndexInv, PointerInv, FinishedIsOut, IsFinished
<1>8. RunnersAreSources'
    BY <1>1, <1>4 DEF IndexInv, PointerInv, RunnersAreSources
<1>9. RunningIsListed'
    <2>1. \A v \in Users, k \in Items : running'[v] = k <=> v \in downloads'[k]
        BY <1>1, <1>2, <1>4 DEF IndexInv, PointerInv, RunningIsListed
    <2>2. ASSUME NEW v \in Users, running'[v] # NoItem
          PROVE  connection'[v] # NoDownload /\ fileQueue'[connection'[v]] = running'[v]
        <3>1. /\ running[v] # NoItem /\ running[v] # i /\ running'[v] = running[v]
              /\ connection[v] # NoDownload /\ fileQueue[connection[v]] = running[v]
              /\ connection[v] \in Targets
            BY <1>2, <1>4, <2>2 DEF IndexInv, PointerInv, RunningIsListed
        <3>2. connection[v] # t /\ connection'[v] = connection[v]
            BY <1>3, <3>1
        <3> QED
            BY <1>1, <1>4, <3>1, <3>2
    <2> QED
        BY <2>1, <2>2 DEF RunningIsListed
<1>10. ListSources'
    <2>1. \A v \in Users : fileQueue'[v] \in {fileQueue[v], NoItem}
        BY <1>1, <1>4 DEF Targets
    <2>2. \A k \in Items : sources'[k] \subseteq sources[k]
        BY <1>1, <1>4
    <2> QED
        BY <1>4, <2>1, <2>2, ListsKept DEF Targets
<1> QED
    BY <1>6, <1>7, <1>8, <1>9, <1>10 DEF IndexInv, PointerInv

\* A complete file that is kept: the entries go, and everybody who runs it stops,
\* the runners being sources.
LEMMA KeepStep ==
    ASSUME IndexInv, NEW u \in Users, PutComplete(u), KeepFinished, connection[u] \in Files
    PROVE  PointerInv'
<1> USE ConstAssumption
<1> DEFINE t == connection[u]
           i == fileQueue[t]
<1>1. /\ t \in Targets /\ i \in Items
      /\ connection' = [connection EXCEPT ![u] = NoDownload]
      /\ userQueue' = userQueue \ Entries(i, priority[i], sources[i])
      /\ progress' = [progress EXCEPT ![i] = "full"]
      /\ ForgetRunning(i, sources[i])
      /\ UNCHANGED <<fileQueue, priority, sources, badSources, recheck>>
    BY DEF PutComplete, IndexInv, QueueInv, TypeOK, Targets
<1>2. running[u] # NoItem => running[u] = i
    BY RunningOf DEF PutComplete
<1>3. Queued(i)
    BY <1>1 DEF Queued
<1> HIDE DEF i, t
<1>4. /\ running \in [Users -> Items \cup {NoItem}]
      /\ downloads \in [Items -> SUBSET Users] /\ progress \in [Items -> Progress]
      /\ connection \in [Users -> Targets \cup {NoDownload}]
      /\ \A v \in Users, k \in Items : running[v] = k <=> v \in downloads[k]
      /\ \A v \in Users : running[v] = i => v \in sources[i]
    BY <1>1 DEF IndexInv, QueueInv, TypeOK, PointerInv, RunningIsListed, RunnersAreSources
<1>5. /\ \A v \in Users : running'[v] = IF running[v] = i THEN NoItem ELSE running[v]
      /\ downloads'[i] = {} /\ \A k \in Items : k # i => downloads'[k] = downloads[k]
    BY <1>1, <1>4 DEF ForgetRunning
<1>6. \A k \in Items : Queued(k)' <=> Queued(k)
    BY <1>1 DEF Queued
<1>7. EntriesLive'
    BY <1>1, <1>6 DEF IndexInv, PointerInv, EntriesLive
<1>8. FinishedIsOut'
    <2> SUFFICES ASSUME NEW k \in Items, IsFinished(k)'
                 PROVE  /\ Queued(k)' /\ downloads'[k] = {}
                        /\ \A q \in Priorities, v \in Users : <<q, v, k>> \notin userQueue'
        BY DEF FinishedIsOut
    <2>1. CASE k = i
        <3>1. ASSUME NEW q \in Priorities, NEW v \in Users PROVE <<q, v, k>> \notin userQueue'
            <4>1. <<q, v, k>> \in userQueue => q = priority[i] /\ v \in sources[i]
                BY <2>1 DEF IndexInv, PointerInv, EntriesLive
            <4>2. q = priority[i] /\ v \in sources[i]
                     => <<q, v, k>> \in Entries(i, priority[i], sources[i])
                BY <2>1, EntriesOf
            <4> QED
                BY <1>1, <4>1, <4>2
        <3> QED
            BY <1>3, <1>5, <1>6, <2>1, <3>1
    <2>2. CASE k # i
        <3>1. IsFinished(k)
            BY <1>1, <1>4, <2>2 DEF IsFinished
        <3> QED
            BY <1>1, <1>5, <1>6, <2>2, <3>1 DEF IndexInv, PointerInv, FinishedIsOut
    <2> QED
        BY <2>1, <2>2
<1>9. RunnersAreSources'
    BY <1>1, <1>5 DEF IndexInv, PointerInv, RunnersAreSources
<1>10. RunningIsListed'
    <2>1. \A v \in Users, k \in Items : running'[v] = k <=> v \in downloads'[k]
        BY <1>1, <1>4, <1>5
    <2>2. \A v \in Users : running'[v] # NoItem =>
             connection'[v] # NoDownload /\ fileQueue'[connection'[v]] = running'[v]
        BY <1>1, <1>2, <1>4, <1>5 DEF IndexInv, PointerInv, RunningIsListed
    <2> QED
        BY <2>1, <2>2 DEF RunningIsListed
<1> QED
    BY <1>1, <1>7, <1>8, <1>9, <1>10 DEF IndexInv, PointerInv, ListSources

\* QueueManager::remove, and putDownload of the segment that completes a file.
LEMMA RemoveStep ==
    ASSUME IndexInv,
           \/ \E t \in Targets : Remove(t)
           \/ \E u \in Users : PutComplete(u)
    PROVE  PointerInv'
<1> USE ConstAssumption
<1>1. ASSUME NEW t \in Targets, Remove(t) PROVE PointerInv'
    <2>1. fileQueue[t] # NoItem /\ fileQueue[t] \in Items
        BY <1>1 DEF Remove, IndexInv, QueueInv, TypeOK
    <2>2. /\ connection \in [Users -> Targets \cup {NoDownload}]
          /\ running \in [Users -> Items \cup {NoItem}]
        BY DEF IndexInv, QueueInv, TypeOK
    <2>3. CASE IsFinished(fileQueue[t])
        <3>1. userQueue' = userQueue /\ running' = running
            BY <1>1, <2>3 DEF Remove
        <3>2. /\ userQueue' = userQueue \ Entries(fileQueue[t], priority[fileQueue[t]],
                                                  sources[fileQueue[t]])
              /\ \A v \in Users : running[v] # fileQueue[t]
            BY <2>1, <2>3, <3>1, NothingToTake
        <3>3. running' = [v \in Users |-> IF v \in sources[fileQueue[t]]
                                             /\ running[v] = fileQueue[t]
                                          THEN NoItem ELSE running[v]]
            BY <2>2, <3>1, <3>2
        <3> QED
            BY <1>1, <2>1, <2>2, <3>2, <3>3, DeleteStep DEF Remove
    <2>4. CASE ~IsFinished(fileQueue[t])
        BY <1>1, <2>1, <2>2, <2>4, DeleteStep DEF Remove
    <2> QED
        BY <2>3, <2>4
<1>2. ASSUME NEW u \in Users, PutComplete(u) PROVE PointerInv'
    <2>1. connection[u] \in Targets /\ fileQueue[connection[u]] # NoItem
        BY <1>2, RunningOf DEF PutComplete
    <2>2. /\ connection' \in [Users -> Targets \cup {NoDownload}]
          /\ \A v \in Users : connection'[v] = connection[v] \/ connection[v] = connection[u]
        BY <1>2 DEF PutComplete, IndexInv, QueueInv, TypeOK
    <2>3. CASE KeepFinished /\ connection[u] \in Files
        BY <1>2, <2>3, KeepStep
    <2>4. CASE ~(KeepFinished /\ connection[u] \in Files)
        BY <1>2, <2>1, <2>2, <2>4, DeleteStep DEF PutComplete
    <2> QED
        BY <2>3, <2>4
<1> QED
    BY <1>1, <1>2

\* What taking the sources us from the item of t does; the users in gone stop
\* running it.
DropsSources(t, i, us, gone) ==
    /\ t \in Targets /\ fileQueue[t] = i /\ i # NoItem
    /\ us \subseteq sources[i] /\ us \subseteq gone /\ gone \subseteq Users
    /\ ForgetRunning(i, gone)
    /\ userQueue' = userQueue \ Entries(i, priority[i], us)
    /\ sources' = [sources EXCEPT ![i] = sources[i] \ us]
    /\ priority' \in [Items -> Priorities]
    /\ \A k \in Items : priority'[k] = priority[k] \/ (k = i /\ us = sources[i])
    /\ \A k \in Items : progress'[k] = progress[k] \/ progress'[k] = "none"
    /\ fileQueue' = fileQueue /\ recheck' = recheck
    /\ connection' \in [Users -> Targets \cup {NoDownload}]
    /\ \A v \in Users : connection'[v] = connection[v] \/ (connection[v] = t /\ v \in gone)

\* Some or all sources of an item are taken from it; those of them that run it
\* stop doing so.
LEMMA DropSourcesStep ==
    ASSUME IndexInv, NEW t, NEW i, NEW us, NEW gone, DropsSources(t, i, us, gone)
    PROVE  PointerInv'
<1> USE ConstAssumption
<1>1. i \in Items
    BY DEF DropsSources, IndexInv, QueueInv, TypeOK
<1>2. /\ \A v \in Users : running'[v] = IF v \in gone /\ running[v] = i
                                        THEN NoItem ELSE running[v]
      /\ downloads' = [downloads EXCEPT ![i] = downloads[i] \ {v \in gone : running[v] = i}]
    BY DEF DropsSources, ForgetRunning, IndexInv, QueueInv, TypeOK
<1>3. /\ downloads \in [Items -> SUBSET Users] /\ sources \in [Items -> SUBSET Users]
      /\ running \in [Users -> Items \cup {NoItem}]
      /\ \A v \in Users, k \in Items : running[v] = k <=> v \in downloads[k]
    BY DEF IndexInv, QueueInv, TypeOK, PointerInv, RunningIsListed
<1>4. sources' = [sources EXCEPT ![i] = sources[i] \ us]
    BY DEF DropsSources
<1>5. \A k \in Items : Queued(k)' <=> Queued(k)
    BY DEF Queued, DropsSources
<1>6. EntriesLive'
    <2> SUFFICES ASSUME NEW q \in Priorities, NEW v \in Users, NEW k \in Items,
                        <<q, v, k>> \in userQueue'
                 PROVE  Queued(k)' /\ q = priority'[k] /\ v \in sources'[k]
        BY DEF EntriesLive
    <2>1. <<q, v, k>> \in userQueue /\ ~(q = priority[i] /\ v \in us /\ k = i)
        BY EntriesOf DEF DropsSources
    <2>2. Queued(k) /\ q = priority[k] /\ v \in sources[k]
        BY <2>1 DEF IndexInv, PointerInv, EntriesLive
    <2>3. CASE k # i
        <3>1. priority'[k] = priority[k] /\ sources'[k] = sources[k]
            BY <1>3, <1>4, <2>3 DEF DropsSources
        <3> QED
            BY <1>5, <2>2, <3>1
    <2>4. CASE k = i
        <3>1. v \notin us /\ sources'[k] = sources[k] \ us
            BY <1>1, <1>3, <1>4, <2>1, <2>2, <2>4
        <3>2. priority'[k] = priority[k]
            BY <2>2, <2>4, <3>1 DEF DropsSources
        <3> QED
            BY <1>5, <2>2, <3>1, <3>2
    <2> QED
        BY <2>3, <2>4
<1>7. FinishedIsOut'
    <2>1. \A k \in Items : progress'[k] = "full" => progress[k] = "full"
        BY DEF DropsSources
    <2>2. \A k \in Items : downloads'[k] \subseteq downloads[k]
        BY <1>2, <1>3
    <2>3. userQueue' \subseteq userQueue
        BY DEF DropsSources
    <2> QED
        BY <1>5, <2>1, <2>2, <2>3 DEF IndexInv, PointerInv, FinishedIsOut, IsFinished
<1>8. RunnersAreSources'
    <2> SUFFICES ASSUME NEW k \in Items, NEW v \in downloads'[k] PROVE v \in sources'[k]
        BY DEF RunnersAreSources
    <2>1. v \in downloads[k] /\ v \in Users /\ v \in sources[k]
        BY <1>2, <1>3 DEF IndexInv, PointerInv, RunnersAreSources
    <2>2. CASE k = i
        <3>1. running[v] = i /\ ~(v \in gone /\ running[v] = i)
            BY <1>1, <1>2, <1>3, <2>1, <2>2
        <3>2. v \notin us
            BY <3>1 DEF DropsSources
        <3> QED
            BY <1>1, <1>3, <1>4, <2>1, <2>2, <3>2
    <2>3. CASE k # i
        BY <1>3, <1>4, <2>1, <2>3
    <2> QED
        BY <2>2, <2>3
<1>9. RunningIsListed'
    <2>1. \A v \in Users, k \in Items : running'[v] = k <=> v \in downloads'[k]
        BY <1>1, <1>2, <1>3
    <2>2. ASSUME NEW v \in Users, running'[v] # NoItem
          PROVE  connection'[v] # NoDownload /\ fileQueue'[connection'[v]] = running'[v]
        <3>1. /\ running[v] # NoItem /\ running'[v] = running[v]
              /\ ~(v \in gone /\ running[v] = i)
            BY <1>2, <2>2
        <3>2. connection[v] # NoDownload /\ fileQueue[connection[v]] = running[v]
            BY <3>1 DEF IndexInv, PointerInv, RunningIsListed
        <3>3. connection'[v] = connection[v]
            BY <3>1, <3>2 DEF DropsSources
        <3> QED
            BY <3>1, <3>2, <3>3 DEF DropsSources
    <2> QED
        BY <2>1, <2>2 DEF RunningIsListed
<1>10. ListSources'
    <2>1. fileQueue' = fileQueue /\ \A k \in Items : sources'[k] \subseteq sources[k]
        BY <1>3, <1>4 DEF DropsSources
    <2>2. \A v \in Users : fileQueue[v] \in Items \cup {NoItem}
        BY DEF IndexInv, QueueInv, TypeOK, Targets
    <2> QED
        BY <2>1, <2>2, ListsKept
<1> QED
    BY <1>6, <1>7, <1>8, <1>9, <1>10 DEF IndexInv, PointerInv, DropsSources

\* QueueManager::removeSource of one target, and checkSfv.
LEMMA RemoveSourceStep ==
    ASSUME IndexInv,
           \/ \E t \in Targets, u \in Users : RemoveSource(t, u)
           \/ \E u \in Users : PutCorrupt(u)
    PROVE  PointerInv'
<1> USE ConstAssumption
<1>1. ASSUME NEW t \in Targets, NEW u \in Users, RemoveSource(t, u) PROVE PointerInv'
    <2> DEFINE i == fileQueue[t]
    <2>1. i # NoItem /\ i \in Items
        BY <1>1 DEF RemoveSource, IndexInv, QueueInv, TypeOK
    <2>2. /\ {u} \subseteq sources[i] /\ ForgetRunning(i, {u})
          /\ sources' = [sources EXCEPT ![i] = sources[i] \ {u}]
          /\ UNCHANGED <<fileQueue, priority, progress, connection, recheck>>
        BY <1>1, <2>1 DEF RemoveSource
    <2>3. userQueue' = userQueue \ Entries(i, priority[i], {u})
        <3>1. CASE IsFinished(i)
            BY <1>1, <2>1, <3>1, NothingToTake DEF RemoveSource
        <3>2. CASE ~IsFinished(i)
            BY <1>1, <3>2 DEF RemoveSource
        <3> QED
            BY <3>1, <3>2
    <2>4. /\ priority \in [Items -> Priorities]
          /\ connection \in [Users -> Targets \cup {NoDownload}]
        BY DEF IndexInv, QueueInv, TypeOK
    <2>5. fileQueue[t] = i
        OBVIOUS
    <2> HIDE DEF i
    <2>6. /\ priority' \in [Items -> Priorities] /\ priority' = priority
          /\ connection' \in [Users -> Targets \cup {NoDownload}] /\ connection' = connection
          /\ fileQueue' = fileQueue /\ recheck' = recheck /\ progress' = progress
        BY <2>2, <2>4
    <2>7. DropsSources(t, i, {u}, {u})
        BY <2>1, <2>2, <2>3, <2>5, <2>6 DEF DropsSources
    <2> QED
        BY <2>7, DropSourcesStep
<1>2. ASSUME NEW u \in Users, PutCorrupt(u) PROVE PointerInv'
    <2> DEFINE t == connection[u]
               i == fileQueue[t]
               us == sources[i]
    <2>1. t \in Targets /\ i # NoItem /\ i \in Items
        BY <1>2 DEF PutCorrupt, IndexInv, QueueInv, TypeOK, Targets
    <2>2. us \in SUBSET Users
        BY <2>1 DEF IndexInv, QueueInv, TypeOK
    <2>3. /\ ForgetRunning(i, us \cup {u})
          /\ userQueue' = userQueue \ Entries(i, priority[i], us)
          /\ sources' = [sources EXCEPT ![i] = {}]
          /\ priority' = [priority EXCEPT ![i] = PAUSED]
          /\ progress' = [progress EXCEPT ![i] = "none"]
          /\ connection' = [connection EXCEPT ![u] = NoDownload]
          /\ fileQueue' = fileQueue /\ recheck' = recheck
        BY <1>2, <2>1 DEF PutCorrupt
    <2>4. /\ priority \in [Items -> Priorities] /\ PAUSED \in Priorities
          /\ connection \in [Users -> Targets \cup {NoDownload}]
          /\ progress \in [Items -> Progress]
        BY DEF IndexInv, QueueInv, TypeOK, Priorities, PAUSED
    <2>5. connection[u] = t /\ fileQueue[t] = i /\ sources[i] = us
        OBVIOUS
    <2> HIDE DEF t, i, us
    <2>6. /\ sources' = [sources EXCEPT ![i] = us \ us]
          /\ priority' \in [Items -> Priorities]
          /\ \A k \in Items : priority'[k] = priority[k] \/ k = i
          /\ \A k \in Items : progress'[k] = progress[k] \/ progress'[k] = "none"
        BY <2>3, <2>4
    <2>7. /\ connection' \in [Users -> Targets \cup {NoDownload}]
          /\ \A v \in Users : connection'[v] = connection[v] \/ (connection[v] = t /\ v = u)
        <3>1. connection' = [connection EXCEPT ![u] = NoDownload]
            BY <2>3
        <3> QED
            BY <2>4, <2>5, <3>1
    <2>8. DropsSources(t, i, us, us \cup {u})
        BY <2>1, <2>2, <2>3, <2>5, <2>6, <2>7 DEF DropsSources
    <2> QED
        BY <2>8, DropSourcesStep
<1> QED
    BY <1>1, <1>2

\* QueueManager::removeSource of all targets of a user.
LEMMA RemoveSourceEverywhereStep ==
    ASSUME IndexInv, NEW u \in Users, RemoveSourceEverywhere(u)
    PROVE  PointerInv'
<1> USE ConstAssumption
<1>1. PICK hit \in SUBSET Items, gone \in SUBSET Items : TakesFromAll(u, hit, gone)
    BY TakenFromAll
<1>2. /\ fileQueue \in [Targets -> Items \cup {NoItem}] /\ u \in Targets
      /\ priority \in [Items -> Priorities] /\ sources \in [Items -> SUBSET Users]
      /\ downloads \in [Items -> SUBSET Users]
      /\ running \in [Users -> Items \cup {NoItem}]
      /\ connection \in [Users -> Targets \cup {NoDownload}]
      /\ \A v \in Users, k \in Items : running[v] = k <=> v \in downloads[k]
    BY DEF IndexInv, QueueInv, TypeOK, Targets, PointerInv, RunningIsListed
<1>3. /\ gone \subseteq hit
      /\ \A i \in gone : i # NoItem /\ i = fileQueue[u]
      /\ \A i \in gone : sources[i] \subseteq {u} /\ downloads[i] \subseteq {u}
    <2>1. gone \subseteq hit /\ \A i \in gone : i # NoItem /\ i = fileQueue[u]
        BY <1>1 DEF TakesFromAll
    <2>2. ASSUME NEW i \in gone
          PROVE  sources[i] \subseteq {u} /\ downloads[i] \subseteq {u}
        BY <2>1 DEF IndexInv, PointerInv, ListSources, RunnersAreSources
    <2> QED
        BY <2>1, <2>2
<1>4. /\ \A s \in Targets : fileQueue'[s] = IF fileQueue[s] \in gone THEN NoItem
                                            ELSE fileQueue[s]
      /\ \A k \in Items : Queued(k)' <=> Queued(k) /\ k \notin gone
    <2>1. \A s \in Targets : fileQueue[s] \in gone => s = u
        BY <1>2, <1>3, TargetOf DEF IndexInv, QueueInv
    <2>2. gone # {} => fileQueue[u] \in gone
        BY <1>3
    <2>3. fileQueue' = IF gone # {} THEN [fileQueue EXCEPT ![u] = NoItem] ELSE fileQueue
        BY <1>1 DEF TakesFromAll
    <2>4. \A s \in Targets : fileQueue'[s] = IF fileQueue[s] \in gone THEN NoItem
                                             ELSE fileQueue[s]
        BY <1>2, <2>1, <2>2, <2>3
    <2> QED
        BY <2>4 DEF Queued
<1>5. /\ recheck' = recheck /\ connection' = connection
      /\ \A v \in Users : running'[v] = IF v = u /\ running[v] \in hit THEN NoItem
                                        ELSE running[v]
      /\ \A k \in Items :
            /\ downloads'[k] = IF k \in hit THEN downloads[k] \ {u} ELSE downloads[k]
            /\ sources'[k] = IF k \in hit THEN sources[k] \ {u} ELSE sources[k]
            /\ priority'[k] = IF k \in gone THEN PAUSED ELSE priority[k]
            /\ progress'[k] = IF k \in gone THEN "none" ELSE progress[k]
    BY <1>1, <1>2 DEF TakesFromAll
<1>6. \A q, v, k : <<q, v, k>> \in userQueue' =>
                      <<q, v, k>> \in userQueue /\ ~(v = u /\ k \in hit)
    BY <1>1 DEF TakesFromAll
<1>7. EntriesLive'
    <2> SUFFICES ASSUME NEW q \in Priorities, NEW v \in Users, NEW k \in Items,
                        <<q, v, k>> \in userQueue'
                 PROVE  Queued(k)' /\ q = priority'[k] /\ v \in sources'[k]
        BY DEF EntriesLive
    <2>1. /\ ~(v = u /\ k \in hit)
          /\ Queued(k) /\ q = priority[k] /\ v \in sources[k]
        BY <1>6 DEF IndexInv, PointerInv, EntriesLive
    <2>2. k \notin gone
        BY <1>3, <2>1
    <2> QED
        BY <1>4, <1>5, <2>1, <2>2
<1>8. FinishedIsOut'
    <2> SUFFICES ASSUME NEW k \in Items, IsFinished(k)'
                 PROVE  /\ Queued(k)' /\ downloads'[k] = {}
                        /\ \A q \in Priorities, v \in Users : <<q, v, k>> \notin userQueue'
        BY DEF FinishedIsOut
    <2>1. IsFinished(k) /\ k \notin gone
        BY <1>5 DEF IsFinished
    <2>2. /\ Queued(k) /\ downloads[k] = {}
          /\ \A q \in Priorities, v \in Users : <<q, v, k>> \notin userQueue
        BY <2>1 DEF IndexInv, PointerInv, FinishedIsOut
    <2> QED
        BY <1>4, <1>5, <1>6, <2>1, <2>2
<1>9. RunnersAreSources'
    BY <1>5 DEF IndexInv, PointerInv, RunnersAreSources
<1>10. RunningIsListed'
    <2>1. ASSUME NEW v \in Users, NEW k \in Items PROVE running'[v] = k <=> v \in downloads'[k]
        <3>1. running[v] = k <=> v \in downloads[k]
            BY <1>2
        <3>2. v \in downloads'[k] <=> v \in downloads[k] /\ ~(v = u /\ k \in hit)
            BY <1>5
        <3>3. running'[v] = k <=> running[v] = k /\ ~(v = u /\ k \in hit)
            BY <1>5
        <3> QED
            BY <3>1, <3>2, <3>3
    <2>2. ASSUME NEW v \in Users, running'[v] # NoItem
          PROVE  connection'[v] # NoDownload /\ fileQueue'[connection'[v]] = running'[v]
        <3>1. /\ running'[v] = running[v] /\ running[v] # NoItem /\ running[v] \in Items
              /\ ~(v = u /\ running[v] \in hit)
              /\ connection[v] # NoDownload /\ fileQueue[connection[v]] = running[v]
              /\ connection[v] \in Targets
            BY <1>2, <1>5, <2>2 DEF IndexInv, PointerInv, RunningIsListed
        <3>2. running[v] \notin gone
            BY <1>2, <1>3, <3>1
        <3> QED
            BY <1>4, <1>5, <3>1, <3>2
    <2> QED
        BY <2>1, <2>2 DEF RunningIsListed
<1>11. ListSources'
    <2>1. \A v \in Users : /\ fileQueue'[v] \in {fileQueue[v], NoItem}
                           /\ fileQueue[v] \in Items \cup {NoItem}
        BY <1>2, <1>4 DEF Targets
    <2>2. \A k \in Items : sources'[k] \subseteq sources[k]
        BY <1>5
    <2> QED
        BY <2>1, <2>2, ListsKept
<1> QED
    BY <1>5, <1>7, <1>8, <1>9, <1>10, <1>11 DEF IndexInv, PointerInv

\* QueueManager::setPriority: the item moves to the lists of its new priority.
LEMMA SetPriorityStep ==
    ASSUME IndexInv, NEW t \in Targets, NEW p \in Priorities, SetPriority(t, p)
    PROVE  PointerInv'
<1> USE ConstAssumption
<1> DEFINE i == fileQueue[t]
<1>1. /\ i \in Items /\ Queued(i) /\ ~IsFinished(i)
      /\ userQueue' = (userQueue \ Entries(i, priority[i], sources[i]))
                      \cup Entries(i, p, sources[i])
      /\ priority' = [priority EXCEPT ![i] = p]
      /\ UNCHANGED <<fileQueue, running, sources, badSources, progress, downloads,
                     connection, recheck>>
    BY DEF SetPriority, IndexInv, QueueInv, TypeOK, Queued
<1> HIDE DEF i
<1>2. \A q, v, k : <<q, v, k>> \in userQueue' <=>
         \/ /\ <<q, v, k>> \in userQueue
            /\ ~(q = priority[i] /\ v \in sources[i] /\ k = i)
         \/ q = p /\ v \in sources[i] /\ k = i
    <2> TAKE q, v, k
    <2>1. /\ <<q, v, k>> \in Entries(i, priority[i], sources[i])
                <=> q = priority[i] /\ v \in sources[i] /\ k = i
          /\ <<q, v, k>> \in Entries(i, p, sources[i]) <=> q = p /\ v \in sources[i] /\ k = i
        BY EntriesOf
    <2> QED
        BY <1>1, <2>1
<1>3. \A k \in Items : (Queued(k)' <=> Queued(k)) /\ (IsFinished(k)' <=> IsFinished(k))
    BY <1>1 DEF Queued, IsFinished
<1>4. priority \in [Items -> Priorities]
    BY DEF IndexInv, QueueInv, TypeOK
<1>5. EntriesLive'
    BY <1>1, <1>2, <1>3, <1>4 DEF IndexInv, PointerInv, EntriesLive
<1>6. FinishedIsOut'
    BY <1>1, <1>2, <1>3 DEF IndexInv, PointerInv, FinishedIsOut
<1> QED
    BY <1>1, <1>5, <1>6
       DEF IndexInv, PointerInv, RunningIsListed, RunnersAreSources, ListSources

\* Nobody runs an item that is moved, so that no connection holds it.
LEMMA MovedIsNotRun ==
    ASSUME IndexInv, NEW s \in Targets, fileQueue[s] \in Items, downloads[fileQueue[s]] = {},
           NEW v \in Users, running[v] # NoItem
    PROVE  /\ connection[v] # NoDownload /\ connection[v] \in Targets
           /\ fileQueue[connection[v]] = running[v]
           /\ running[v] # fileQueue[s] /\ connection[v] # s
<1>1. running[v] \in Items /\ connection[v] \in Targets \cup {NoDownload}
    BY DEF IndexInv, QueueInv, TypeOK
<1>2. running[v] # fileQueue[s]
    BY <1>1 DEF IndexInv, PointerInv, RunningIsListed
<1> QED
    BY <1>1, <1>2 DEF IndexInv, PointerInv, RunningIsListed

\* QueueManager::move to a free target.
LEMMA MoveStep ==
    ASSUME IndexInv, NEW s \in Targets, NEW t \in Targets, Move(s, t)
    PROVE  PointerInv'
<1> USE ConstAssumption
<1> DEFINE i == fileQueue[s]
<1>1. /\ i \in Items /\ fileQueue[t] = NoItem /\ s # t /\ downloads[i] = {}
      /\ s \notin Users /\ t \notin Users
      /\ fileQueue' = [fileQueue EXCEPT ![s] = NoItem, ![t] = i]
      /\ UNCHANGED <<userQueue, running, priority, sources, badSources, progress, downloads,
                     connection, recheck, broken>>
    BY DEF Move, item, IndexInv, QueueInv, TypeOK
<1>2. /\ fileQueue \in [Targets -> Items \cup {NoItem}]
      /\ \A r \in Targets : fileQueue[r] = i <=> r = s
    BY <1>1, TargetOf DEF IndexInv, QueueInv, TypeOK
<1>3. RunningIsListed'
    <2>1. \A v \in Users, k \in Items : running'[v] = k <=> v \in downloads'[k]
        BY <1>1 DEF IndexInv, PointerInv, RunningIsListed
    <2>2. ASSUME NEW v \in Users, running'[v] # NoItem
          PROVE  connection'[v] # NoDownload /\ fileQueue'[connection'[v]] = running'[v]
        <3>1. running'[v] = running[v] /\ connection'[v] = connection[v]
            BY <1>1
        <3>2. /\ connection[v] # NoDownload /\ connection[v] \in Targets
              /\ fileQueue[connection[v]] = running[v] /\ connection[v] # s
            BY <1>1, <2>2, <3>1, MovedIsNotRun
        <3>3. connection[v] # t
            BY <1>1, <2>2, <3>1, <3>2
        <3> QED
            BY <1>1, <1>2, <3>1, <3>2, <3>3
    <2> QED
        BY <2>1, <2>2 DEF RunningIsListed
<1> HIDE DEF i
<1>4. \A r \in Targets : fileQueue'[r] = IF r = s THEN NoItem ELSE IF r = t THEN i
                                         ELSE fileQueue[r]
    BY <1>1, <1>2
<1>5. \A k \in Items : Queued(k)' <=> Queued(k)
    BY <1>1, <1>2, <1>4 DEF Queued
<1>6. EntriesLive' /\ FinishedIsOut'
    BY <1>1, <1>5 DEF IndexInv, PointerInv, EntriesLive, FinishedIsOut, IsFinished
<1>7. ListSources'
    <2>1. \A v \in Users : fileQueue'[v] = fileQueue[v]
        BY <1>1, <1>4 DEF Targets
    <2> QED
        BY <1>1, <2>1 DEF IndexInv, PointerInv, ListSources
<1> QED
    BY <1>1, <1>3, <1>6, <1>7 DEF IndexInv, PointerInv, RunnersAreSources

\* What a move of i, the item of s, onto m, the item of t, does to UserQueue.
LEMMA MergedEntries ==
    ASSUME IndexInv, NEW s \in Targets, NEW t \in Targets, MoveOnto(s, t)
    PROVE  \E new \in SUBSET (sources[fileQueue[s]] \ sources[fileQueue[t]]) :
             /\ sources' = [sources EXCEPT ![fileQueue[t]] = sources[fileQueue[t]] \cup new,
                                           ![fileQueue[s]] = {}]
             /\ \A q, v, k : <<q, v, k>> \in userQueue' <=>
                   \/ /\ <<q, v, k>> \in userQueue
                      /\ ~(q = priority[k] /\ v \in sources[k] /\ k = fileQueue[s])
                   \/ /\ ~IsFinished(k) /\ q = priority[k] /\ v \in new
                      /\ k = fileQueue[t]
<1> DEFINE i == fileQueue[s]
           m == fileQueue[t]
<1>1. i \in Items /\ m \in Items
    BY DEF MoveOnto, IndexInv, QueueInv, TypeOK
<1>2. PICK passive \in SUBSET (sources[i] \ sources[m]) :
         /\ sources' = [sources EXCEPT
               ![m] = sources[m] \cup ((sources[i] \ sources[m]) \ passive), ![i] = {}]
         /\ userQueue' = (userQueue \ (IF IsFinished(i) THEN {}
                                       ELSE Entries(i, priority[i], sources[i])))
               \cup (IF IsFinished(m) THEN {}
                     ELSE Entries(m, priority[m], (sources[i] \ sources[m]) \ passive))
    BY DEF MoveOnto
<1> DEFINE new == (sources[i] \ sources[m]) \ passive
<1>3. new \in SUBSET (sources[i] \ sources[m])
    OBVIOUS
<1>4. /\ sources' = [sources EXCEPT ![m] = sources[m] \cup new, ![i] = {}]
      /\ userQueue' = (userQueue \ Entries(i, priority[i], sources[i]))
                      \cup (IF IsFinished(m) THEN {} ELSE Entries(m, priority[m], new))
    <2>1. CASE IsFinished(i)
        BY <1>1, <1>2, <2>1, NothingToTake
    <2>2. CASE ~IsFinished(i)
        BY <1>2, <2>2
    <2> QED
        BY <2>1, <2>2
<1> HIDE DEF i, m, new
<1>5. \A q, v, k : <<q, v, k>> \in userQueue' <=>
          \/ /\ <<q, v, k>> \in userQueue
             /\ ~(q = priority[k] /\ v \in sources[k] /\ k = i)
          \/ ~IsFinished(k) /\ q = priority[k] /\ v \in new /\ k = m
    <2> TAKE q, v, k
    <2>1. /\ <<q, v, k>> \in Entries(i, priority[i], sources[i])
                <=> q = priority[i] /\ v \in sources[i] /\ k = i
          /\ <<q, v, k>> \in Entries(m, priority[m], new) <=> q = priority[m] /\ v \in new /\ k = m
        BY EntriesOf
    <2> QED
        BY <1>4, <2>1
<1> QED
    BY <1>3, <1>4, <1>5 DEF i, m

\* QueueManager::move onto an item of the same file.
LEMMA MoveOntoStep ==
    ASSUME IndexInv, NEW s \in Targets, NEW t \in Targets, MoveOnto(s, t)
    PROVE  PointerInv'
<1> USE ConstAssumption
<1> DEFINE i == fileQueue[s]
           m == fileQueue[t]
<1>1. /\ s # t /\ i \in Items /\ m \in Items /\ downloads[i] = {} /\ t \notin Users
      /\ Queued(m)
      /\ fileQueue' = [fileQueue EXCEPT ![s] = NoItem]
      /\ priority' = [priority EXCEPT ![i] = PAUSED]
      /\ progress' = [progress EXCEPT ![i] = "none"]
      /\ UNCHANGED <<running, downloads, connection, recheck>>
    BY DEF MoveOnto, IndexInv, QueueInv, TypeOK, Queued
<1>2. PICK new \in SUBSET (sources[i] \ sources[m]) :
          /\ sources' = [sources EXCEPT ![m] = sources[m] \cup new, ![i] = {}]
          /\ \A q, v, k : <<q, v, k>> \in userQueue' <=>
                \/ /\ <<q, v, k>> \in userQueue
                   /\ ~(q = priority[k] /\ v \in sources[k] /\ k = i)
                \/ ~IsFinished(k) /\ q = priority[k] /\ v \in new /\ k = m
    BY MergedEntries
<1>3. /\ i # m
      /\ \A r \in Targets : fileQueue[r] = i <=> r = s
      /\ \A v \in Users : fileQueue[v] # m
    BY <1>1, TargetOf DEF IndexInv, QueueInv, Targets
<1>4. /\ sources \in [Items -> SUBSET Users]
      /\ priority \in [Items -> Priorities] /\ progress \in [Items -> Progress]
      /\ fileQueue \in [Targets -> Items \cup {NoItem}]
    BY DEF IndexInv, QueueInv, TypeOK
<1>5. RunningIsListed'
    <2>1. \A v \in Users, k \in Items : running'[v] = k <=> v \in downloads'[k]
        BY <1>1 DEF IndexInv, PointerInv, RunningIsListed
    <2>2. ASSUME NEW v \in Users, running'[v] # NoItem
          PROVE  connection'[v] # NoDownload /\ fileQueue'[connection'[v]] = running'[v]
        <3>1. running'[v] = running[v] /\ connection'[v] = connection[v]
            BY <1>1
        <3>2. /\ connection[v] # NoDownload /\ connection[v] \in Targets
              /\ fileQueue[connection[v]] = running[v] /\ connection[v] # s
            BY <1>1, <2>2, <3>1, MovedIsNotRun
        <3> QED
            BY <1>1, <1>4, <3>1, <3>2
    <2> QED
        BY <2>1, <2>2 DEF RunningIsListed
<1> HIDE DEF i, m
<1>6. \A k \in Items :
         /\ Queued(k)' <=> Queued(k) /\ k # i
         /\ priority'[k] = IF k = i THEN PAUSED ELSE priority[k]
         /\ sources'[k] = IF k = i THEN {} ELSE IF k = m THEN sources[m] \cup new
                          ELSE sources[k]
         /\ IsFinished(k)' <=> IsFinished(k) /\ k # i
    <2>1. \A k \in Items : Queued(k)' <=> Queued(k) /\ k # i
        BY <1>1, <1>3, <1>4 DEF Queued
    <2>2. \A k \in Items : IsFinished(k)' <=> IsFinished(k) /\ k # i
        BY <1>1, <1>4 DEF IsFinished
    <2>3. \A k \in Items :
             /\ priority'[k] = IF k = i THEN PAUSED ELSE priority[k]
             /\ sources'[k] = IF k = i THEN {} ELSE IF k = m THEN sources[m] \cup new
                              ELSE sources[k]
        <3>1. sources' = [sources EXCEPT ![m] = sources[m] \cup new, ![i] = {}]
            BY <1>2
        <3> QED
            BY <1>1, <1>3, <1>4, <3>1
    <2> QED
        BY <2>1, <2>2, <2>3
<1>7. EntriesLive'
    <2> SUFFICES ASSUME NEW q \in Priorities, NEW v \in Users, NEW k \in Items,
                        <<q, v, k>> \in userQueue'
                 PROVE  Queued(k)' /\ q = priority'[k] /\ v \in sources'[k]
        BY DEF EntriesLive
    <2>1. \/ /\ <<q, v, k>> \in userQueue
             /\ ~(q = priority[k] /\ v \in sources[k] /\ k = i)
          \/ q = priority[k] /\ v \in new /\ k = m
        BY <1>2
    <2>2. <<q, v, k>> \in userQueue => Queued(k) /\ q = priority[k] /\ v \in sources[k]
        BY DEF IndexInv, PointerInv, EntriesLive
    <2> QED
        BY <1>1, <1>3, <1>6, <2>1, <2>2
<1>8. FinishedIsOut'
    <2> SUFFICES ASSUME NEW k \in Items, IsFinished(k)'
                 PROVE  /\ Queued(k)' /\ downloads'[k] = {}
                        /\ \A q \in Priorities, v \in Users : <<q, v, k>> \notin userQueue'
        BY DEF FinishedIsOut
    <2>1. IsFinished(k) /\ k # i
        BY <1>6
    <2>2. /\ Queued(k) /\ downloads[k] = {}
          /\ \A q \in Priorities, v \in Users : <<q, v, k>> \notin userQueue
        BY <2>1 DEF IndexInv, PointerInv, FinishedIsOut
    <2> QED
        BY <1>1, <1>2, <1>6, <2>1, <2>2
<1>9. RunnersAreSources'
    BY <1>1, <1>6 DEF IndexInv, PointerInv, RunnersAreSources
<1>10. ListSources'
    <2>1. \A v \in Users : /\ fileQueue'[v] \in {fileQueue[v], NoItem}
                           /\ fileQueue[v] \in Items \cup {NoItem}
        BY <1>1, <1>4 DEF Targets
    <2>2. \A k \in Items : k # m => sources'[k] \subseteq sources[k]
        BY <1>6
    <2> QED
        BY <1>3, <2>1, <2>2, ListsKept
<1> QED
    BY <1>1, <1>5, <1>7, <1>8, <1>9, <1>10 DEF IndexInv, PointerInv

\* Nothing is rechecked that was not started.
LEMMA NoRechecks ==
    ASSUME ~Rechecks, recheck = Idle
    PROVE  /\ ~RecheckReset /\ ~RecheckDone /\ ~MoveStuckFile /\ ~RecheckGivesUp
           /\ \A t \in Targets : ~RecheckStart(t)
BY DEF RecheckReset, RecheckDone, MoveStuckFile, RecheckGivesUp, RecheckStart, Idle

\* Every operation of the queue preserves the invariant.
LEMMA IndexStep ==
    ASSUME ~Rechecks, IndexInv, [Next]_vars
    PROVE  PointerInv'
<1>1. CASE UNCHANGED vars
    BY <1>1 DEF vars, IndexInv, PointerInv, EntriesLive, FinishedIsOut, IsFinished,
                RunningIsListed, RunnersAreSources, ListSources, Queued
<1>2. ~RecheckReset /\ ~RecheckDone /\ ~MoveStuckFile /\ ~RecheckGivesUp
      /\ \A t \in Targets : ~RecheckStart(t)
    BY NoRechecks DEF IndexInv, PointerInv
<1> QED
    BY <1>1, <1>2, AddNewStep, AddToExistingStep, GetDownloadStep, PutUnfinishedStep,
       RemoveStep, RemoveSourceStep, RemoveSourceEverywhereStep, SetPriorityStep, MoveStep,
       MoveOntoStep DEF Next

\* The queue starts empty.
LEMMA IndexInit == ASSUME Init PROVE PointerInv
<1>1. \A t \in Targets : fileQueue[t] = NoItem
    BY DEF Init
<1>2. EntriesLive /\ FinishedIsOut /\ ListSources
    BY <1>1 DEF Init, EntriesLive, FinishedIsOut, IsFinished, ListSources, Targets
<1>3. RunningIsListed /\ RunnersAreSources
    BY ConstAssumption DEF Init, RunningIsListed, RunnersAreSources
<1> QED
    BY <1>2, <1>3 DEF Init, PointerInv

\* Without rechecks the invariant holds for good.
LEMMA IndexInvHolds == ASSUME ~Rechecks PROVE Spec => []IndexInv
<1>1. Init => PointerInv
    BY IndexInit
<1>2. QueueInv /\ PointerInv /\ [Next]_vars => PointerInv'
    BY IndexStep DEF IndexInv
<1>3. QueueInv /\ PointerInv => IndexInv
    BY DEF IndexInv
<1> QED
    BY <1>1, <1>2, <1>3, QueueInvHolds, PTL DEF Spec


-----------------------------------------------------------------------------
(* No entry is missing, as long as finished files are dropped as well.     *)

\* Finished items leave the queue.
NeverFull == \A i \in Items : ~IsFinished(i)

\* A queued item is listed at its priority under every source.
EntriesComplete ==
    \A u \in Users, i \in Items :
        Queued(i) /\ u \in sources[i] => <<priority[i], u, i>> \in userQueue

CompleteInv == NeverFull /\ EntriesComplete /\ AssertionsHold

\* The assertions of UserQueue::remove hold for any sources of a queued item.
LEMMA EntriesThere ==
    ASSUME IndexInv, CompleteInv, NEW i \in Items, Queued(i), NEW us \in SUBSET sources[i],
           CheckEntries(i, us)
    PROVE  AssertionsHold'
<1>1. us \subseteq Users
    BY DEF IndexInv, QueueInv, TypeOK
<1>2. \A u \in us : <<priority[i], u, i>> \in userQueue
    BY <1>1 DEF CompleteInv, EntriesComplete
<1>3. Entries(i, priority[i], us) \subseteq userQueue
    BY <1>2 DEF Entries
<1> QED
    BY <1>3 DEF CheckEntries, CompleteInv, AssertionsHold

\* A queued item is one of Items.
LEMMA QueuedAt ==
    ASSUME IndexInv, NEW t \in Targets, fileQueue[t] # NoItem
    PROVE  fileQueue[t] \in Items /\ Queued(fileQueue[t])
BY DEF IndexInv, QueueInv, TypeOK, Queued

\* A connection that holds a Download holds it for a target.
LEMMA HeldTarget ==
    ASSUME IndexInv, NEW u \in Users, connection[u] # NoDownload
    PROVE  connection[u] \in Targets
BY DEF IndexInv, QueueInv, TypeOK

\* No assertion of UserQueue fails: remove finds what it takes out, and addDownload
\* finds the user idle.
LEMMA AssertionsStep ==
    ASSUME ~Rechecks, IndexInv, CompleteInv, Next
    PROVE  AssertionsHold'
<1>0. CASE broken' = broken
    BY <1>0 DEF CompleteInv, AssertionsHold
<1>1. ASSUME NEW u \in Users, GetDownload(u) PROVE AssertionsHold'
    <2>1. connection[u] = NoDownload /\ broken' = (broken \/ running[u] # NoItem)
        BY <1>1 DEF GetDownload
    <2>2. running[u] = NoItem
        BY <2>1 DEF IndexInv, PointerInv, RunningIsListed
    <2> QED
        BY <2>1, <2>2 DEF CompleteInv, AssertionsHold
<1>2. ASSUME NEW u \in Users, PutComplete(u) \/ PutCorrupt(u) PROVE AssertionsHold'
    <2>1. /\ connection[u] # NoDownload /\ fileQueue[connection[u]] # NoItem
          /\ CheckEntries(fileQueue[connection[u]], sources[fileQueue[connection[u]]])
        BY <1>2, ConstAssumption DEF PutComplete, PutCorrupt
    <2>2. /\ fileQueue[connection[u]] \in Items /\ Queued(fileQueue[connection[u]])
        BY <2>1, HeldTarget, QueuedAt
    <2> QED
        BY <2>1, <2>2, EntriesThere
<1>3. ASSUME NEW t \in Targets,
             \/ Remove(t)
             \/ \E p \in Priorities : SetPriority(t, p)
             \/ \E s \in Targets : MoveOnto(t, s)
      PROVE  AssertionsHold'
    <2>1. /\ fileQueue[t] # NoItem
          /\ broken' = broken \/ CheckEntries(fileQueue[t], sources[fileQueue[t]])
        BY <1>3 DEF Remove, SetPriority, MoveOnto
    <2> QED
        BY <1>0, <2>1, QueuedAt, EntriesThere
<1>4. ASSUME NEW t \in Targets, NEW u \in Users, RemoveSource(t, u) PROVE AssertionsHold'
    <2>1. /\ fileQueue[t] # NoItem /\ {u} \in SUBSET sources[fileQueue[t]]
          /\ broken' = broken \/ CheckEntries(fileQueue[t], {u})
        BY <1>4 DEF RemoveSource
    <2> QED
        BY <1>0, <2>1, QueuedAt, EntriesThere
<1>5. ASSUME NEW u \in Users, PutLate(u) \/ PutUnfinished(u) \/ RemoveSourceEverywhere(u)
      PROVE  AssertionsHold'
    <2>1. broken' = broken
        BY <1>5 DEF PutLate, PutUnfinished, RemoveSourceEverywhere
    <2> QED
        BY <1>0, <2>1
<1>6. ASSUME NEW t \in Targets, NEW u \in Users, AddNew(t, u) \/ AddToExisting(t, u)
      PROVE  AssertionsHold'
    <2>1. broken' = broken
        BY <1>6 DEF AddNew, AddToExisting
    <2> QED
        BY <1>0, <2>1
<1>7. ASSUME NEW s \in Targets, NEW t \in Targets, Move(s, t) PROVE AssertionsHold'
    BY <1>0, <1>7 DEF Move
<1>8. ~RecheckReset /\ ~RecheckDone /\ ~MoveStuckFile /\ ~RecheckGivesUp
      /\ \A t \in Targets : ~RecheckStart(t)
    BY NoRechecks DEF IndexInv, PointerInv
<1> QED
    BY <1>1, <1>2, <1>3, <1>4, <1>5, <1>6, <1>7, <1>8 DEF Next

\* putDownload removes an item it completes.
LEMMA NeverFullStep ==
    ASSUME ~Rechecks, ~KeepFinished, IndexInv, CompleteInv, Next
    PROVE  NeverFull'
<1>0. progress \in [Items -> Progress] /\ \A k \in Items : progress[k] # "full"
    BY DEF IndexInv, QueueInv, TypeOK, CompleteInv, NeverFull, IsFinished
<1>1. ASSUME \E k, g : g \in {"none", "part"} /\ progress' \in {progress, [progress EXCEPT ![k] = g]}
      PROVE  NeverFull'
    <2>1. PICK k, g : g \in {"none", "part"} /\ progress' \in {progress, [progress EXCEPT ![k] = g]}
        BY <1>1
    <2> QED
        BY <1>0, <2>1 DEF NeverFull, IsFinished
<1>2. ASSUME NEW u \in Users, GetDownload(u) \/ PutUnfinished(u) PROVE NeverFull'
    BY <1>1, <1>2 DEF GetDownload, PutUnfinished, Advance
<1>3. ASSUME NEW u \in Users, PutLate(u) \/ PutComplete(u) \/ PutCorrupt(u) PROVE NeverFull'
    BY <1>1, <1>3 DEF PutLate, item, PutComplete, PutCorrupt, Delete
<1>4. ASSUME NEW u \in Users, RemoveSourceEverywhere(u) PROVE NeverFull'
    <2>1. PICK hit \in SUBSET Items, gone \in SUBSET Items : TakesFromAll(u, hit, gone)
        BY <1>4, TakenFromAll
    <2> QED
        BY <1>0, <2>1 DEF TakesFromAll, NeverFull, IsFinished
<1>5. ASSUME NEW t \in Targets, NEW u \in Users,
             AddNew(t, u) \/ AddToExisting(t, u) \/ RemoveSource(t, u)
      PROVE  NeverFull'
    BY <1>1, <1>5 DEF AddNew, AddToExisting, RemoveSource
<1>6. ASSUME NEW t \in Targets, NEW s \in Targets,
             \/ Remove(t) \/ Move(s, t) \/ MoveOnto(s, t)
             \/ \E p \in Priorities : SetPriority(t, p)
      PROVE  NeverFull'
    BY <1>1, <1>6 DEF Remove, Delete, Move, item, MoveOnto, SetPriority
<1>7. ~RecheckReset /\ ~RecheckDone /\ ~MoveStuckFile /\ ~RecheckGivesUp
      /\ \A t \in Targets : ~RecheckStart(t)
    BY NoRechecks DEF IndexInv, PointerInv
<1> QED
    BY <1>2, <1>3, <1>4, <1>5, <1>6, <1>7 DEF Next

\* An entry of another item, or of a user who is not taken out, stays.
LEMMA EntryStays ==
    ASSUME NEW i, NEW p, NEW us, NEW q, NEW v, NEW k,
           <<q, v, k>> \in userQueue, k # i \/ v \notin us
    PROVE  <<q, v, k>> \in userQueue \ Entries(i, p, us)
BY EntriesOf

\* Adding files every new source.
LEMMA CompleteAdd ==
    ASSUME IndexInv, CompleteInv, NEW t \in Targets, NEW u \in Users,
           AddNew(t, u) \/ AddToExisting(t, u)
    PROVE  EntriesComplete'
<1>1. /\ sources \in [Items -> SUBSET Users] /\ priority \in [Items -> Priorities]
      /\ fileQueue \in [Targets -> Items \cup {NoItem}]
    BY DEF IndexInv, QueueInv, TypeOK
<1> SUFFICES ASSUME NEW v \in Users, NEW k \in Items, Queued(k)', v \in sources'[k]
             PROVE  <<priority'[k], v, k>> \in userQueue'
    BY DEF EntriesComplete
<1>2. Queued(k) /\ v \in sources[k] => <<priority[k], v, k>> \in userQueue
    BY DEF CompleteInv, EntriesComplete
<1>3. CASE AddNew(t, u)
    <2>1. PICK i \in Items, p \in InitialPriority(t), passive \in BOOLEAN :
              /\ fileQueue' = [fileQueue EXCEPT ![t] = i]
              /\ priority' = [priority EXCEPT ![i] = p]
              /\ sources' = [sources EXCEPT ![i] = IF passive THEN {} ELSE {u}]
              /\ userQueue' = IF passive THEN userQueue ELSE userQueue \cup {<<p, u, i>>}
        BY <1>3 DEF AddNew
    <2>2. CASE k = i
        BY <1>1, <2>1, <2>2
    <2>3. CASE k # i
        <3>1. Queued(k)
            BY <1>1, <2>1, <2>3 DEF Queued
        <3>2. priority'[k] = priority[k] /\ sources'[k] = sources[k]
            BY <1>1, <2>1, <2>3
        <3> QED
            BY <1>2, <2>1, <3>1, <3>2
    <2> QED
        BY <2>2, <2>3
<1>4. CASE AddToExisting(t, u)
    <2> DEFINE i == fileQueue[t]
    <2>1. /\ i \in Items /\ ~IsFinished(i)
          /\ fileQueue' = fileQueue /\ priority' = priority
        BY <1>4, QueuedAt DEF AddToExisting, CompleteInv, NeverFull
    <2>2. PICK passive \in BOOLEAN :
              /\ sources' = IF passive THEN sources ELSE [sources EXCEPT ![i] = sources[i] \cup {u}]
              /\ userQueue' = IF passive THEN userQueue ELSE userQueue \cup {<<priority[i], u, i>>}
        BY <1>4, <2>1 DEF AddToExisting, AddSource
    <2> HIDE DEF i
    <2>3. Queued(k)
        BY <2>1 DEF Queued
    <2>4. v \in sources[k] \/ (v = u /\ k = i /\ ~passive)
        BY <1>1, <2>2
    <2> QED
        BY <1>2, <2>1, <2>2, <2>3, <2>4
<1> QED
    BY <1>3, <1>4

\* Removing an item or some of its sources takes no other entry out.
LEMMA CompleteRemove ==
    ASSUME ~KeepFinished, IndexInv, CompleteInv,
           \/ \E t \in Targets : Remove(t) \/ \E u \in Users : RemoveSource(t, u)
           \/ \E u \in Users :
                 PutComplete(u) \/ PutCorrupt(u) \/ RemoveSourceEverywhere(u)
    PROVE  EntriesComplete'
<1> USE ConstAssumption
<1>1. /\ sources \in [Items -> SUBSET Users] /\ priority \in [Items -> Priorities]
      /\ fileQueue \in [Targets -> Items \cup {NoItem}]
    BY DEF IndexInv, QueueInv, TypeOK
<1> SUFFICES ASSUME NEW v \in Users, NEW k \in Items, Queued(k)', v \in sources'[k]
             PROVE  <<priority'[k], v, k>> \in userQueue'
    BY DEF EntriesComplete
<1>2. Queued(k) /\ v \in sources[k] => <<priority[k], v, k>> \in userQueue
    BY DEF CompleteInv, EntriesComplete
<1>3. ASSUME NEW t \in Targets, fileQueue[t] \in Items, NEW us,
             us \subseteq sources[fileQueue[t]],
             fileQueue' \in {fileQueue, [fileQueue EXCEPT ![t] = NoItem]},
             userQueue' = userQueue \ Entries(fileQueue[t], priority[fileQueue[t]], us),
             sources' = [sources EXCEPT ![fileQueue[t]] = sources[fileQueue[t]] \ us],
             \/ priority' = priority
             \/ /\ us = sources[fileQueue[t]]
                /\ priority' = [priority EXCEPT ![fileQueue[t]] = PAUSED]
      PROVE  <<priority'[k], v, k>> \in userQueue'
    <2> DEFINE i == fileQueue[t]
    <2>1. Queued(k) /\ v \in sources[k]
        BY <1>1, <1>3 DEF Queued
    <2>2. k # i \/ v \notin us
        BY <1>1, <1>3
    <2>3. priority'[k] = priority[k]
        BY <1>1, <1>3, <2>1, <2>2
    <2> QED
        BY <1>2, <1>3, <2>1, <2>2, <2>3, EntryStays
<1>4. ASSUME NEW t \in Targets, fileQueue[t] # NoItem, Delete(t),
             userQueue' = userQueue \ Entries(fileQueue[t], priority[fileQueue[t]],
                                              sources[fileQueue[t]])
      PROVE  <<priority'[k], v, k>> \in userQueue'
    <2>1. PICK us : us = sources[fileQueue[t]]
        OBVIOUS
    <2>2. /\ fileQueue[t] \in Items
          /\ fileQueue' = [fileQueue EXCEPT ![t] = NoItem]
          /\ priority' = [priority EXCEPT ![fileQueue[t]] = PAUSED]
          /\ sources' = [sources EXCEPT ![fileQueue[t]] = us \ us]
        BY <1>4, QueuedAt DEF Delete
    <2> QED
        BY <1>3, <1>4, <2>1, <2>2
<1>5. ASSUME NEW t \in Targets, Remove(t) PROVE <<priority'[k], v, k>> \in userQueue'
    <2>1. fileQueue[t] # NoItem /\ ~IsFinished(fileQueue[t])
        BY <1>5, QueuedAt DEF Remove, CompleteInv, NeverFull
    <2> QED
        BY <1>4, <1>5, <2>1 DEF Remove
<1>6. ASSUME NEW t \in Targets, NEW u \in Users, RemoveSource(t, u)
      PROVE  <<priority'[k], v, k>> \in userQueue'
    <2>1. fileQueue[t] # NoItem /\ fileQueue[t] \in Items /\ ~IsFinished(fileQueue[t])
        BY <1>6, QueuedAt DEF RemoveSource, CompleteInv, NeverFull
    <2>2. PICK us : us = {u}
        OBVIOUS
    <2>3. /\ us \subseteq sources[fileQueue[t]]
          /\ userQueue' = userQueue \ Entries(fileQueue[t], priority[fileQueue[t]], us)
          /\ sources' = [sources EXCEPT ![fileQueue[t]] = sources[fileQueue[t]] \ us]
          /\ fileQueue' = fileQueue /\ priority' = priority
        BY <1>6, <2>1, <2>2 DEF RemoveSource
    <2> QED
        BY <1>3, <2>1, <2>3
<1>7. ASSUME NEW u \in Users, PutComplete(u) PROVE <<priority'[k], v, k>> \in userQueue'
    <2>1. connection[u] \in Targets
        BY <1>7, HeldTarget DEF PutComplete
    <2> QED
        BY <1>4, <1>7, <2>1 DEF PutComplete
<1>8. ASSUME NEW u \in Users, PutCorrupt(u) PROVE <<priority'[k], v, k>> \in userQueue'
    <2>1. /\ connection[u] \in Targets /\ fileQueue[connection[u]] # NoItem
          /\ fileQueue[connection[u]] \in Items
        BY <1>8, QueuedAt DEF PutCorrupt, Targets
    <2>2. PICK us : us = sources[fileQueue[connection[u]]]
        OBVIOUS
    <2>3. /\ sources' = [sources EXCEPT ![fileQueue[connection[u]]] = us \ us]
          /\ priority' = [priority EXCEPT ![fileQueue[connection[u]]] = PAUSED]
          /\ userQueue' = userQueue \ Entries(fileQueue[connection[u]],
                                              priority[fileQueue[connection[u]]], us)
          /\ fileQueue' = fileQueue
        BY <1>8, <2>2 DEF PutCorrupt
    <2> QED
        BY <1>3, <2>1, <2>2, <2>3
<1>9. ASSUME NEW u \in Users, RemoveSourceEverywhere(u)
      PROVE  <<priority'[k], v, k>> \in userQueue'
    <2>1. PICK hit \in SUBSET Items, gone \in SUBSET Items : TakesFromAll(u, hit, gone)
        BY <1>9, TakenFromAll
    <2>2. /\ sources'[k] = IF k \in hit THEN sources[k] \ {u} ELSE sources[k]
          /\ priority'[k] = IF k \in gone THEN PAUSED ELSE priority[k]
          /\ fileQueue' \in {fileQueue, [fileQueue EXCEPT ![u] = NoItem]}
        BY <2>1 DEF TakesFromAll
    <2>3. Queued(k)
        BY <1>1, <2>2 DEF Queued, Targets
    <2>4. k \notin gone
        <3>1. ASSUME k \in gone PROVE FALSE
            <4>1. k # NoItem /\ k = fileQueue[u] /\ k \in hit
                BY <2>1, <3>1 DEF TakesFromAll
            <4>2. sources[k] \subseteq {u}
                BY <4>1 DEF IndexInv, PointerInv, ListSources
            <4> QED
                BY <2>2, <4>1, <4>2
        <3> QED
            BY <3>1
    <2>5. /\ <<priority[k], v, k>> \in userQueue /\ ~(v = u /\ k \in hit)
          /\ priority'[k] = priority[k]
        BY <1>2, <2>2, <2>3, <2>4
    <2> QED
        BY <2>1, <2>5 DEF TakesFromAll
<1> QED
    BY <1>5, <1>6, <1>7, <1>8, <1>9

\* Entries follow an item to its new priority, and new sources are filed.
LEMMA CompleteChange ==
    ASSUME IndexInv, CompleteInv, NEW s \in Targets, NEW t \in Targets,
           Move(s, t) \/ MoveOnto(s, t) \/ \E p \in Priorities : SetPriority(t, p)
    PROVE  EntriesComplete'
<1> USE ConstAssumption
<1>1. /\ sources \in [Items -> SUBSET Users] /\ priority \in [Items -> Priorities]
      /\ fileQueue \in [Targets -> Items \cup {NoItem}]
    BY DEF IndexInv, QueueInv, TypeOK
<1> SUFFICES ASSUME NEW v \in Users, NEW k \in Items, Queued(k)', v \in sources'[k]
             PROVE  <<priority'[k], v, k>> \in userQueue'
    BY DEF EntriesComplete
<1>2. Queued(k) /\ v \in sources[k] => <<priority[k], v, k>> \in userQueue
    BY DEF CompleteInv, EntriesComplete
<1>3. CASE Move(s, t)
    <2>1. /\ fileQueue' = [fileQueue EXCEPT ![s] = NoItem, ![t] = fileQueue[s]]
          /\ UNCHANGED <<userQueue, priority, sources>>
        BY <1>3 DEF Move, item
    <2>2. Queued(k)
        BY <1>1, <2>1 DEF Queued
    <2> QED
        BY <1>2, <2>1, <2>2
<1>4. ASSUME NEW p \in Priorities, SetPriority(t, p)
      PROVE  <<priority'[k], v, k>> \in userQueue'
    <2> DEFINE i == fileQueue[t]
    <2>1. /\ i \in Items
          /\ userQueue' = (userQueue \ Entries(i, priority[i], sources[i]))
                          \cup Entries(i, p, sources[i])
          /\ priority' = [priority EXCEPT ![i] = p]
          /\ fileQueue' = fileQueue /\ sources' = sources
        BY <1>4, QueuedAt DEF SetPriority
    <2> HIDE DEF i
    <2>2. Queued(k) /\ v \in sources[k]
        BY <2>1 DEF Queued
    <2>3. CASE k = i
        <3>1. <<p, v, k>> \in Entries(i, p, sources[i])
            BY <2>2, <2>3, EntriesOf
        <3> QED
            BY <1>1, <2>1, <2>3, <3>1
    <2>4. CASE k # i
        BY <1>1, <1>2, <2>1, <2>2, <2>4, EntryStays
    <2> QED
        BY <2>3, <2>4
<1>5. CASE MoveOnto(s, t)
    <2> DEFINE i == fileQueue[s]
               m == fileQueue[t]
    <2>1. /\ s # t /\ i \in Items /\ m \in Items /\ Queued(m)
          /\ fileQueue' = [fileQueue EXCEPT ![s] = NoItem]
          /\ priority' = [priority EXCEPT ![i] = PAUSED]
        BY <1>5, QueuedAt DEF MoveOnto
    <2>2. PICK new \in SUBSET (sources[i] \ sources[m]) :
              /\ sources' = [sources EXCEPT ![m] = sources[m] \cup new, ![i] = {}]
              /\ \A q, w, j : <<q, w, j>> \in userQueue' <=>
                    \/ /\ <<q, w, j>> \in userQueue
                       /\ ~(q = priority[j] /\ w \in sources[j] /\ j = i)
                    \/ ~IsFinished(j) /\ q = priority[j] /\ w \in new /\ j = m
        BY <1>5, MergedEntries
    <2>3. \A r \in Targets : fileQueue[r] = i => r = s
        BY <2>1, TargetOf DEF IndexInv, QueueInv
    <2> HIDE DEF i, m
    <2>4. k # i /\ Queued(k)
        BY <1>1, <2>1, <2>3 DEF Queued
    <2>5. sources' = [sources EXCEPT ![m] = sources[m] \cup new, ![i] = {}]
        BY <2>2
    <2>6. v \in sources[k] \/ (k = m /\ v \in new)
        BY <1>1, <2>1, <2>4, <2>5
    <2>7. priority'[k] = priority[k] /\ ~IsFinished(k)
        BY <1>1, <2>1, <2>4 DEF CompleteInv, NeverFull
    <2> QED
        BY <1>2, <2>2, <2>4, <2>6, <2>7
<1> QED
    BY <1>3, <1>4, <1>5

\* Every operation preserves completeness.
LEMMA CompleteStep ==
    ASSUME ~Rechecks, ~KeepFinished, IndexInv, CompleteInv, [Next]_vars
    PROVE  CompleteInv'
<1>1. CASE UNCHANGED vars
    BY <1>1 DEF vars, CompleteInv, NeverFull, IsFinished, EntriesComplete, Queued, AssertionsHold
<1>2. CASE Next
    <2>1. ASSUME NEW u \in Users, GetDownload(u) \/ PutLate(u) \/ PutUnfinished(u)
          PROVE  EntriesComplete'
        <3>1. UNCHANGED <<fileQueue, userQueue, priority, sources>>
            BY <2>1 DEF GetDownload, PutLate, PutUnfinished, item
        <3> QED
            BY <3>1 DEF CompleteInv, EntriesComplete, Queued
    <2>2. ~RecheckReset /\ ~RecheckDone /\ ~MoveStuckFile /\ ~RecheckGivesUp
          /\ \A t \in Targets : ~RecheckStart(t)
        BY NoRechecks DEF IndexInv, PointerInv
    <2>3. EntriesComplete'
        BY <1>2, <2>1, <2>2, CompleteAdd, CompleteRemove, CompleteChange DEF Next
    <2> QED
        BY <1>2, <2>3, NeverFullStep, AssertionsStep DEF CompleteInv
<1> QED
    BY <1>1, <1>2

\* Dropping finished files and rechecking nothing, completeness holds for good.
LEMMA CompleteInvHolds ==
    ASSUME ~Rechecks, ~KeepFinished
    PROVE  Spec => [](IndexInv /\ CompleteInv)
<1>1. ASSUME Init PROVE CompleteInv
    <2>1. \A i \in Items : sources[i] = {} /\ progress[i] = "none"
        BY <1>1 DEF Init
    <2> QED
        BY <1>1, <2>1
           DEF Init, CompleteInv, NeverFull, IsFinished, EntriesComplete, AssertionsHold
<1>2. IndexInv /\ CompleteInv /\ [Next]_vars => CompleteInv'
    BY CompleteStep
<1> QED
    BY <1>1, <1>2, IndexInvHolds, PTL DEF Spec

\* The two halves are the cache property.
LEMMA CacheForm == ASSUME IndexInv, CompleteInv PROVE UserQueueIsCache
<1> DEFINE cache == {e \in Priorities \X Users \X Items :
                        /\ Queued(e[3]) /\ ~IsFinished(e[3])
                        /\ e[1] = priority[e[3]] /\ e[2] \in sources[e[3]]}
<1>1. userQueue \subseteq Priorities \X Users \X Items
    BY DEF IndexInv, QueueInv, TypeOK
<1>2. \A p \in Priorities, u \in Users, i \in Items :
         <<p, u, i>> \in userQueue <=> <<p, u, i>> \in cache
    <2>1. ASSUME NEW p \in Priorities, NEW u \in Users, NEW i \in Items
          PROVE  <<p, u, i>> \in userQueue <=> Queued(i) /\ p = priority[i] /\ u \in sources[i]
        BY DEF IndexInv, PointerInv, EntriesLive, CompleteInv, EntriesComplete
    <2> QED
        BY <2>1 DEF CompleteInv, NeverFull
<1>3. \A e \in Priorities \X Users \X Items :
         e[1] \in Priorities /\ e[2] \in Users /\ e[3] \in Items /\ e = <<e[1], e[2], e[3]>>
    OBVIOUS
<1>4. \A e \in Priorities \X Users \X Items : e \in userQueue <=> e \in cache
    BY <1>2, <1>3
<1>5. userQueue = cache
    BY <1>1, <1>4
<1> QED
    BY <1>5 DEF UserQueueIsCache

-----------------------------------------------------------------------------
(* The theorems.                                                           *)

\* No item is queued under two targets, whatever is added, moved, merged, removed,
\* completed or rechecked: FileQueue::remove by one target leaves no pointer to the
\* deleted item under another (FileQueue::add, move, remove; QueueManager.cpp).
THEOREM OneTargetTheorem == Spec => []OneTarget
BY QueueInvHolds, PTL DEF QueueInv

\* No user is ever a source and a bad source of the same item, rechecks and kept
\* files included (QueueItem::addSource, removeSource; QueueManager::addSource,
\* move, checkSfv).
THEOREM SourcesDisjointTheorem == Spec => []SourcesDisjoint
BY QueueInvHolds, PTL DEF QueueInv

\* As long as nothing is rechecked, finished files kept or not, UserQueue::running,
\* the downloads of the items and the Downloads of the connections agree, and every
\* entry of UserQueue belongs to a queued item, at its priority, for one of its
\* sources: no pointer to a deleted item is left.
THEOREM NothingDangles ==
    ASSUME ~Rechecks
    PROVE  Spec => [](RunningIsListed /\ EntriesLive)
<1>1. IndexInv => RunningIsListed /\ EntriesLive
    BY DEF IndexInv, PointerInv
<1> QED
    BY <1>1, IndexInvHolds, PTL

\* As long as nothing is rechecked and finished files are dropped, UserQueue is a
\* cache of FileQueue (QueueManager.cpp, every operation under cs).
THEOREM IndexesAgree ==
    ASSUME ~Rechecks, ~KeepFinished
    PROVE  Spec => []UserQueueIsCache
<1>1. IndexInv /\ CompleteInv => UserQueueIsCache
    BY CacheForm
<1> QED
    BY <1>1, CompleteInvHolds, PTL

\* Under the same hypotheses no sequence of operations makes an assertion of
\* UserQueue::remove or addDownload fail.
THEOREM AssertionsTheorem ==
    ASSUME ~Rechecks, ~KeepFinished
    PROVE  Spec => []AssertionsHold
<1>1. CompleteInv => AssertionsHold
    BY DEF CompleteInv
<1> QED
    BY <1>1, CompleteInvHolds, PTL
=============================================================================
