# Verification of BDC++'s transfer core

TLA+ models of the core of BDC++ (a DC++ derivative): downloads from the queue to
the finished file, upload slots, connections and their threads, model-checked
with TLC on small instances and, for the results that matter most, proved with
TLAPS for every value of the constants. The code is in `src/dcpp`; every
definition that models code is tied to its lines in `PROJECT.json` under `map`.

## 1. Inventory: the system and its parts

BDC++ is a multi-threaded file-sharing client. Singletons ("managers") hold the
state, each guarded by its own recursive `CriticalSection cs`; they call each
other directly and through listeners. The threads that matter here are

* the **timer** (`TimerManager`), which fires `Second` and `Minute`;
* one **socket thread per connection** (`BufferedSocket`): it runs the handlers
  of a peer's messages one after the other, and between them the tasks other
  threads queued for it (`callAsync`, `disconnect`);
* the **hub threads**, which report users coming and going and search results;
* the **user interface** thread;
* **workers**: the hasher, the rechecker, the file mover, the share refresh;
* the **main thread**, which at the end stops the others in a fixed order.

| component | state it keeps | operations | what makes it correct |
|---|---|---|---|
| `QueueItem`, `Segment` | ordered set `done` of recorded ranges, the running downloads, sources and bad sources | `getNextSegment`, `addSegment`, `resetDownloaded`, `isFinished` | ranges handed out never overlap; `done` stays consolidated and inside the file; progress never shrinks |
| a file's download (`QueueManager::getDownload` / `putDownload`, `Download`, `DownloadManager`, `MerkleCheckOutputStream`) | the item, the temporary file, the tree, `Queue.xml` | fetch tree, fetch segment, open, finish, fail, restart | what is recorded is on disk; the file is completed |
| `QueueManager` indexes | `FileQueue` (by target, owner), `UserQueue` (by priority and user; `running`) | add, addSource, getDownload, putDownload, remove, removeSource, setPriority, move, recheck | the second index is an exact cache of the first; the assertions hold |
| `Rechecker`, `FileMover` | a queue of names, an `active` flag and a thread each | add, moveFile, moveFile_, run, destruction | a finished file is never lost; no request is forgotten; the queue's lock is not held for the time of a move |
| `HashManager::Hasher` | files to hash, semaphore, pause counter, `stop`, `rebuild` | hashFile, pause, resume, HashPauser, rebuild, shutdown | no wakeup lost, each pause undone once, the thread ends |
| `HashManager::HashStore` | trees, in two files | add, get, rebuild | a crash leaves a readable store |
| `ConnectionManager` | one `ConnectionQueueItem` (CQI) per user for downloads, others for uploads and private messages, the connections, tokens | getDownloadConnection, on(Second), on(Minute), handshake handlers, force, failed | a CQI is ACTIVE exactly while a connection belongs to it; nothing on offer is forgotten; every attempt ends |
| `DownloadManager` | `downloads`, `idlers` | addConnection, checkDownloads, checkIdle, revive, endData, failDownload | a user with something on offer is served |
| `UploadManager` | slot counters, reserved slots, waiting and called users | prepareFile, reserveSlot, addConnection, removeConnection, notifyQueuedUsers, on(Minute) | slots are neither lost nor given twice; a waiting user is called, served or dropped |
| `ThrottleManager` | token buckets, two mutexes used as alternating gates | read, write, on(Second), shutdown | a transfer without a token waits at most for the next second, and not at all at shutdown |
| `BufferedSocket`, `UserConnection` | state, task queue, write buffer, `disconnecting` | connect, accept, write, transmitFile, callAsync, disconnect, run | the thread ends and deletes the socket after the owner has let it go, and not before |
| shutdown (`DCPlusPlus.cpp`) | the order of the managers' ends | shutdown of timer, throttle, connections, sockets | every thread ends |
| directory downloads | `QueueManager::directories` | addDirectory, list finished | a directory is queued once its list is there |
| hubs, shares, searches, settings, favourites, crypto, port mapping, plugins, user interface | tables and protocol state | parsing, formatting, look-ups | see `PROJECT.json`, "components", for why each is left out |

Interactions on the download path: the queue calls
`ConnectionManager::getDownloadConnection`; the timer turns the CQI into a
request through a hub; the peer's connection is shaken hands with on its own
thread and handed to `DownloadManager`, which asks `QueueManager::getDownload`
for something to do, writes through `MerkleCheckOutputStream`, and returns the
`Download` to `putDownload`; a failure reaches `ConnectionManager::failed` first
and `DownloadManager::onFailed` second. Hard behaviours are: decisions made
under one lock and used under another; a handler cut in two by a released lock
(rechecker, idle list, slot counting); a crash with an old `Queue.xml`, without one
or in the middle of a move; requests that are lost or answered late; three records
of one running download; an unsigned counter; a semaphore with four meanings;
counters changed without their lock; mutexes that are closed for a second at a
time; an object that deletes itself; a shutdown that waits for all of them. They are listed line by line
under `hazards`, each with the property that would catch it, or the reason why
none does yet.

## 2. Modules

| module | models | state and actions against the code |
|---|---|---|
| `QueueItem` | `Segment.h`, the range half of `QueueItem.cpp` | pure operators: `AddSegment` with its `Consolidate` in closed form (the code's pass over the ordered set begins a new range exactly after a segment that ends before all later ones begin), `NextSegmented` and `NextSequential` for the two modes of `getNextSegment`, `IsFree` for its overlap tests |
| `SegmentedDownload` | one file from the first request to the last byte | `done`, `listed` (`QueueItem::downloads`), `transfer` (the `Download` of each user's connection), `temp`/`data` (the temporary file and which of its bytes are right), `there`/`target` (the same of the target file), `inPlace` (the item has no temporary file because its target exists), `saved` (`Queue.xml`: whether it has the item, its ranges, sources and temporary file), `tree`, `recheck`; one action per critical section of `QueueManager::cs` |
| `MCSegmentedDownload` | – | the loops of `addSegment` and of `QueueLoader` as they are written, and the assumption, evaluated by TLC on all small sets of ranges, that `Consolidate` computes what they do (`LoopsAgree`) |
| `AbstractDownload` | what a download promises | `collected` bytes grow or are forgotten, and the file is `delivered` once, whole; `SegmentedDownload` implements it (`KeepsPromise`) until a restart believes an outdated `Queue.xml` |
| `QueueManager` | the indexes | `fileQueue`, `userQueue`, `running`, the item's fields, the target each connection holds; one action per operation; `broken` records a failed `dcassert` |
| `MCQueueManager` | – | symmetry sets for TLC |
| `Hasher` | the hashing thread and everybody who pauses it | `sem`, `paused`, `w`, `rebuild`, `stop` as in the code, `pc` the thread's place, `pausers` the live HashPausers, `dialog` what the button's handler has read and not yet acted on, `unsent` callers between flag and signal |
| `DownloadConnections` | the download half of `ConnectionManager`, and `DownloadManager` | `cqi` with state, where `lastAttempt` lies and whether `errors` is -1; `conn` with the phase of each connection's thread; `idlers`, `revives` (queued `revive` tasks), `kicked`, `asked` (requests on their way), `calls` (calls of `getDownloadConnection` made after the queue's lock was released), `wanted` (items `getNext` would offer) |
| `FinishedFiles` | `FileMover`, `Rechecker`, `moveFile`, `saveQueue`/`loadQueue`, the end of `QueueManager` | `item`, `temp`, `target`, `aside` (what is where; `Name` says which files have the same bare name and so replace each other in `aside`), `files`/`active`/`thread` of each worker, `caller` (the thread inside `moveFile` or `Rechecker::add`), `moving` and `check` (how far a move or a recheck is), `xml`, `saving`, `dirty`, `phase`; one action per critical section or file operation; `owed` and `late` are history |
| `MCFinishedFiles` | – | which files may be large, two files of the same name, symmetry |
| `UploadManager` | slots, mini slots, waiting and called users | `running`, `extra`, the flags of each connection, `waitingUsers`, `waitingFiles`, `connecting`, `reserved` as in the code; `decision` is what `prepareFile` carries from its first critical section to its second, `reg` the register between the load and the store of an unlocked `running--` |
| `ThrottleManager` | token buckets and gates | `held`, `activeWaiter`, the tokens of each direction, where each thread is (`place`) |
| `BufferedSocket` | the socket threads, `UserConnection`, `ConnectionManager`'s list, the shutdown; composes `ThrottleManager` | `state`, `tasks`, `writeBuf`, `sendBuf`, `disconnecting` as in the code, `at` the thread's place, `maker` the thread that creates the connection, `main` the shutdown |
| `ConnectionLife` | what the holder of a connection may rely on | `phase`: absent, owned, open, leaving, gone; `BufferedSocket` implements it (`LivesInOrder`) |
| `*Proof` | – | theorems, lemmas, proofs |

`SegmentedDownload` builds on `QueueItem`; it and `QueueManager` look at the same
code at two resolutions, bytes of one file and indexes over many, and
`DownloadConnections` at a third, connections. Each abstracts the others: an item
is `none/part/full` in `QueueManager`, a number on offer in
`DownloadConnections` and `none/part/whole` on disk in `FinishedFiles`; a
connection is just "the user's" in the first two, and what its thread is made of
is in `BufferedSocket`.

Abstractions: messages, names and payloads are model values. Positions are
unbounded integers (files are far below 2^63). The lists of `UserQueue` are
sets, so `getNext` may choose any eligible item. Time is where `lastAttempt`
lies: 0, recent, more than 50 s ago ("late"), more than 60 s times the errors ago
("due"); the timer ticks every second, so it meets a CONNECTING item between
"late" and "due" unless the item is barred, and `Age` respects that. In
`DownloadConnections` every item has one source, we are in active mode and there
is no `MAX_DOWNLOAD_SPEED`. In `BufferedSocket` the peer is absent: it may send,
read or close at any time and never has to. In `UploadManager` a file asked for is
the kind of slot it may use. In `SegmentedDownload` no `.sfv` file lies beside the
target (`checkSfv` is an action of `QueueManager`), and a temporary file is there in full
length or not at all: one that somebody has truncated, which `getDownload` extends
again while it keeps the recorded ranges (`QueueManager.cpp:893-897`), is not
modelled. In `FinishedFiles` a transfer stands for all the transfers of its file,
nothing is added to the queue, a target is not written in place (that is in
`SegmentedDownload`), and each item has a temporary file of its own: two items of
the same bare name and TTH, which share one (`QueueItem.cpp:31-36`, `82-84`), are not
modelled. In `ThrottleManager` the two critical sections of `on(Second)` that refill
the tokens are one step, since no thread takes tokens of both kinds; in
`UploadManager` those of `prepareFile` up to its decision are one (`Decide`).

Exceptions are written into properties because the code has them:

* `record = "believed"` in `SegmentedDownload` marks that a restart has read a
  `Queue.xml` that was outdated: older than the deletion of the temporary file, so
  that ranges are recorded and not on disk, or older than the completion of the item,
  so that the delivered file is queued again. `DoneIsOnDisk` and `KeepsPromise` speak
  of the time before, `EventuallyFinished` of the first completion; the steps after it
  are in the model, and `Consolidated`, `TreeAlone`, `FinishKeepsProgress`,
  `DisjointDownloads` and `TypeOK` are checked on them.
* `owed` in `FinishedFiles` loses a file that the user removes, the files of a queue
  that was read without a `Queue.xml` (after a crash within a save, or after any end,
  an orderly one too, that follows a failed save), a file whose transfer begins while
  it is being rechecked, and a file over whose copy in the temporary directory
  another of the same bare name is renamed.
* `DataWillBeSent` speaks of sockets that have not been told to leave;
  `ThreadEnds` and `AllDieOut` except a `DISCONNECT` that was thrown away and a
  connection `disconnectAll` came too early for (`dropped`, `missed`).
* `SlotsCounted` speaks of the time before two unlocked counter updates overlap.

## 3. Runs

Every passing run also has, for each property, a mutant in `PROJECT.json`: a
plausible bug in one mapped definition that makes TLC find the property violated.
The type invariants of `QueueManager`, `Hasher` and `FinishedFiles` are proved and
not part of the runs.

| run | instance | shows |
|---|---|---|
| `segments_crash` | 2 sources (one without TTHL), 5 bytes, leaves of 2, segmented or not, 2 faults (failures, crashes before or after the delivery, a deleted temporary file) | recorded ranges are on disk (`DoneIsOnDisk`), consolidated and inside the file (`Consolidated`), the tree is fetched alone (`TreeAlone`), finishing a segment loses nothing (`FinishKeepsProgress`), the file is completed (`EventuallyFinished`) and delivered as `AbstractDownload` says (`KeepsPromise`) |
| `segments_operations` | the same with a deleted temporary file, a removed source, a rebuilt index and rechecks | listed downloads never overlap (`DisjointDownloads`), `TypeOK`; and `LoopsAgree`, on sets of up to three ranges of up to 2 bytes that start below 5 |
| `queue_indexes` | 2 users, 2 files and 2 lists, 2 item objects, finished files dropped | `UserQueueIsCache`, `RunningIsListed`, `AssertionsHold` |
| `queue_recheck` | 1 user, finished files kept, rechecks; symmetry | `OneTarget`, `SourcesDisjoint` |
| `hasher_pausing` | 2 files, 2 pausing threads, dialog, 1 rebuild, shutdown | `NoLostWakeup`, `PausedHasOwner`, `FilesTakenUp`, `PauseTakesEffect`, `ShutdownEnds` |
| `connections` | an NMDC user with HIGHEST and an ADC user with LOWEST items, 1 slot, 2 connections, 1 outside event | `ActiveIsAssociated`, `WantedIsPursued`, `WantedIsServed`, `TypeOK` |
| `uploads` | 2 users (one NMDC, one with mini slots), 2 connections, 1 slot, 1 mini slot, 1 reserved or automatic slot, 1 overlap of counter updates | `SlotsCounted`, `WaitingAgree`, `HolderDoesNotWait`, `CalledFitSlots`, `TypeOK` |
| `uploads_waiting` | the same without mini slots and races | `WaitingEnds` |
| `sockets` | a download connection we make and an upload connection we accept, limit 1, any number of writes to the download connection, 1 other call of another thread, shutdown at any time | `OneGateClosed`, `GateOpens`, `SocketOutlivesOwner`, `LivesInOrder`, `DataWillBeSent`, `ThreadEnds`, `AllDieOut`, `TypeOK` |
| `finished` | 2 files of one name, one or both large if finished files are dropped, one large if they are kept, 2 faults (a failing transfer, move or save, a crash, a shutdown), 1 recheck; symmetry | `NothingVanishes`, `JoinIsShort`, `EndsInOrder`, `OnlyLateWait` |

Runs that TLC refutes; each is a finding, with the sentence of the repository it
contradicts:

| run | property | what happens |
|---|---|---|
| `recheck_tail` | `EventuallyFinished` | a recheck records the last, short leaf as a whole block past the end of the file (`QueueManager.cpp:424`); the item can never be finished |
| `queue_stuck` | `UserQueueIsCache` | `moveStuckFile` tests `isFinished()` the wrong way round (`QueueManager.cpp:945`) and leaves a dangling entry |

### Bounds and why they are enough

* 5 bytes with leaves of 2: two whole leaves and a short one, so segments can
  touch, leave a hole of one leaf, and end at the short leaf; chunk sizes 0 and 4
  give requests of one leaf and of two. Two sources are the least that can
  overlap. Two faults allow a failure and a crash in any order, or a crash after the
  delivery and one thing more going wrong in the item's second life.
* 2 item objects with 4 targets: items are deleted and their objects reused, so
  that dangling pointers show; two priorities are paused and not paused.
* `UnsignedMax` 7 is enough to tell a wrapped counter from a large one;
  `MaxSignals` stops new pauses, never signals.
* `MaxEvents` counts only what comes from outside (a failure, a lost request, a
  user leaving, a new item, a forced attempt, a refused peer, one more segment);
  timer, threads and answers are unlimited. `MaxAsked` 1: a further request to a
  user who has not answered one is not told apart from it. The theorems about
  `DownloadConnections` do not depend on any of these.
* Two upload connections and one slot: one user holds it while the other waits,
  or both race for it; `MaxPrivileged` bounds the slots given past the waiting
  list, without which a waiting user need never be called. `MaxOverlaps` 1 lets
  one update be lost; `SlotsCounted` speaks of the time before.
* `Limit` 1 and `MaxLen` 2: a call that needs two seconds' tokens; one call of
  another thread (disconnect of either kind, a protocol error) at any moment suffices
  to meet each state of the thread. Writes are not counted, so that a second one
  meets a thread that is sending the first; `Written` keeps them to one connection.
* Two files are the least for a queue of the mover that is not empty when it ends
  a move; two faults are the least for two failed moves of files of one name, and
  allow a failed save and then a crash or an orderly end.

`CHECK_DEADLOCK FALSE` is used where the system really may stop: a finished file,
an empty queue, an ended thread or client. In `DownloadConnections` the timer always ticks
and deadlock is checked.

### Fairness

* `SegmentedDownload`: each source in turn asks, opens and finishes. A request
  and a transfer under way do not sit still for ever (`WF_vars(Proceeds(u))`), and
  a connection to a source asks for an item that stays on offer: weak fairness of
  `GetDownload(u)`, with its enabling condition `CanAsk(u)` written out.
  Failures, crashes and user operations are not fair, and limited by `MaxFaults`.
  The code justifies it: idle connections are revived, broken ones retried
  (which `DownloadConnections` shows).
* `Hasher`: weak fairness of the thread's steps and of scopes that end
  (HashPausers are locals); strong fairness of `FileDone`, since the thread may be
  held inside a file again and again but reads on whenever it is released.
* `DownloadConnections`: weak fairness of the timer, of time, of each socket
  thread, of a call under way, of the three-minute disconnect, and of an
  answer to a request that has not been lost. Nothing is assumed of the user, of
  failures or of losses.
* `UploadManager`: weak fairness of the connections' threads; strong fairness of
  the timer's `Second` and of the `Minute` that drops called users, because the
  timer comes round whatever happens between two ticks; and `SF_vars(Fail(c))`: no
  peer keeps a connection for ever, without which no slot would come free.
* `BufferedSocket`: weak fairness of the socket threads, of a connection being
  made, of the timer and of the main thread once it shuts down; strong fairness of
  `Released(c)`, the passing of a mutex that is free for a whole second every other
  second. Nothing is assumed of peers: `ThreadEnds` and `AllDieOut` hold although
  they never answer.

`WantedIsServed` needs the three-minute disconnect: between `getDownload`'s
"nothing" and `idlers.push_back` a new item's `checkIdle` finds nobody
(`DownloadManager.cpp:169-175`), and the connection then idles although there is
something to get. The mutant that spares idle connections shows the stall.

## 4. Proofs

Each theorem holds for all values of the constants allowed by the modules'
assumptions (sets of any size, bounds of any size). With them every invariant and
every action property that a passing run checks is stated by a theorem, some under
a hypothesis on what the user or the world does.

| theorem (in `...Proof`) | says | argument |
|---|---|---|
| `SegmentedDownload`: `DisjointDownloadsTheorem` | `[]DisjointDownloads` | the range `getNextSegment` returns is free of every listed one; then `DisjointInv` = the shape of transfers and pairwise disjoint listed ranges. Only `GetDownload` adds a range |
| `TreeAloneTheorem` | `[]TreeAlone`, if the hash index is not rebuilt | `TreeInv`: a file without a tree has nothing recorded, in the queue or in `Queue.xml`, and each file download asks for the whole of it; beside such a download `getNextSegment` has nothing to offer |
| `ConsolidatedTheorem`, `FinishKeepsProgressTheorem` | `[]Consolidated`, `FinishKeepsProgress`, with crashes and lost files only | `RangeInv`: what is recorded, saved and asked for consists of whole blocks of the tree (or ends with the file), the recorded ranges do not touch, no download asks for a recorded byte, and a queued item is not finished |
| `DoneIsOnDiskTheorem` | `[]DoneIsOnDisk`, likewise | `DiskInv`: a transfer touches only its own range, which nothing recorded overlaps; while a file download runs without a temporary file nothing is recorded; `Queue.xml` says no more than `done` unless the file was deleted or the item finished since. It holds until an outdated `Queue.xml` is believed (`FirstLife`): till then the target exists only after the item has left the queue, so nothing is written in place (`PlaceInv`) |
| `KeepsPromiseTheorem` | `Spec => KeepsPromise`, likewise | the refinement of `AbstractDownload`: every step collects, forgets or delivers, from `DiskInv`; that an item comes back only with an outdated `Queue.xml` is part of `PlaceInv`. From the restart that believes one on, nothing is claimed |
| `DownloadTypes` | `[]TypeOK`, likewise | from `DiskInv` |
| `QueueManager`: `OneTargetTheorem`, `SourcesDisjointTheorem` | `[]OneTarget`, `[]SourcesDisjoint` | `QueueInv`, these two with the types: inductive whatever is rechecked, moved, kept or fails its checksum |
| `NothingDangles` | `[](RunningIsListed /\ EntriesLive)`, if nothing is rechecked | `PointerInv` on top of it: entries belong to queued items, at their priority, for one of their sources; finished items have none; only sources run an item (`UserQueue::remove` walks the sources to find what runs); a file list has its own user as its only source |
| `IndexesAgree`, `AssertionsTheorem` | `[]UserQueueIsCache`, `[]AssertionsHold`, if besides finished files are dropped | `CompleteInv` on top of both: nothing queued is full, and no entry is missing |
| `Hasher`: `NoLostWakeupTheorem` | `[](TypeOK /\ NoLostWakeup)` | counting: every unit of work has a token in the semaphore, held back in `paused`, or about to be sent |
| `PausedHasOwnerTheorem` | `[]PausedHasOwner` | inductive with the type invariant: only the first pauser sees a zero counter |
| `DownloadConnections`: `ActiveIsAssociatedTheorem` | `[]ActiveIsAssociated` | `IInv`, the pointwise form: each associated connection has an ACTIVE item, each ACTIVE item a connection, and no two share one |
| `WantedIsPursuedTheorem` | `[]WantedIsPursued` | `Sight`: downloads are held only during a transfer or between the two halves of a failure, idle connections hold none, and what is on offer is pursued. It needs `IInv`: a segment that ends puts its item back on offer without a call, which is right only because the connection's CQI is ACTIVE then and `on(Second)` leaves it alone |
| `ConnectionTypes` | `[]TypeOK` | `BoundInv` counts: what a user has on offer and what his connections hold stay together below the bound, because a transfer always holds what it puts back |
| `UploadManager`: `SlotsAreCounted` | `[]SlotsCounted` | the counters equal the number of flagged connections plus those still to decrement; `SlotInv` adds the types, which flags a connection has in which phase (`Phases`), and that without overlaps a loaded register still has the counter's value (`Loaded`) |
| `CallsFitSlots` | `[]CalledFitSlots` | from the count: `notifyQueuedUsers` calls at most as many users as there are free slots less the users already called, nobody else adds to `connectingUsers`, and `running`, being a count, is not negative |
| `WaitingListsAgree`, `HoldersDoNotWait`, `UploadTypes` | `[]WaitingAgree`, `[]HolderDoesNotWait`, `[]TypeOK` | `UserInv`: a user has one live upload connection (`ConnsInv`), so that a refusal never meets a slot of the same user, and who is granted a slot is taken off both lists |
| `BufferedSocket`: `GateTheorem` | `[]OneGateClosed` | the timer takes one mutex before it lets the other go; inductive with the types |
| `LifeTheorem` | `[]SocketOutlivesOwner` | `LifeInv`: a socket is made after its `UserConnection`, which nobody deletes meanwhile, and only the deletion of the `UserConnection` queues the SHUTDOWN that ends the thread |
| `LifeImplemented` | `Spec => LivesInOrder` | the refinement of `ConnectionLife`, each action mapped to a step or a stutter of one connection, with `LifeInv` |
| `DataTheorem`, `SocketTypes` | `[]DataWillBeSent`, `[]TypeOK` | `DataInv`: nothing is in the two buffers before the connection stands; a SEND_DATA leaves the queue only with the data of `writeBuf`, whatever tasks are put behind it; and unless the socket was told to leave, `sendBuf` is empty when `threadSendData` begins, so the swap brings nothing back |
| `FinishedFiles`: `TypesHold` | `[]TypeOK` | with it: whatever is moved, checked or called for is a file, and who moves a small file is inside `moveFile` |
| `JoinIsShortTheorem` | `[]JoinIsShort` | `WorkerInv`: a worker's flag is set exactly while its thread is before `Leave` or about to be started; so whoever finds it clear meets a thread past its loop |
| `EndsInOrderTheorem` | `[]EndsInOrder` | `EndInv`: once the connections are gone only the rechecker calls the mover, and it is joined first |
| `OnlyLateWaitTheorem` | `[]OnlyLateWait` | `LateInv`: a thread about to clear its flag leaves only files pushed since it found the queue empty |
| `NothingVanishesTheorem` | `[]NothingVanishes` | `WholeInv`: what each step of a move (`CopyInv`) and of a recheck (`Checking`) knows of the temporary and the target file, and that `Queue.xml` calls finished nothing that is queued (`XmlInv`); a failed move replaces only copies of the same bare name, which are no longer owed |

`QueueItemProof` holds the lemmas about the operators on ranges, which the proofs
about `SegmentedDownload` rest on. About `addSegment`: its result lies in the file,
is apart, begins and ends where inserted ranges do and has no new bytes
(`ConsolidateRanges`); it has all of them if no two of the inserted ranges overlap
(`ConsolidateCovers`); it changes nothing that is apart already
(`ConsolidateApart`), so that a restart loads what was saved. About
`getNextSegment`: it returns a range of whole blocks that no running download
overlaps (`NextSegmentedIsFree`), nothing recorded if the recorded ranges are
whole blocks (`FoundIsNotDone`, `NextSequentialFits`), and it finds one whenever a
block is missing (`NextSegmentedFinds`, `SomeBlockMissing`). The sum behind
`getDownloadedBytes` is positive if something is recorded
(`DownloadedBytesPositive`): this fold is unfolded from its recursive function and
reasoned about by taking a least counterexample (`LeastNat`).

The hypotheses are where the code gives the property up, as TLC shows. A recheck
leaves a dangling entry in `UserQueue` (`queue_stuck`) and a range past the end of
the file (`recheck_tail`); a finished file that is kept can be cut back by a late
`Download` and be unfinished without entries; a rebuilt index makes an item with
recorded ranges fetch its tree again beside a download, when a source was removed
or the file rechecked; a removed source goes on fetching what another is given.

Checked by TLC only: liveness (`EventuallyFinished`, `FilesTakenUp`,
`PauseTakesEffect`, `ShutdownEnds`, `WantedIsServed`, `WaitingEnds`, `GateOpens`,
`ThreadEnds`, `AllDieOut`), which is out of the prover's reach; `LoopsAgree`, which
would need an induction over the loops; and `SegmentedDownload!TypeOK` in the
presence of rechecks, removed sources and rebuilt indexes, where a recheck's fold
records ranges beyond the file and `getNextSegment` then computes negative sizes.

## 5. Observations that are not properties

Met while modelling and reached in the models.

Downloads and the queue:

* `UserQueue::addDownload` asserts that the user runs nothing (`QueueManager.cpp:227`).
  `ConnectionManager::failed` frees the CQI before `onFailed` puts the download
  back, so a second connection can start one in between (reached in
  `DownloadConnections` with `Slots = 0`, `MaxItems = 2`).
* `DOWNLOAD_SLOTS` is tested in `startDownload` and used up later: two connections
  can pass the test together.
* A source removed during its transfer goes on writing while its range is handed
  to another; both write the same verified bytes.
* In sequential mode after an index rebuild `getNextSegment` can return a segment
  of size 0 that is then asked for.
* With finished files kept, a late `putDownload` of a finished item meets the
  assertions of `UserQueue::remove`.
* A temporary file lost before a crash with an old `Queue.xml` leaves recorded
  ranges without bytes until the next `getDownload` looks at the file.
* A second rebuild request during a rebuild is forgotten (`HashManager.cpp:596`).
* An incoming ADC connection does not reset the error count (`ConnectionManager.cpp:780`
  does not reach `checkDownload`), so its back-off grows although it succeeds.
* `removeSource(user)` keeps the user in items all of whose parts are running.
* After a rebuild of the hash index the block size is the whole file; `addSegment`
  then merges a containing range with a contained one into one that ends too early
  (`QueueItem.cpp:205`), so recorded progress is lost (`changelog.txt:949`: "The good
  parts of partially downloaded segments are now added to queue").
* A temporary file deleted and made again, then a crash with an older `Queue.xml`:
  the restored ranges are believed although their bytes are missing.
* A crash after the delivery and before the next save (`QueueManager.cpp:1634-1637`)
  brings the finished item back: it is downloaded and delivered a second time. If
  nothing was recorded in `Queue.xml` the item finds its target there, has no
  temporary file and is written into the good target (`QueueItem.cpp:75`); a failed
  tail then spoils it for as long as it takes to fetch it again. Progress of such a
  download is forgotten at each `getDownload`, since a file without a name has no
  size (`QueueManager.cpp:892`): with segments smaller than the file one source alone
  does not come to an end.
* An item that changed from its temporary file to its target, or back, while
  transfers were running (`QueueManager.cpp:1003` with `QueueItem.cpp:75`) can move an
  incomplete temporary file over the target when the last one ends.
* The unverified tail of a transfer whose source was removed can overwrite bytes
  another source has verified.
* `putDownload` of a failed transfer records its whole blocks without looking whether
  the file is complete now (`QueueManager.cpp:1013`). With a removed source that still
  writes, the last missing blocks can be recorded this way: the item stays queued
  with everything done, and is asked for once more.

Hashing and download connections:

* The dialog's button can resume inside the scope of a HashPauser, whose
  destructor then decrements an unsigned zero (`HashManager.cpp:539`).
* `on(Second)` skips an item with a protocol error before it comes to the time-out
  (`ConnectionManager.cpp:187` and `219`): a forced attempt nobody answers leaves the
  CQI CONNECTING for ever, and further forced attempts send nothing.

Finished files:

* With `KEEP_FINISHED_FILES` an entry counts as finished once its file was pushed to
  the mover; removing it then deletes the temporary file, the only copy
  (`QueueManager.cpp:1163-1165`), while `help/settings_queue.html:124-125` says that
  finished entries can be deleted at any time.
* A crash between deleting `Queue.xml` and renaming its successor
  (`QueueManager.cpp:1396-1397`), or after a rename that failed, loses the queue: the
  next start finds none and writes an empty one. `Queue.xml.tmp` is never read.
* A file that cannot be moved is renamed to its bare name in the temporary directory
  (`QueueManager.cpp:930-932`) and replaces whatever has that name: of two files of the
  same name in a tree fetched to a full volume, only the second is left.
* Two items of the same bare name and TTH in different directories share one temporary
  file (not modelled; duplicates are refused only with `DONT_DL_ALREADY_QUEUED`,
  `QueueManager.cpp:564`).
* A download that starts while its file is rechecked can have the complete file
  deleted by `putDownload`, or an overwritten one moved as complete.
* A file pushed after the worker's last look at its queue and before the flag is
  cleared waits for the next push, and at shutdown for ever; its temporary file is
  found again only by adding it anew and rechecking.
* `moveStuckFile` does not call `setDirty`.

Uploads:

* A free slot is looked up (`UploadManager.cpp:108`) and taken (`240`) in two critical
  sections, so two peers can take the last one; `getAutoSlot` ("Only grant one slot
  per 30 sec", `272`) has the same gap before `lastGrant` is set.
* A slot reserved between the decision for a mini slot and its grant is used up
  without a full slot (`243`). Reserved slots never expire, unlike
  `help/chat_commands.html:57-58` ("10 minutes").
* `running--` and `extra--` (`473`, `477`) are not under the lock and can lose updates.
* Users with reserved slots can keep a waiting user from ever being called.

Connections and shutdown:

* A `DISCONNECT` queued before `CONNECT` is thrown away in state STARTING (`dropped`),
  and a `UserConnection` is listed before it has a socket, so `disconnectAll` can
  miss it (`missed`): `ConnectionManager::shutdown` then waits for its time-outs,
  which the stopped timer no longer provides.
* A protocol error takes a connection off the list with a graceful disconnect only;
  a thread blocked in `threadSendFile` on a peer that reads nothing is then told to
  leave by nobody.
* After `disconnect(true)` `threadSendData` returns without clearing `sendBuf`
  (`BufferedSocket.cpp:419-421`); run again for a further write, it swaps the rest back
  into `writeBuf` (`413`), for which no task is queued.
* An outgoing connection has `lastActivity` 0 until it is connected, so a `Minute`
  during the attempt disconnects it (`ConnectionManager.cpp:257`).
* `waitCS` is unlocked in `shutdown` by another thread than the one that locked it.

## 6. Not modelled, and the plan

Done, in this order: `QueueItem`, `SegmentedDownload`, `QueueManager`, `Hasher`,
`DownloadConnections`, `UploadManager`, `AbstractDownload`, `ThrottleManager`,
`BufferedSocket`, `ConnectionLife`, `FinishedFiles`, with their proofs. To come:

1. Proofs: the types of `SegmentedDownload` with rebuilt indexes and removed sources;
   weaker hypotheses for `NothingDangles` (rechecks of files that do not finish).
2. **The hash store**: its index replaced in two steps as `Queue.xml` is, against a
   data file that is already rewritten.
3. **Directory downloads** on top of the queue's list items.
4. **Lock order** between ConnectionManager, QueueManager and DownloadManager.
5. **The sockets of hubs and HTTP requests**, whose owners put them away at any time.

Left out for good: protocols as text, lists and XML as data, cryptography, the
operating system's sockets, port mapping, settings, plugins and the user interface (except the
pause button); the reasons are with the components in `PROJECT.json`.
