-------------------------- MODULE SegmentedDownload --------------------------
(***************************************************************************)
(* The life of ONE queued file at byte level: which ranges its sources are *)
(* asked for, what is recorded as done, what is really on disk, and what   *)
(* survives a restart.  QueueManager::getDownload / putDownload, the       *)
(* Download constructor, Download::open, and the parts of DownloadManager, *)
(* HashManager and QueueManager::Rechecker that touch the item.            *)
(*                                                                         *)
(* Every action is one critical section of QueueManager::cs.  A user has   *)
(* at most one download connection (ConnectionManager keeps one            *)
(* ConnectionQueueItem per user), so a Download object is identified by    *)
(* its user.  SETTING(KEEP_FINISHED_FILES) is off: a finished item leaves  *)
(* the queue.  It comes back if the client dies before the next save of    *)
(* Queue.xml; its target file is there then, and may be written in place.  *)
(***************************************************************************)
EXTENDS QueueItem

CONSTANTS
    Users,          \* the sources the file is queued with
    TreeUsers,      \* those whose client supports TTHL (supportsTrees)
    Size,           \* size of the file
    TreeBlock,      \* leaf size of its hash tree
    MinBlockSize,   \* HashManager::MIN_BLOCK_SIZE, the recheck minimum as well
    MaxSizeWoTree,  \* MAX_SIZE_WO_TREE
    ChunkSizes,     \* values UserConnection::chunkSize takes
    Modes,          \* values of SETTING(SEGMENTED_DL), fixed in a behaviour
    Operations,     \* which of AllOperations happen in the behaviours
    MaxFaults       \* BOUND: failures, crashes and losses in a behaviour

\* What may happen to the item from outside its transfers: the client dies,
\* the temporary file is deleted; the user removes a source, has the hash index
\* rebuilt, rechecks the file.
AllOperations == {"crash", "lose", "abandon", "rebuild", "recheck"}

ASSUME ConstAssumption ==
    /\ TreeUsers \subseteq Users
    /\ Size \in Nat \ {0}
    /\ TreeBlock \in Nat \ {0}
    /\ MinBlockSize \in Nat
    /\ MaxSizeWoTree \in Nat
    /\ ChunkSizes \subseteq Nat
    /\ Modes \subseteq BOOLEAN
    /\ Operations \subseteq AllOperations
    /\ MaxFaults \in Nat

VARIABLES
    done,       \* QueueItem::done
    transfer,   \* transfer[u]: the Download held by u's connection
    listed,     \* users whose Download is in QueueItem::downloads
    sources,    \* QueueItem::sources
    noTree,     \* sources flagged FLAG_NO_TREE
    queued,     \* the item is in the FileQueue
    tree,       \* leaf size of the tree HashManager holds, 0 if it has none
    temp,       \* the temporary file exists (with its full size)
    data,       \* the bytes of the temporary file that are right
    inPlace,    \* QueueItem::tempTarget is empty and stays so: the target exists
    saved,      \* what Queue.xml says of the item, if it has it
    recheck,    \* what the Rechecker thread is doing with the item
    there,      \* the target file exists (with its full size)
    target,     \* the bytes of the target file that are right
    segmented,  \* SETTING(SEGMENTED_DL)
    record,     \* history: Queue.xml is "current", "stale" because it speaks of
                \* a temporary file deleted or an item finished since, or was
                \* "believed" when stale
    faults      \* how much of MaxFaults is used up

vars == <<done, transfer, listed, sources, noTree, queued, tree, temp, data,
          inPlace, saved, recheck, there, target, segmented, record, faults>>

\* What only a few operations touch.
rest == <<inPlace, there, target, segmented, record>>

NoTransfer == [type |-> "none"]
Idle       == [step |-> "idle", good |-> {}]

Fault == faults < MaxFaults /\ faults' = faults + 1

Init ==
    /\ done = {}
    /\ saved = [item |-> TRUE, segments |-> {}, sources |-> Users, inPlace |-> FALSE]
    /\ transfer = [u \in Users |-> NoTransfer]
    /\ listed = {}
    /\ sources = Users /\ noTree = {}
    /\ queued = TRUE
    /\ tree = 0
    /\ temp = FALSE /\ data = {} /\ inPlace = FALSE
    /\ recheck = Idle
    /\ there = FALSE /\ target = {}
    /\ segmented \in Modes /\ record = "current"
    /\ faults = 0

-----------------------------------------------------------------------------
(* Helpers                                                                 *)

RunningSegments == {transfer[v].segment : v \in listed}

\* HashManager::getBlockSize, with getNext's fallback to the whole file.
BlockSize == IF tree = 0 THEN Size ELSE tree

\* Mutant: the running tree download is not looked for.
OfferedDuringTree(u, chunk) ==
    /\ queued /\ u \in sources
    /\ \/ listed = {}
       \/ GetNextSegment(done, RunningSegments, Size, BlockSize, chunk,
                         segmented).size # 0

\* UserQueue::getNext offers the item to a connection of u.  The type looked at
\* is that of downloads[0], any of the listed ones: they are a set here.
Offered(u, chunk) ==
    /\ queued /\ u \in sources
    /\ \/ listed = {}
       \/ /\ \E v \in listed : transfer[v].type # "tree"
          /\ GetNextSegment(done, RunningSegments, Size, BlockSize, chunk,
                            segmented).size # 0

\* The Download constructor; it copies the item's tempTarget.
FileDownload(block, segment) ==
    [type |-> "file", segment |-> segment, block |-> block, open |-> FALSE, inPlace |-> inPlace]
TreeDownload ==
    [type |-> "tree", segment |-> Segment(0, -1), block |-> 0, open |-> FALSE]

NewDownload(u, chunk, got) ==
    IF tree # 0
    THEN FileDownload(tree, GetNextSegment(got, RunningSegments, Size, tree,
                                           chunk, segmented))
    ELSE IF u \in TreeUsers \ noTree /\ Size > MinBlockSize
         THEN TreeDownload
         ELSE FileDownload(Size, GetNextSegment(got, RunningSegments, Size, Size,
                                                0, segmented))

\* The Download of u has its output stream open.
Writing(u) == transfer[u].type = "file" /\ transfer[u].open

\* The Download is destroyed; UserQueue::removeDownload.
Drop(u) ==
    /\ transfer' = [transfer EXCEPT ![u] = NoTransfer]
    /\ listed' = listed \ {u}

\* What u's transfer leaves in its file when putDownload closes it: it wrote ok
\* and a tail that may be wrong.  The temporary file of an item that has left
\* the queue is deleted.
Written(u, tail, ok) ==
    IF transfer[u].inPlace
    THEN target' = (target \ tail) \cup ok /\ UNCHANGED <<temp, data>>
    ELSE /\ UNCHANGED target
         /\ IF queued THEN data' = (data \ tail) \cup ok /\ UNCHANGED temp
                      ELSE data' = {} /\ temp' = FALSE

\* putDownload(d, false) with nothing recorded: the item forgets the name of its
\* temporary file, and QueueItem::getTempTarget gives it none if the target exists.
ForgetTempTarget == inPlace' = (inPlace \/ (queued /\ there /\ DownloadedBytes(done) = 0))

\* Queue.xml says what is not so any more.
Outdated == record' = IF record = "current" THEN "stale" ELSE record

-----------------------------------------------------------------------------
(* DownloadManager / QueueManager, in the order a transfer goes through.   *)

\* Mutant: the check for the temporary file is missing.
ResumeFromAnything(got) == got

\* Progress is forgotten if the temporary file is gone or has no name.  (A file
\* somebody has truncated is extended again and its progress kept: not modelled.)
ResumeFrom(got) == IF DownloadedBytes(got) > 0 /\ (inPlace \/ ~temp) THEN {} ELSE got

\* QueueManager::getDownload.
GetDownload(u) ==
    /\ transfer[u] = NoTransfer
    /\ listed' = listed \cup {u}
    /\ \E chunk \in ChunkSizes :
          /\ Offered(u, chunk)
          /\ done' = ResumeFrom(done)
          /\ transfer' = [transfer EXCEPT ![u] = NewDownload(u, chunk, done')]
    /\ UNCHANGED <<sources, noTree, queued, tree, temp, data, saved, recheck, faults, rest>>

Opened(t) == [type |-> "file", segment |-> t.segment, block |-> t.block, open |-> TRUE,
              inPlace |-> t.inPlace]

\* DownloadManager::startData with Download::open.
Open(u) ==
    /\ transfer[u].type = "file" /\ ~transfer[u].open
    /\ transfer[u].segment.start > 0 => temp \/ transfer[u].inPlace
    /\ transfer' = [transfer EXCEPT ![u] = Opened(transfer[u])]
    /\ temp' = (temp \/ ~transfer[u].inPlace)
    /\ UNCHANGED <<done, listed, sources, noTree, queued, tree, data, saved,
                   recheck, faults, rest>>

\* Download::open throws "Target file is missing or wrong size".
OpenFails(u) ==
    /\ transfer[u].type = "file" /\ ~transfer[u].open
    /\ transfer[u].segment.start > 0 /\ ~temp /\ ~transfer[u].inPlace
    /\ Drop(u) /\ ForgetTempTarget
    /\ UNCHANGED <<done, sources, noTree, queued, tree, temp, data, saved,
                   recheck, there, target, segmented, record, faults>>

\* endData and putDownload(d, true) of a file segment.  When all is recorded the
\* file this transfer wrote to is moved to the target, whatever is there, unless
\* it is the target, and the item leaves the queue.
FinishFile(u) ==
    LET got     == AddSegment(done, transfer[u].segment)
        fetched == SegmentBytes(transfer[u].segment)
        last    == queued /\ IsFinished(got, Size)
    IN  /\ transfer[u].type = "file" /\ transfer[u].open
        /\ transfer' = [transfer EXCEPT ![u] = NoTransfer]
        /\ done' = IF queued THEN got ELSE done
        /\ IF last THEN queued' = FALSE /\ listed' = {} /\ there' = TRUE /\ Outdated
           ELSE listed' = listed \ {u} /\ UNCHANGED <<queued, there, record>>
        /\ IF last /\ ~transfer[u].inPlace
           THEN temp' = FALSE /\ data' = {} /\ target' = data \cup fetched
           ELSE Written(u, {}, fetched)
        /\ UNCHANGED <<sources, noTree, tree, inPlace, saved, recheck, segmented, faults>>

\* endData and putDownload(d, true) of a tree whose root matches.
FinishTree(u) ==
    /\ transfer[u].type = "tree"
    /\ Drop(u)
    /\ tree' = IF queued THEN TreeBlock ELSE tree
    /\ UNCHANGED <<done, sources, noTree, queued, temp, data, saved, recheck, faults, rest>>

\* MerkleCheckOutputStream verifies whole leaves; putDownload aligns alike.
VerifiedPart(pos, block) == pos - (pos % block)

\* Mutant: the partial leaf is recorded too.
KeptPartUnaligned(pos, block) == pos

KeptPart(pos, block) == pos - (pos % block)

\* failDownload and putDownload(d, false) after pos bytes: whole blocks are
\* kept; the tail was written before its leaf could be checked and may be
\* wrong.  When the last flush fails (pos = size) the position is reset first.
FailFile(u) ==
    /\ transfer[u].type = "file"
    /\ Fault
    /\ Drop(u) /\ ForgetTempTarget
    /\ LET seg   == transfer[u].segment
           block == transfer[u].block
       IN
       \E pos \in IF transfer[u].open THEN 0 .. seg.size ELSE {0} :
       \E right \in BOOLEAN :
          LET flush == pos > 0 /\ pos = seg.size
              whole == IF flush THEN VerifiedPart(pos - 1, block)
                       ELSE VerifiedPart(pos, block)
              kept  == IF flush THEN 0 ELSE KeptPart(pos, block)
              tail  == SegmentBytes(Segment(seg.start + whole, pos - whole))
              ok    == SegmentBytes(Segment(seg.start, whole))
                       \cup (IF right THEN tail ELSE {})
          IN  /\ done' = IF queued /\ kept > 0
                         THEN AddSegment(done, Segment(seg.start, kept)) ELSE done
              /\ Written(u, tail, ok)
    /\ UNCHANGED <<sources, noTree, queued, tree, saved, recheck, there, segmented, record>>

\* A tree transfer ends without a tree: connection lost or no slots; the root
\* does not match (BAD_TREE); the peer has no tree (NO_TREE).
FailTree(u) ==
    /\ transfer[u].type = "tree"
    /\ Fault
    /\ Drop(u)
    /\ \/ UNCHANGED <<sources, noTree>>
       \/ sources' = sources \ {u} /\ UNCHANGED noTree
       \/ /\ noTree' = IF u \in sources THEN noTree \cup {u} ELSE noTree
          /\ sources' = IF Size < MaxSizeWoTree THEN sources ELSE sources \ {u}
    /\ UNCHANGED <<done, queued, tree, temp, data, saved, recheck, rest>>

\* DownloadManager::fileNotAvailable for a file request (state SND).
FileNotAvailable(u) ==
    /\ transfer[u].type = "file" /\ ~transfer[u].open
    /\ Fault
    /\ Drop(u) /\ ForgetTempTarget /\ Written(u, {}, {})
    /\ sources' = sources \ {u}
    /\ UNCHANGED <<done, noTree, queued, tree, saved, recheck, there, segmented, record>>

\* QueueManager::readd, or the source coming back in a search result.
ReaddSource(u) ==
    /\ queued /\ u \notin sources
    /\ sources' = sources \cup {u}
    /\ UNCHANGED <<done, transfer, listed, noTree, queued, tree, temp, data,
                   saved, recheck, faults, rest>>

-----------------------------------------------------------------------------
(* Persistence and the world outside.                                      *)

\* QueueManager::saveQueue; only a Restart reads what it writes.
SaveQueue ==
    /\ "crash" \in Operations
    /\ saved' = [item |-> queued, segments |-> IF queued THEN done ELSE {},
                 sources |-> IF queued THEN sources ELSE {}, inPlace |-> queued /\ inPlace]
    /\ record' = IF record = "stale" /\ (queued => Bytes(done) \subseteq data)
                 THEN "current" ELSE record
    /\ UNCHANGED <<done, transfer, listed, sources, noTree, queued, tree, temp,
                   data, inPlace, recheck, there, target, segmented, faults>>

\* QueueLoader: segments inside the file, added in the order of the set they
\* were written from; one that comes after all others extends the last range.
Loaded(segments) ==
    Consolidate({s \in segments : s.size > 0 /\ s.start >= 0 /\ End(s) <= Size})

\* What the dying client was writing to the target, or to the temporary file.
BeingWritten(toTarget) ==
    UNION {SegmentBytes(transfer[u].segment) :
              u \in {v \in Users : Writing(v) /\ transfer[v].inPlace = toTarget}}

\* The client dies and comes back: connections and source flags are gone; a
\* tree that arrived after the last save of the hash index may be lost.  What
\* Queue.xml has is queued, though the item may have been finished since; a
\* temporary file is named in it if anything is recorded there.
Restart ==
    /\ "crash" \in Operations
    /\ saved.item /\ Fault
    /\ queued' = TRUE
    /\ done' = Loaded(saved.segments)
    /\ sources' = saved.sources
    /\ inPlace' = (there /\ (saved.segments = {} \/ saved.inPlace))
    /\ transfer' = [u \in Users |-> NoTransfer]
    /\ listed' = {}
    /\ noTree' = {}
    /\ tree' \in {tree} \cup (IF "rebuild" \in Operations THEN {0} ELSE {})
    /\ data' \in {data, data \ BeingWritten(FALSE)}
    /\ target' \in {target, target \ BeingWritten(TRUE)}
    /\ recheck' = Idle
    /\ record' = IF record = "stale" THEN "believed" ELSE record
    /\ UNCHANGED <<temp, saved, there, segmented>>

\* Somebody deletes the temporary file while no transfer needs it.
LoseTempFile ==
    /\ "lose" \in Operations
    /\ temp /\ Fault
    /\ \A u \in Users : transfer[u].type # "file"
    /\ temp' = FALSE /\ data' = {} /\ Outdated
    /\ UNCHANGED <<done, transfer, listed, sources, noTree, queued, tree, inPlace, saved,
                   recheck, there, target, segmented>>

-----------------------------------------------------------------------------
(* Operations a running transfer does not know of.                         *)

\* QueueManager::removeSource(target, user, reason) while u is downloading: the
\* item forgets the Download, the connection is only ASKED to disconnect.
AbandonSource(u) ==
    /\ "abandon" \in Operations
    /\ queued /\ u \in sources
    /\ listed' = listed \ {u}
    /\ sources' = sources \ {u}
    /\ UNCHANGED <<done, transfer, noTree, queued, tree, temp, data, saved,
                   recheck, faults, rest>>

\* HashManager::HashStore::rebuild keeps only the trees of shared files.
Rebuild ==
    /\ "rebuild" \in Operations
    /\ tree # 0 /\ Fault
    /\ tree' = 0
    /\ UNCHANGED <<done, transfer, listed, sources, noTree, queued, temp, data,
                   saved, recheck, rest>>

(* QueueManager::Rechecker::run, one action per critical section, the read *)
(* of the file in between being a step of its own.                         *)

Blocks == 0 .. ((Size - 1) \div TreeBlock)

RecheckStart ==
    /\ "recheck" \in Operations
    /\ recheck.step = "idle"
    /\ queued /\ temp /\ ~inPlace /\ Size >= MinBlockSize /\ listed = {}
    /\ recheck' = [recheck EXCEPT !.step = "checked"]
    /\ UNCHANGED <<done, transfer, listed, sources, noTree, queued, tree, temp,
                   data, saved, faults, rest>>

\* Without a name for the temporary file there is nothing to read.
RecheckReset ==
    /\ recheck.step = "checked"
    /\ IF queued /\ tree # 0
       THEN done' = {} /\ recheck' = [recheck EXCEPT !.step = IF inPlace THEN "read" ELSE "reset"]
       ELSE done' = done /\ recheck' = Idle
    /\ UNCHANGED <<transfer, listed, sources, noTree, queued, tree, temp, data,
                   saved, faults, rest>>

RecheckRead ==
    /\ recheck.step = "reset"
    /\ recheck' = [step |-> "read",
                   good |-> {b \in Blocks :
                      SegmentBytes(Block(b * TreeBlock, TreeBlock, Size)) \subseteq data}]
    /\ UNCHANGED <<done, transfer, listed, sources, noTree, queued, tree, temp,
                   data, saved, faults, rest>>

\* A matching leaf is recorded as a whole block, the last one too.
AddBlock(acc, b) == AddSegment(acc, Segment(b * TreeBlock, TreeBlock))

\* A file found complete is moved to its target as if it had got stuck.
RecheckDone ==
    /\ recheck.step = "read"
    /\ recheck' = Idle
    /\ IF queued /\ recheck.good = Blocks
       THEN /\ queued' = FALSE /\ listed' = {} /\ UNCHANGED done /\ Outdated
            /\ IF temp /\ ~inPlace
               THEN temp' = FALSE /\ data' = {} /\ target' = data /\ there' = TRUE
               ELSE UNCHANGED <<temp, data, target, there>>
       ELSE /\ done' = IF queued THEN FoldLeft(AddBlock, done, SetToSortSeq(recheck.good, <))
                       ELSE done
            /\ UNCHANGED <<queued, listed, temp, data, target, there, record>>
    /\ UNCHANGED <<transfer, sources, noTree, tree, inPlace, saved, segmented, faults>>

Recheck == RecheckStart \/ RecheckReset \/ RecheckRead \/ RecheckDone

-----------------------------------------------------------------------------
Next ==
    \/ \E u \in Users :
          \/ GetDownload(u) \/ Open(u) \/ OpenFails(u)
          \/ FinishFile(u) \/ FinishTree(u)
          \/ FailFile(u) \/ FailTree(u) \/ FileNotAvailable(u)
          \/ ReaddSource(u) \/ AbandonSource(u)
    \/ SaveQueue \/ Restart \/ LoseTempFile
    \/ Rebuild \/ Recheck

Spec == Init /\ [][Next]_vars

\* An answered request starts and a started transfer ends; TCP and the peers do
\* that, the client only waits.
Proceeds(u) == Open(u) \/ OpenFails(u) \/ FinishFile(u) \/ FinishTree(u)

\* A connection to a source asks for an offered item: WF_vars(GetDownload(u)),
\* its ENABLED spelled out, which TLC evaluates far faster.
CanAsk(u) == transfer[u] = NoTransfer /\ \E chunk \in ChunkSizes : Offered(u, chunk)

Fairness ==
    \A u \in Users : /\ WF_vars(Proceeds(u))
                     /\ []<>(~CanAsk(u)) \/ []<><<GetDownload(u)>>_vars

FairSpec == Spec /\ Fairness

-----------------------------------------------------------------------------
(* Properties                                                              *)

Segments == [start : Nat, size : Int]

TypeOK ==
    /\ done \subseteq Segments
    /\ saved.segments \subseteq Segments /\ saved.sources \subseteq Users
    /\ saved.item \in BOOLEAN /\ saved.inPlace \in BOOLEAN
    /\ \A u \in Users :
          \/ transfer[u] = NoTransfer
          \/ transfer[u] = TreeDownload
          \/ /\ transfer[u].type = "file" /\ transfer[u].segment \in Segments
             /\ transfer[u].block \in Nat \ {0}
             /\ transfer[u].open \in BOOLEAN /\ transfer[u].inPlace \in BOOLEAN
    /\ DOMAIN transfer = Users
    /\ listed \subseteq Users /\ sources \subseteq Users /\ noTree \subseteq Users
    /\ queued \in BOOLEAN /\ temp \in BOOLEAN /\ inPlace \in BOOLEAN /\ there \in BOOLEAN
    /\ tree \in {0, TreeBlock}
    /\ data \subseteq 0 .. (Size - 1) /\ target \subseteq 0 .. (Size - 1)
    /\ segmented \in Modes /\ record \in {"current", "stale", "believed"}
    /\ recheck.step \in {"idle", "checked", "reset", "read"} /\ recheck.good \subseteq Blocks
    /\ faults \in 0 .. MaxFaults

Disjoint(us) ==
    \A u, v \in us : u # v /\ transfer[u].type = "file" /\ transfer[v].type = "file"
                     => ~Overlaps(transfer[u].segment, transfer[v].segment)

\* Two running downloads of the item never ask for the same byte
\* (getNextSegment looks at every element of QueueItem::downloads).
DisjointDownloads == Disjoint(listed)

\* The tree is fetched by one source and nobody downloads data meanwhile
\* (UserQueue::getNext: "No segmented downloading when getting the tree").
TreeAlone == \A u \in listed : transfer[u].type = "tree" => listed = {u}

\* Everything recorded as done really is in the temporary file: no interleaving
\* of overlapping writes, failed tails, crashes and lost files leaves a range
\* that would never be fetched again although its bytes are wrong or missing,
\* except that a crash may bring back what Queue.xml said of a deleted file or
\* of an item that was finished.
DoneIsOnDisk == temp /\ record # "believed" => Bytes(done) \subseteq data

\* The promise of the queue, AbstractDownload: bytes recorded as done, and after
\* the file has left the queue all of them, are collected; the target file is
\* what was in the temporary file when it was moved.
Promise == INSTANCE AbstractDownload WITH
    File <- 0 .. (Size - 1),
    collected <- IF queued THEN Bytes(done) ELSE 0 .. (Size - 1),
    delivered <- target

\* The file is delivered complete and right, and only when every byte is recorded;
\* a step never loses some progress and makes other; and the file is delivered
\* once (putDownload, QueueLoader, getDownload's check of the temporary file).
\* All this until a restart believes a Queue.xml older than the deletion of the
\* temporary file or than the delivery: the file may be delivered again then, and
\* with wrong bytes.
KeepsPromise == Promise!Init /\ [][Promise!Next \/ record' = "believed"]_<<done, queued, target>>

\* addSegment keeps `done' consolidated: ranges inside the file, no two of them
\* touching, so that isFinished() can compare with one segment.
Consolidated ==
    /\ \A s \in done : s.size > 0 /\ End(s) <= Size
    /\ \A s, t \in done : s # t => End(s) < t.start \/ End(t) < s.start

\* putDownload never loses recorded progress, and a finished segment is
\* recorded as a whole.
FinishKeepsProgress ==
    [][\A u \in Users : FinishFile(u) /\ queued =>
          Bytes(done) \cup SegmentBytes(transfer[u].segment) \subseteq Bytes(done')]_vars

\* With sources that do not all stay away for ever, only so many faults and
\* rechecks that come to an end the file is completed and leaves the queue.  (Not
\* so again if a crash brings it back: what is written in place may be forgotten
\* at every getDownload.)
EventuallyFinished == <>[](sources # {} /\ recheck = Idle) => <>(~queued)
=============================================================================
