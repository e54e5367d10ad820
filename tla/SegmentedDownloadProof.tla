----------------------- MODULE SegmentedDownloadProof -----------------------
(***************************************************************************)
(* Proofs about the download of one file, for every file and block size,   *)
(* every set of sources and both settings of SEGMENTED_DL, in four layers, *)
(* each resting on the one before:                                         *)
(*                                                                         *)
(*   DisjointInv  whatever happens: two running downloads never ask for    *)
(*                the same byte;                                           *)
(*   TreeInv      unless the hash index is rebuilt: a file without a tree  *)
(*                has nothing recorded and is asked for as a whole, so     *)
(*                that its tree is fetched alone;                          *)
(*   RangeInv     while the client only dies and loses temporary files:    *)
(*                all that is recorded and asked for consists of whole     *)
(*                blocks, none of them twice;                              *)
(*   DiskInv      and what is recorded is on disk.                         *)
(*                                                                         *)
(* The last gives the refinement of AbstractDownload.  The hypotheses are  *)
(* needed: with a rebuilt index, and a recheck or a removed source,        *)
(* TreeAlone fails; and a removed source whose connection goes on fetches  *)
(* what another one is given, after which a failed transfer can complete   *)
(* the file without anybody noticing.                                      *)
(***************************************************************************)
EXTENDS SegmentedDownload, QueueItemProof, TLAPS

-----------------------------------------------------------------------------
(* The inductive invariant.  Without SEGMENTED_DL an item has one download *)
(* at a time; with it, what keeps the ranges apart is that every running   *)
(* one is a proper range, so that the empty segment overlaps none of them. *)

ProperRange(t) == t.segment.start \in Nat /\ t.segment.size \in Int

IsTransfer(t) ==
    \/ t = NoTransfer
    \/ t = TreeDownload
    \/ \E block, segment, open, place :
          t = [type |-> "file", segment |-> segment, block |-> block, open |-> open,
               inPlace |-> place]

TransferInv ==
    /\ transfer = [u \in Users |-> transfer[u]]
    /\ \A u \in Users : IsTransfer(transfer[u])
    /\ listed \subseteq Users
    /\ tree \in {0, TreeBlock}

RangesInv ==
    /\ ~segmented => \A u, v \in listed : u = v
    /\ segmented => \A u \in listed : transfer[u].type = "file" => ProperRange(transfer[u])
    /\ DisjointDownloads

DisjointInv == TransferInv /\ RangesInv

\* No step but getDownload adds a running download or moves one's range.
LEMMA ShrinkingKeepsRanges ==
    ASSUME RangesInv, listed' \subseteq listed,
           segmented' = segmented,
           \A v \in listed' : /\ transfer'[v].type = transfer[v].type
                              /\ transfer'[v].segment = transfer[v].segment
    PROVE  RangesInv'
BY DEF RangesInv, DisjointDownloads, Disjoint, ProperRange

\* The constructor of a file Download keeps the segment it is given.
LEMMA FileDownloadFields ==
    ASSUME NEW b, NEW s
    PROVE  IsTransfer(FileDownload(b, s)) /\ FileDownload(b, s).segment = s
<1>1. FileDownload(b, s).segment = s
    BY DEF FileDownload
<1>2. IsTransfer(FileDownload(b, s))
    BY Zenon DEF FileDownload, IsTransfer
<1> QED
    BY <1>1, <1>2

\* What getDownload asks for is free of all that is running.
LEMMA NewDownloadIsFree ==
    ASSUME TransferInv, RangesInv, segmented, NEW u, NEW chunk, NEW got
    PROVE  LET new == NewDownload(u, chunk, got)
           IN  /\ IsTransfer(new)
               /\ new.type = "file" =>
                     /\ ProperRange(new)
                     /\ \A v \in listed : transfer[v].type = "file" =>
                           ~Overlaps(new.segment, transfer[v].segment)
<1> DEFINE new == NewDownload(u, chunk, got)
           Free(s) == /\ s.start \in Nat /\ s.size \in Int
                      /\ \A v \in listed : transfer[v].type = "file" =>
                            ~Overlaps(s, transfer[v].segment)
<1>1. \A w : \A b \in Nat \ {0} : Free(GetNextSegment(got, RunningSegments, Size, b, w, segmented))
    <2> TAKE w
    <2> TAKE b \in Nat \ {0}
    <2> DEFINE s == NextSegmented(got, RunningSegments, Size, b, w)
    <2>1. GetNextSegment(got, RunningSegments, Size, b, w, segmented) = s
        BY ConstAssumption DEF GetNextSegment
    <2>2. \/ s = Segment(0, 0)
          \/ /\ s.start \in Nat /\ s.size \in Int
             /\ \A d \in RunningSegments : ~Overlaps(s, d)
        BY ConstAssumption, NextSegmentedIsFree, RangeFields
    <2> SUFFICES Free(s)
        BY <2>1
    <2> HIDE DEF s
    <2>3. CASE s = Segment(0, 0)
        BY <2>3 DEF Segment, Overlaps, End, RangesInv, ProperRange
    <2>4. CASE /\ s.start \in Nat /\ s.size \in Int
               /\ \A d \in RunningSegments : ~Overlaps(s, d)
        BY <2>4 DEF RunningSegments
    <2> QED
        BY <2>2, <2>3, <2>4
<1> HIDE DEF Free
<1>2. \/ new = TreeDownload
      \/ \E w : \E b \in Nat \ {0} :
            new = FileDownload(b, GetNextSegment(got, RunningSegments, Size, b, w, segmented))
    BY ConstAssumption DEF NewDownload, TransferInv
<1>3. CASE new = TreeDownload
    BY <1>3 DEF TreeDownload, IsTransfer
<1>4. CASE \E w : \E b \in Nat \ {0} :
            new = FileDownload(b, GetNextSegment(got, RunningSegments, Size, b, w, segmented))
    <2> PICK w : \E b \in Nat \ {0} :
            new = FileDownload(b, GetNextSegment(got, RunningSegments, Size, b, w, segmented))
        BY <1>4
    <2> PICK b \in Nat \ {0} :
            new = FileDownload(b, GetNextSegment(got, RunningSegments, Size, b, w, segmented))
        OBVIOUS
    <2> DEFINE s == GetNextSegment(got, RunningSegments, Size, b, w, segmented)
    <2>1. Free(s)
        BY <1>1
    <2>2. new = FileDownload(b, s)
        OBVIOUS
    <2> HIDE DEF s
    <2>3. /\ IsTransfer(new)
          /\ ProperRange(new)
          /\ \A v \in listed : transfer[v].type = "file" =>
                ~Overlaps(new.segment, transfer[v].segment)
        <3> HIDE DEF new
        <3>1. IsTransfer(new) /\ new.segment = s
            BY <2>2, FileDownloadFields
        <3> QED
            BY <2>1, <3>1 DEF ProperRange, Free
    <2> QED
        BY <2>3
<1> QED
    BY <1>2, <1>3, <1>4

-----------------------------------------------------------------------------
(* Preservation, one step per group of actions.                            *)

\* QueueManager::getDownload adds a Download that overlaps no other.
LEMMA GetDownloadKeepsInv ==
    ASSUME DisjointInv, NEW u \in Users, GetDownload(u)
    PROVE  DisjointInv'
<1> USE DEF DisjointInv
<1>1. PICK chunk \in ChunkSizes :
          /\ Offered(u, chunk)
          /\ transfer' = [transfer EXCEPT ![u] = NewDownload(u, chunk, done')]
    BY DEF GetDownload
<1> DEFINE new == NewDownload(u, chunk, done')
<1>2. /\ listed' = listed \cup {u}
      /\ tree' = tree /\ segmented' = segmented
      /\ \A v \in Users : transfer'[v] = IF v = u THEN new ELSE transfer[v]
      /\ transfer' = [v \in Users |-> transfer'[v]]
    BY <1>1 DEF GetDownload, TransferInv, rest
<1>3. CASE segmented
    <2>1. /\ IsTransfer(new)
          /\ new.type = "file" =>
                /\ ProperRange(new)
                /\ \A v \in listed : transfer[v].type = "file" =>
                      ~Overlaps(new.segment, transfer[v].segment)
        BY <1>3, NewDownloadIsFree
    <2> HIDE DEF new
    <2>2. TransferInv'
        BY <1>2, <2>1 DEF TransferInv
    <2>3. \A v, w \in listed' : v # w /\ transfer'[v].type = "file" /\ transfer'[w].type = "file"
                     => ~Overlaps(transfer'[v].segment, transfer'[w].segment)
        BY <1>2, <2>1 DEF TransferInv, RangesInv, DisjointDownloads, Disjoint, Overlaps
    <2>4. \A v \in listed' : transfer'[v].type = "file" => ProperRange(transfer'[v])
        BY <1>2, <1>3, <2>1 DEF TransferInv, RangesInv
    <2> QED
        BY <1>2, <1>3, <2>2, <2>3, <2>4 DEF RangesInv, DisjointDownloads, Disjoint, ProperRange
<1>4. CASE ~segmented
    <2>1. listed = {}
        <3> SUFFICES ASSUME listed # {} PROVE FALSE
            OBVIOUS
        <3>1. RunningSegments # {}
            BY DEF RunningSegments
        <3>2. BlockSize # 0 /\ Size # -1
            BY ConstAssumption DEF BlockSize, TransferInv
        <3>3. GetNextSegment(done, RunningSegments, Size, BlockSize, chunk, segmented)
                = Segment(0, 0)
            BY <1>4, <3>1, <3>2 DEF GetNextSegment, NextSequential
        <3>4. Segment(0, 0).size = 0
            BY DEF Segment
        <3> QED
            BY <1>1, <3>3, <3>4 DEF Offered
    <2>2. IsTransfer(new)
        <3>1. new = TreeDownload \/ \E b, s : new = FileDownload(b, s)
            BY Zenon DEF NewDownload
        <3> HIDE DEF new
        <3> QED
            BY <3>1, FileDownloadFields DEF IsTransfer
    <2> HIDE DEF new
    <2> QED
        BY <1>2, <1>4, <2>1, <2>2 DEF TransferInv, RangesInv, DisjointDownloads, Disjoint
<1> QED
    BY <1>3, <1>4

\* The Download of one user goes away, everything else about the transfers is
\* as before.
LEMMA DropKeepsInv ==
    ASSUME DisjointInv, NEW u \in Users, Drop(u), tree' \in {0, TreeBlock},
           segmented' = segmented
    PROVE  DisjointInv'
<1>1. /\ listed' = listed \ {u}
      /\ \A v \in Users : transfer'[v] = IF v = u THEN NoTransfer ELSE transfer[v]
      /\ transfer' = [v \in Users |-> transfer'[v]]
    BY DEF DisjointInv, TransferInv, Drop
<1>2. TransferInv'
    BY <1>1 DEF DisjointInv, TransferInv, IsTransfer
<1>3. RangesInv'
    BY <1>1, ShrinkingKeepsRanges DEF DisjointInv, TransferInv
<1> QED
    BY <1>2, <1>3 DEF DisjointInv

\* Nothing runs when the item is queued.
LEMMA InitInv == ASSUME Init PROVE DisjointInv
BY ConstAssumption DEF Init, DisjointInv, TransferInv, RangesInv, DisjointDownloads,
   Disjoint, IsTransfer, NoTransfer

\* Every operation on the item preserves the inductive invariant.
LEMMA NextInv == ASSUME DisjointInv, [Next]_vars PROVE DisjointInv'
<1>1. CASE UNCHANGED vars
    BY <1>1 DEF vars, DisjointInv, TransferInv, RangesInv, DisjointDownloads, Disjoint
<1>2. ASSUME NEW u \in Users, GetDownload(u)
      PROVE  DisjointInv'
    BY <1>2, GetDownloadKeepsInv
<1>3. ASSUME NEW u \in Users, Open(u)
      PROVE  DisjointInv'
    <2>1. /\ listed' = listed /\ tree' = tree /\ segmented' = segmented
          /\ transfer[u].type = "file"
          /\ \A v \in Users : transfer'[v] = IF v = u THEN Opened(transfer[u]) ELSE transfer[v]
          /\ transfer' = [v \in Users |-> transfer'[v]]
        BY <1>3 DEF Open, DisjointInv, TransferInv, rest
    <2>2. IsTransfer(Opened(transfer[u]))
        BY Zenon DEF IsTransfer, Opened
    <2>3. /\ Opened(transfer[u]).type = "file"
          /\ Opened(transfer[u]).segment = transfer[u].segment
        BY DEF Opened
    <2>4. TransferInv'
        BY <2>1, <2>2 DEF DisjointInv, TransferInv
    <2>5. \A v \in listed' : /\ transfer'[v].type = transfer[v].type
                             /\ transfer'[v].segment = transfer[v].segment
        BY <2>1, <2>3 DEF DisjointInv, TransferInv
    <2> QED
        BY <2>1, <2>4, <2>5, ShrinkingKeepsRanges DEF DisjointInv
<1>4. ASSUME NEW u \in Users,
             OpenFails(u) \/ FinishTree(u) \/ FailFile(u) \/ FailTree(u) \/ FileNotAvailable(u)
      PROVE  DisjointInv'
    <2>1. Drop(u) /\ tree' \in {tree, TreeBlock} /\ segmented' = segmented
        BY <1>4 DEF OpenFails, FinishTree, FailFile, FailTree, FileNotAvailable,
                    rest
    <2> QED
        BY <2>1, DropKeepsInv DEF DisjointInv, TransferInv
<1>5. ASSUME NEW u \in Users, FinishFile(u)
      PROVE  DisjointInv'
    <2>1. /\ tree' = tree /\ segmented' = segmented
          /\ listed' \subseteq listed /\ u \notin listed'
          /\ \A v \in Users : transfer'[v] = IF v = u THEN NoTransfer ELSE transfer[v]
          /\ transfer' = [v \in Users |-> transfer'[v]]
        BY <1>5 DEF FinishFile, DisjointInv, TransferInv
    <2>2. TransferInv'
        BY <2>1 DEF DisjointInv, TransferInv, IsTransfer
    <2>3. NoTransfer.type # "file"
        BY DEF NoTransfer
    <2>4. RangesInv'
        BY <2>1, <2>3 DEF DisjointInv, TransferInv, RangesInv, DisjointDownloads, Disjoint,
                          ProperRange
    <2> QED
        BY <2>2, <2>4 DEF DisjointInv
<1>6. CASE \/ \E u \in Users : ReaddSource(u) \/ AbandonSource(u)
           \/ SaveQueue \/ LoseTempFile \/ Rebuild \/ Recheck
    <2>1. /\ transfer' = transfer /\ listed' \subseteq listed /\ tree' \in {tree, 0}
          /\ segmented' = segmented
        BY <1>6 DEF ReaddSource, AbandonSource, SaveQueue, LoseTempFile, Rebuild, Recheck,
                    RecheckStart, RecheckReset, RecheckRead, RecheckDone, rest
    <2>2. TransferInv'
        BY <2>1 DEF DisjointInv, TransferInv
    <2> QED
        BY <2>1, <2>2, ShrinkingKeepsRanges DEF DisjointInv
<1>7. CASE Restart
    <2>1. /\ listed' = {}
          /\ transfer' = [u \in Users |-> NoTransfer]
          /\ tree' \in {tree, 0} /\ segmented' = segmented
        BY <1>7 DEF Restart
    <2>2. TransferInv'
        BY <2>1 DEF DisjointInv, TransferInv, IsTransfer
    <2> QED
        BY <2>1, <2>2, ShrinkingKeepsRanges DEF DisjointInv
<1> QED
    BY <1>1, <1>2, <1>3, <1>4, <1>5, <1>6, <1>7 DEF Next

\* Two running downloads of an item never ask for the same byte, whatever the
\* file, its sources, the settings and the operations performed on it
\* (QueueItem::getNextSegment, QueueManager::getDownload).
THEOREM DisjointDownloadsTheorem == Spec => []DisjointDownloads
<1>1. Init => DisjointInv
    BY InitInv
<1>2. DisjointInv /\ [Next]_vars => DisjointInv'
    BY NextInv
<1>3. DisjointInv => DisjointDownloads
    BY DEF DisjointInv, RangesInv
<1> QED
    BY <1>1, <1>2, <1>3, PTL DEF Spec

-----------------------------------------------------------------------------
(* As long as no hash index is rebuilt a file without a tree has nothing   *)
(* recorded and is only ever asked for as a whole, so that a tree download *)
(* or a whole-file download leaves nothing to be asked for beside it.      *)

IsFile(u) == transfer[u].type = "file"

\* The item knows of a download only while it is queued and it runs.
ListedInv ==
    /\ ~queued => listed = {}
    /\ \A u \in listed : transfer[u].type \in {"tree", "file"}

NoTreeInv ==
    tree = 0 =>
        /\ recheck.step \notin {"reset", "read"}
        /\ saved.segments = {}
        /\ queued => done = {}
        /\ \A u \in Users : IsFile(u) => /\ transfer[u].segment = Segment(0, Size)
                                         /\ transfer[u].block = Size

TreeInv == DisjointInv /\ ListedInv /\ NoTreeInv /\ TreeAlone

\* With one block of the file's size getNextSegment returns the whole file if
\* nothing is done and nothing runs.
LEMMA WholeFile ==
    ASSUME NEW wanted \in Nat
    PROVE  GetNextSegment({}, {}, Size, Size, wanted, segmented) = Segment(0, Size)
<1>1. Size \in Nat \ {0} /\ Size # -1
    BY ConstAssumption
<1>2. CASE ~segmented
    <2>1. Min({Size, Size}) - 0 = Size
        BY <1>1, MinOfTwo
    <2> QED
        BY <1>1, <1>2, <2>1 DEF GetNextSegment, NextSequential
<1>3. CASE segmented
    <2> DEFINE next == NextSegmented({}, {}, Size, Size, wanted)
    <2>1. 0 * Size < Size /\ Size <= TargetSize({}, Size, Size, wanted)
        <3>1. {} \in SUBSET Ranges(Size)
            OBVIOUS
        <3> QED
            BY <1>1, <3>1, TargetIsABlock
    <2>2. IsFree(Block(0 * Size, Size, Size), Size, {}, {}, Size)
        BY DEF IsFree
    <2>3. Found(next, {}, {}, Size, Size)
        BY <1>1, <2>1, <2>2, NextSegmentedFinds
    <2>4. PICK k \in Nat, j \in Nat \ {0} : k * Size < Size /\ next = Block(k * Size, j * Size, Size)
        BY <2>3 DEF Found
    <2> HIDE DEF next
    <2>5. k = 0
        <3> SUFFICES ASSUME 1 <= k PROVE FALSE
            BY <2>4
        <3>1. 1 * Size \in 0 .. (k * Size)
            BY <1>1, BlocksMonotone
        <3> QED
            BY <1>1, <2>4, <3>1
    <2>6. Size <= j * Size /\ j * Size \in Nat
        <3>1. 1 * Size \in 0 .. (j * Size)
            BY <1>1, BlocksMonotone
        <3> QED
            BY <1>1, <3>1
    <2>7. k * Size = 0 /\ 0 + j * Size \in Int /\ Size <= 0 + j * Size
        BY <1>1, <2>5, <2>6
    <2>8. Min({Size, 0 + j * Size}) - 0 = Size
        BY <1>1, <2>7, MinOfTwo
    <2> QED
        BY <1>1, <1>3, <2>4, <2>7, <2>8 DEF GetNextSegment, Block, next
<1> QED
    BY <1>2, <1>3

\* Beside a download of the whole file there is nothing to ask for.
LEMMA NothingBeside ==
    ASSUME NEW got, NEW running, Segment(0, Size) \in running, NEW wanted, NEW b \in Nat \ {0}
    PROVE  GetNextSegment(got, running, Size, b, wanted, segmented) = Segment(0, 0)
<1>1. Size \in Nat \ {0} /\ Size # -1
    BY ConstAssumption
<1>2. CASE ~segmented
    BY <1>1, <1>2 DEF GetNextSegment, NextSequential
<1>3. CASE segmented
    <2> DEFINE next == NextSegmented(got, running, Size, b, wanted)
    <2>1. \/ next = Segment(0, 0)
          \/ next \in Ranges(Size) /\ ~Overlaps(next, Segment(0, Size))
        BY <1>1, NextSegmentedIsFree
    <2> HIDE DEF next
    <2>2. ASSUME next \in Ranges(Size) PROVE Overlaps(next, Segment(0, Size))
        <3>1. next.start \in Nat /\ next.start < End(next) /\ End(next) <= Size /\ End(next) \in Nat
            BY <1>1, <2>2, RangeFields
        <3>2. Segment(0, Size).start = 0 /\ End(Segment(0, Size)) = Size
            BY <1>1 DEF Segment, End
        <3> QED
            BY <1>1, <3>1, <3>2 DEF Overlaps
    <2> QED
        BY <1>1, <1>3, <2>1, <2>2 DEF GetNextSegment, next
<1> QED
    BY <1>2, <1>3

\* The item is offered beside a running download only if a tree is there and no
\* tree download is among the running ones.
LEMMA OfferedBeside ==
    ASSUME TreeInv, NEW u, NEW chunk, Offered(u, chunk), listed # {}
    PROVE  tree # 0 /\ \A v \in listed : IsFile(v)
<1>1. PICK v \in listed : transfer[v].type # "tree"
    BY DEF Offered
<1>2. \A w \in listed : IsFile(w)
    BY <1>1 DEF TreeInv, ListedInv, TreeAlone, IsFile
<1>3. ASSUME tree = 0 PROVE FALSE
    <2>1. Segment(0, Size) \in RunningSegments
        BY <1>2, <1>3 DEF TreeInv, NoTreeInv, DisjointInv, TransferInv, RunningSegments
    <2>2. BlockSize = Size /\ Size \in Nat \ {0}
        BY <1>3, ConstAssumption DEF BlockSize
    <2>3. GetNextSegment(done, RunningSegments, Size, BlockSize, chunk, segmented) = Segment(0, 0)
        BY <2>1, <2>2, NothingBeside
    <2>4. Segment(0, 0).size = 0
        BY DEF Segment
    <2> QED
        BY <2>3, <2>4 DEF Offered
<1> QED
    BY <1>2, <1>3

\* What a Download is made of.
LEMMA FileDownloadIs ==
    ASSUME NEW d, NEW b, NEW s, d = FileDownload(b, s)
    PROVE  /\ d.type = "file" /\ d.segment = s /\ d.block = b /\ d.open = FALSE
           /\ d.inPlace = inPlace
BY DEF FileDownload

\* getDownload's new Download has a type, is a tree only without one, has no file
\* open and will write where the item says.
LEMMA NewDownloadType ==
    ASSUME NEW u, NEW chunk, NEW got
    PROVE  LET new == NewDownload(u, chunk, got)
           IN  /\ new.type = "file" \/ (new = TreeDownload /\ new.type = "tree" /\ tree = 0)
               /\ new.open = FALSE /\ (new.type = "file" => new.inPlace = inPlace)
<1> DEFINE new == NewDownload(u, chunk, got)
<1>1. (\E b, s : new = FileDownload(b, s)) \/ (new = TreeDownload /\ tree = 0)
    BY Zenon DEF NewDownload
<1>2. TreeDownload.type = "tree" /\ TreeDownload.open = FALSE
    BY DEF TreeDownload
<1> HIDE DEF new
<1>4. ASSUME NEW b, NEW s, new = FileDownload(b, s)
      PROVE  new.type = "file" /\ new.open = FALSE /\ new.inPlace = inPlace
    BY <1>4, FileDownloadIs
<1>3. /\ new.type = "file" \/ (new = TreeDownload /\ new.type = "tree" /\ tree = 0)
      /\ new.open = FALSE /\ (new.type = "file" => new.inPlace = inPlace)
    BY <1>1, <1>2, <1>4
<1> QED
    BY <1>3 DEF new

\* Handing out a segment, or the tree, keeps the tree alone with its user.
LEMMA GetDownloadKeepsTree ==
    ASSUME TreeInv, NEW u \in Users, GetDownload(u)
    PROVE  TreeInv'
<1>0. DisjointInv'
    BY GetDownloadKeepsInv DEF TreeInv
<1>1. PICK chunk \in ChunkSizes :
          /\ Offered(u, chunk) /\ done' = ResumeFrom(done)
          /\ transfer' = [transfer EXCEPT ![u] = NewDownload(u, chunk, done')]
    BY DEF GetDownload
<1> DEFINE new == NewDownload(u, chunk, done')
<1>2. /\ listed' = listed \cup {u}
      /\ tree' = tree /\ queued' = queued /\ saved' = saved /\ recheck' = recheck
      /\ \A v \in Users : transfer'[v] = IF v = u THEN new ELSE transfer[v]
      /\ listed \subseteq Users
    BY <1>1 DEF GetDownload, TreeInv, DisjointInv, TransferInv
<1>3. queued /\ u \in sources
    BY <1>1 DEF Offered
<1>4. new.type = "file" \/ (new = TreeDownload /\ new.type = "tree" /\ tree = 0)
    BY NewDownloadType
<1>5. listed # {} => tree # 0 /\ \A v \in listed : IsFile(v)
    BY <1>1, OfferedBeside
<1>6. ASSUME tree = 0
      PROVE  done' = {} /\ (new.type = "file" => new.segment = Segment(0, Size) /\ new.block = Size)
    <2>1. done' = {}
        BY <1>1, <1>3, <1>6 DEF ResumeFrom, TreeInv, NoTreeInv
    <2>2. RunningSegments = {}
        BY <1>5, <1>6 DEF RunningSegments
    <2>3. GetNextSegment(done', RunningSegments, Size, Size, 0, segmented) = Segment(0, Size)
        BY <2>1, <2>2, WholeFile
    <2>4. new = TreeDownload \/ new = FileDownload(Size, Segment(0, Size))
        BY <1>6, <2>3, Zenon DEF NewDownload
    <2>5. TreeDownload.type # "file"
        BY DEF TreeDownload
    <2> HIDE DEF new
    <2>6. ASSUME new = FileDownload(Size, Segment(0, Size))
          PROVE  new.segment = Segment(0, Size) /\ new.block = Size
        BY <2>6 DEF FileDownload
    <2> QED
        BY <2>1, <2>4, <2>5, <2>6
<1> HIDE DEF new
<1>7. ListedInv'
    BY <1>2, <1>3, <1>4 DEF TreeInv, ListedInv
<1>8. NoTreeInv'
    BY <1>2, <1>6 DEF TreeInv, NoTreeInv, IsFile
<1>9. TreeAlone'
    BY <1>2, <1>4, <1>5 DEF TreeInv, TreeAlone, IsFile
<1> QED
    BY <1>0, <1>7, <1>8, <1>9 DEF TreeInv

\* The Download of one user goes away.
LEMMA DropKeepsTree ==
    ASSUME TreeInv, DisjointInv', NEW u \in Users, Drop(u), tree' = tree \/ tree' # 0,
           recheck' = recheck, queued' = queued, saved' = saved,
           tree = 0 /\ queued => done' = {}
    PROVE  TreeInv'
<1>1. /\ listed' = listed \ {u} /\ listed \subseteq Users
      /\ \A v \in Users : transfer'[v] = IF v = u THEN NoTransfer ELSE transfer[v]
    BY DEF TreeInv, DisjointInv, TransferInv, Drop
<1>2. NoTransfer.type = "none"
    BY DEF NoTransfer
<1>3. ListedInv'
    BY <1>1 DEF TreeInv, ListedInv
<1>4. NoTreeInv'
    BY <1>1, <1>2 DEF TreeInv, NoTreeInv, IsFile
<1>5. TreeAlone'
    BY <1>1 DEF TreeInv, TreeAlone
<1> QED
    BY <1>3, <1>4, <1>5 DEF TreeInv

\* A whole file that fails leaves nothing recorded.
LEMMA NothingKeptOfWhole ==
    ASSUME NEW pos \in 0 .. Size
    PROVE  (IF pos > 0 /\ pos = Size THEN 0 ELSE KeptPart(pos, Size)) = 0
<1>1. Size \in Nat \ {0}
    BY ConstAssumption
<1>2. ASSUME pos < Size PROVE pos % Size = pos
    BY <1>1, <1>2
<1> QED
    BY <1>1, <1>2 DEF KeptPart

\* A whole file that is finished is all that is recorded.
LEMMA WholeIsFinished == AddSegment({}, Segment(0, Size)) = {Segment(0, Size)}
<1>1. Segment(0, Size) \in Ranges(Size) /\ Size \in Nat
    BY ConstAssumption DEF Ranges, Segment, End
<1>2. Apart({Segment(0, Size)}) /\ {} \cup {Segment(0, Size)} = {Segment(0, Size)}
    BY DEF Apart
<1> QED
    BY <1>1, <1>2, ConsolidateApart DEF AddSegment

\* Every step except a rebuild of the tree keeps the tree layer.
LEMMA NextTree ==
    ASSUME "rebuild" \notin Operations, TreeInv, [Next]_vars
    PROVE  TreeInv'
<1>0. DisjointInv'
    BY NextInv DEF TreeInv
<1>1. CASE UNCHANGED vars
    BY <1>0, <1>1 DEF vars, TreeInv, ListedInv, NoTreeInv, TreeAlone, IsFile
<1>2. ASSUME NEW u \in Users, GetDownload(u)
      PROVE  TreeInv'
    BY <1>2, GetDownloadKeepsTree
<1>3. ASSUME NEW u \in Users, Open(u)
      PROVE  TreeInv'
    <2>1. /\ listed' = listed /\ tree' = tree /\ queued' = queued /\ done' = done
          /\ saved' = saved /\ recheck' = recheck /\ listed \subseteq Users
          /\ transfer[u].type = "file"
          /\ \A v \in Users : transfer'[v] = IF v = u THEN Opened(transfer[u]) ELSE transfer[v]
        BY <1>3 DEF Open, TreeInv, DisjointInv, TransferInv
    <2>2. /\ Opened(transfer[u]).type = "file"
          /\ Opened(transfer[u]).segment = transfer[u].segment
          /\ Opened(transfer[u]).block = transfer[u].block
        BY DEF Opened
    <2> QED
        BY <1>0, <2>1, <2>2 DEF TreeInv, ListedInv, NoTreeInv, TreeAlone, IsFile
<1>4. ASSUME NEW u \in Users, OpenFails(u) \/ FinishTree(u) \/ FailTree(u) \/ FileNotAvailable(u)
      PROVE  TreeInv'
    <2>1. /\ Drop(u) /\ (tree' = tree \/ tree' # 0)
          /\ recheck' = recheck /\ queued' = queued /\ saved' = saved /\ done' = done
        BY <1>4, ConstAssumption DEF OpenFails, FinishTree, FailTree, FileNotAvailable
    <2> QED
        BY <1>0, <2>1, DropKeepsTree DEF TreeInv, NoTreeInv
<1>5. ASSUME NEW u \in Users, FailFile(u)
      PROVE  TreeInv'
    <2>1. /\ Drop(u) /\ tree' = tree /\ transfer[u].type = "file"
          /\ recheck' = recheck /\ queued' = queued /\ saved' = saved
        BY <1>5 DEF FailFile
    <2>2. ASSUME tree = 0, queued PROVE done' = {}
        <3>1. /\ done = {} /\ transfer[u].segment = Segment(0, Size) /\ transfer[u].block = Size
            BY <2>1, <2>2 DEF TreeInv, NoTreeInv, IsFile
        <3>2. Segment(0, Size).size = Size
            BY DEF Segment
        <3>3. PICK pos \in IF transfer[u].open THEN 0 .. transfer[u].segment.size ELSE {0} :
                 LET kept == IF pos > 0 /\ pos = transfer[u].segment.size THEN 0
                             ELSE KeptPart(pos, transfer[u].block)
                 IN  done' = IF queued /\ kept > 0
                             THEN AddSegment(done, Segment(transfer[u].segment.start, kept))
                             ELSE done
            BY <1>5 DEF FailFile
        <3>4. pos \in 0 .. Size
            BY <3>1, <3>2, <3>3, ConstAssumption
        <3>5. (IF pos > 0 /\ pos = Size THEN 0 ELSE KeptPart(pos, Size)) = 0
            BY <3>4, NothingKeptOfWhole
        <3> QED
            BY <3>1, <3>2, <3>3, <3>5
    <2> QED
        BY <1>0, <2>1, <2>2, DropKeepsTree
<1>6. ASSUME NEW u \in Users, FinishFile(u)
      PROVE  TreeInv'
    <2>1. /\ transfer[u].type = "file"
          /\ tree' = tree /\ recheck' = recheck /\ saved' = saved /\ listed \subseteq Users
          /\ \A v \in Users : transfer'[v] = IF v = u THEN NoTransfer ELSE transfer[v]
        BY <1>6 DEF FinishFile, TreeInv, DisjointInv, TransferInv
    <2>2. NoTransfer.type = "none"
        BY DEF NoTransfer
    <2>3. CASE ~queued
        <3>1. queued' = queued /\ listed' = listed \ {u} /\ done' = done
            BY <1>6, <2>3 DEF FinishFile
        <3> QED
            BY <1>0, <2>1, <2>2, <2>3, <3>1 DEF TreeInv, ListedInv, NoTreeInv, TreeAlone, IsFile
    <2>4. CASE queued
        <3>1. /\ done' = AddSegment(done, transfer[u].segment)
              /\ queued' = ~IsFinished(done', Size)
              /\ listed' = IF queued' THEN listed \ {u} ELSE {}
            BY <1>6, <2>4 DEF FinishFile, IsFinished
        <3>2. ASSUME tree = 0 PROVE ~queued'
            BY <2>1, <2>4, <3>1, <3>2, WholeIsFinished DEF TreeInv, NoTreeInv, IsFile, IsFinished
        <3>3. ListedInv'
            BY <2>1, <3>1 DEF TreeInv, ListedInv
        <3>4. NoTreeInv'
            BY <2>1, <2>2, <3>2 DEF TreeInv, NoTreeInv, IsFile
        <3>5. TreeAlone'
            BY <2>1, <3>1 DEF TreeInv, TreeAlone
        <3> QED
            BY <1>0, <3>3, <3>4, <3>5 DEF TreeInv
    <2> QED
        BY <2>3, <2>4
<1>7. CASE (\E u \in Users : ReaddSource(u) \/ AbandonSource(u)) \/ SaveQueue \/ LoseTempFile
    <2>1. /\ transfer' = transfer /\ listed' \subseteq listed /\ tree' = tree
          /\ queued' = queued /\ done' = done /\ recheck' = recheck
          /\ saved' = saved \/ saved'.segments = IF queued THEN done ELSE {}
          /\ listed \subseteq Users
        BY <1>7 DEF ReaddSource, AbandonSource, SaveQueue, LoseTempFile, TreeInv, DisjointInv,
                    TransferInv
    <2> QED
        BY <1>0, <2>1 DEF TreeInv, ListedInv, NoTreeInv, TreeAlone, IsFile
<1>8. CASE Restart
    <2>1. /\ listed' = {} /\ tree' = tree /\ queued' = TRUE /\ saved' = saved
          /\ recheck' = Idle /\ done' = Loaded(saved.segments)
          /\ \A v \in Users : transfer'[v] = NoTransfer
        BY <1>8 DEF Restart
    <2>2. NoTransfer.type = "none" /\ Idle.step = "idle"
        BY DEF NoTransfer, Idle
    <2>3. saved.segments = {} => done' = {}
        BY <2>1, Zenon DEF Loaded, Consolidate, LastOnes
    <2> QED
        BY <1>0, <2>1, <2>2, <2>3 DEF TreeInv, ListedInv, NoTreeInv, TreeAlone, IsFile
<1>9. CASE Rebuild \/ Recheck
    <2>1. CASE Rebuild
        BY <2>1 DEF Rebuild
    <2>2. CASE RecheckStart
        <3>1. recheck'.step = "checked" \/ recheck'.step = recheck.step
            BY <2>2 DEF RecheckStart
        <3> QED
            BY <1>0, <2>2, <3>1 DEF RecheckStart, TreeInv, ListedInv, NoTreeInv, TreeAlone, IsFile
    <2>3. CASE RecheckReset
        <3>1. /\ transfer' = transfer /\ listed' = listed /\ queued' = queued /\ tree' = tree
              /\ saved' = saved
            BY <2>3 DEF RecheckReset
        <3>2. ASSUME tree = 0 PROVE done' = done /\ recheck'.step = "idle"
            BY <2>3, <3>2 DEF RecheckReset, Idle
        <3> QED
            BY <1>0, <3>1, <3>2 DEF TreeInv, ListedInv, NoTreeInv, TreeAlone, IsFile
    <2>4. CASE RecheckRead \/ RecheckDone
        <3>1. /\ recheck.step \in {"reset", "read"} /\ tree' = tree /\ transfer' = transfer
              /\ saved' = saved
              /\ (listed' = listed /\ queued' = queued) \/ listed' = {}
            BY <2>4 DEF RecheckRead, RecheckDone
        <3> QED
            BY <1>0, <3>1 DEF TreeInv, ListedInv, NoTreeInv, TreeAlone
    <2> QED
        BY <1>9, <2>1, <2>2, <2>3, <2>4 DEF Recheck
<1> QED
    BY <1>1, <1>2, <1>3, <1>4, <1>5, <1>6, <1>7, <1>8, <1>9 DEF Next

\* The tree layer holds initially: no transfer, no tree.
LEMMA InitTree == ASSUME Init PROVE TreeInv
<1>1. NoTransfer.type = "none" /\ Idle.step = "idle"
    BY DEF NoTransfer, Idle
<1>2. DisjointInv
    BY InitInv
<1> QED
    BY <1>1, <1>2 DEF Init, TreeInv, ListedInv, NoTreeInv, TreeAlone, IsFile

\* The tree layer holds in every reachable state without rebuilds.
LEMMA TreeInvHolds ==
    ASSUME "rebuild" \notin Operations
    PROVE  Spec => []TreeInv
<1>1. Init => TreeInv
    BY InitTree
<1>2. TreeInv /\ [Next]_vars => TreeInv'
    BY NextTree
<1> QED
    BY <1>1, <1>2, PTL DEF Spec

\* Unless the hash index is rebuilt the tree of a file is fetched by one source
\* while no other downloads anything of it, whatever sources are removed, files
\* lost or rechecked and however often the client dies (UserQueue::getNext, the
\* Download constructor).
THEOREM TreeAloneTheorem ==
    ASSUME "rebuild" \notin Operations
    PROVE  Spec => []TreeAlone
<1>1. TreeInv => TreeAlone
    BY DEF TreeInv
<1> QED
    BY <1>1, TreeInvHolds, PTL

-----------------------------------------------------------------------------
(* While the client only dies and loses temporary files, what is recorded, *)
(* on file and asked for consists of whole blocks of the tree: this is what *)
(* makes getNextSegment return nothing that is done already (a candidate   *)
(* of one block may overlap a done range that does not cover it) and what  *)
(* makes it return anything at all for an item that is not finished.       *)

Tidy(S) == /\ S \in SUBSET Ranges(Size) /\ Apart(S)
           /\ \A s \in S : Aligned(s, TreeBlock, Size)

\* A file Download: blocks of the tree, or the whole file without a tree.
AsksFor(t) ==
    /\ t.segment \in Ranges(Size) /\ Aligned(t.segment, TreeBlock, Size)
    /\ t.block = TreeBlock \/ (t.block = Size /\ t.segment = Segment(0, Size))

DoneInv ==
    /\ Tidy(done) /\ (queued => ~IsFinished(done, Size))
    /\ Tidy(saved.segments) /\ ~IsFinished(saved.segments, Size)
    /\ recheck = Idle

FetchInv ==
    \A u \in Users : IsFile(u) =>
        /\ queued /\ u \in listed /\ AsksFor(transfer[u])
        /\ \A s \in done : ~Overlaps(transfer[u].segment, s)

RangeInv == TreeInv /\ DoneInv /\ FetchInv

\* An empty set is tidy.
LEMMA NothingIsTidy == Tidy({}) /\ ~IsFinished({}, Size)
BY DEF Tidy, Apart, IsFinished

\* getDownload forgets what was recorded in a temporary file that is gone.
LEMMA ResumeTidy ==
    ASSUME Tidy(done), ~IsFinished(done, Size)
    PROVE  Tidy(ResumeFrom(done)) /\ ~IsFinished(ResumeFrom(done), Size)
BY NothingIsTidy DEF ResumeFrom

\* What NextSegmented finds is made of whole blocks.
LEMMA FoundIsAligned ==
    ASSUME NEW n \in Nat \ {0}, NEW b \in Nat \ {0}, NEW next, NEW got, NEW running,
           Found(next, got, running, n, b)
    PROVE  next \in Ranges(n) /\ Aligned(next, b, n)
<1>1. PICK k \in Nat, j \in Nat \ {0} : k * b < n /\ next = Block(k * b, j * b, n)
    BY DEF Found
<1> QED
    BY <1>1, BlockRange

\* If there is something to ask for, there still is when nothing is done.
LEMMA FoundWithLess ==
    ASSUME NEW n \in Nat \ {0}, NEW b \in Nat \ {0}, NEW wanted \in Nat, NEW got, NEW running,
           \A d \in running : d \in Ranges(n), NEW next, Found(next, got, running, n, b)
    PROVE  Found(NextSegmented({}, running, n, b, wanted), {}, running, n, b)
<1>1. PICK k \in Nat, j \in Nat \ {0} :
         /\ k * b < n
         /\ next = Block(k * b, j * b, n) /\ IsFree(next, j * b, got, running, b)
    BY DEF Found
<1> DEFINE one == Block(k * b, b, n)
<1>2. k * b \in Nat /\ j * b \in Nat /\ b <= j * b
    <2>1. 1 * b \in 0 .. (j * b)
        BY BlocksMonotone
    <2> QED
        BY <2>1
<1>3. /\ one \in Ranges(n) /\ one.start = k * b
      /\ End(one) = IF n <= k * b + b THEN n ELSE k * b + b
    BY <1>1, <1>2, Clipped
<1>4. j * b \in Nat \ {0}
    BY <1>2
<1>5. /\ next \in Ranges(n) /\ next.start = k * b
      /\ End(next) = IF n <= k * b + j * b THEN n ELSE k * b + j * b
    BY <1>1, <1>2, <1>4, Clipped
<1> HIDE DEF one
<1>6. End(one) <= End(next) /\ next.start <= one.start
    BY <1>2, <1>3, <1>5
<1>7. ASSUME NEW d \in running PROVE ~Overlaps(one, d)
    <2>1. d \in Ranges(n) /\ d.start \in Int /\ End(d) \in Int
        BY RangeFields
    <2>2. ~Overlaps(next, d)
        BY <1>1 DEF IsFree
    <2> QED
        BY <1>3, <1>5, <1>6, <2>1, <2>2, PartOverlaps
<1>8. IsFree(one, b, {}, running, b)
    BY <1>7 DEF IsFree
<1>9. b <= TargetSize({}, n, b, wanted)
    <2>1. {} \in SUBSET Ranges(n)
        OBVIOUS
    <2> QED
        BY <2>1, TargetIsABlock
<1> QED
    BY <1>1, <1>8, <1>9, NextSegmentedFinds DEF one

\* What getDownload asks for, if a tree is there: whole blocks not done yet.
LEMMA AskedIsMissing ==
    ASSUME RangeInv, NEW u, NEW chunk \in Nat, Offered(u, chunk), tree # 0,
           NEW got, got = ResumeFrom(done)
    PROVE  LET next == GetNextSegment(got, RunningSegments, Size, tree, chunk, segmented)
           IN  /\ next \in Ranges(Size) /\ Aligned(next, TreeBlock, Size)
               /\ \A s \in got : ~Overlaps(next, s)
<1> DEFINE asked == GetNextSegment(got, RunningSegments, Size, tree, chunk, segmented)
<1>1. Size \in Nat \ {0} /\ TreeBlock \in Nat \ {0} /\ tree = TreeBlock /\ Size # -1
    BY ConstAssumption DEF RangeInv, TreeInv, DisjointInv, TransferInv
<1>2. queued /\ Tidy(got) /\ ~IsFinished(got, Size)
    BY ResumeTidy DEF RangeInv, DoneInv, Offered
<1>3. /\ got \in SUBSET Ranges(Size) /\ Apart(got)
      /\ \A s \in got : Aligned(s, TreeBlock, Size)
    BY <1>2 DEF Tidy
<1>4. CASE segmented
    <2> DEFINE next == NextSegmented(got, RunningSegments, Size, TreeBlock, chunk)
    <2>1. asked = next
        BY <1>1, <1>4 DEF GetNextSegment
    <2>2. Found(next, got, RunningSegments, Size, TreeBlock)
        <3>1. CASE listed = {}
            <4>1. RunningSegments = {}
                BY <3>1 DEF RunningSegments
            <4>2. PICK k \in Nat :
                     /\ k * TreeBlock < Size
                     /\ \A s \in got : ~(/\ s.start <= k * TreeBlock
                                         /\ End(s) >= End(Block(k * TreeBlock, TreeBlock, Size)))
                BY <1>1, <1>2, <1>3, SomeBlockMissing
            <4>3. Block(k * TreeBlock, TreeBlock, Size).start = k * TreeBlock
                BY DEF Block, Segment
            <4>4. IsFree(Block(k * TreeBlock, TreeBlock, Size), TreeBlock, got, RunningSegments, TreeBlock)
                BY <1>1, <4>1, <4>2, <4>3 DEF IsFree
            <4>5. TreeBlock <= TargetSize(got, Size, TreeBlock, chunk)
                BY <1>1, <1>3, TargetIsABlock
            <4> QED
                BY <1>1, <4>2, <4>4, <4>5, NextSegmentedFinds
        <3>2. CASE listed # {}
            <4> DEFINE before == NextSegmented(done, RunningSegments, Size, TreeBlock, chunk)
            <4>1. GetNextSegment(done, RunningSegments, Size, BlockSize, chunk, segmented) = before
                BY <1>1, <1>4 DEF GetNextSegment, BlockSize
            <4>2. before.size # 0
                BY <3>2, <4>1 DEF Offered
            <4>3. before # Segment(0, 0)
                BY <4>2 DEF Segment
            <4>4. Found(before, done, RunningSegments, Size, TreeBlock)
                BY <1>1, <4>3, NextSegmentedFinds
            <4>5. \A d \in RunningSegments : d \in Ranges(Size)
                <5>1. \A v \in listed : IsFile(v) /\ v \in Users
                    BY <3>2, OfferedBeside DEF RangeInv, TreeInv, DisjointInv, TransferInv
                <5> QED
                    BY <5>1 DEF RunningSegments, RangeInv, FetchInv, AsksFor
            <4>6. CASE got = done
                BY <4>4, <4>6
            <4>7. CASE got = {}
                BY <1>1, <4>4, <4>5, <4>7, FoundWithLess
            <4> QED
                BY <4>6, <4>7 DEF ResumeFrom
        <3> QED
            BY <3>1, <3>2
    <2> HIDE DEF next
    <2>3. next \in Ranges(Size) /\ Aligned(next, TreeBlock, Size)
        BY <1>1, <2>2, FoundIsAligned
    <2>4. \A s \in got : ~Overlaps(next, s)
        BY <1>1, <1>3, <2>2, FoundIsNotDone
    <2> QED
        BY <2>1, <2>3, <2>4
<1>5. CASE ~segmented
    <2>1. RunningSegments = {}
        <3> SUFFICES ASSUME RunningSegments # {} PROVE FALSE
            OBVIOUS
        <3>1. listed # {}
            BY DEF RunningSegments
        <3>2. GetNextSegment(done, RunningSegments, Size, BlockSize, chunk, segmented) = Segment(0, 0)
            BY <1>1, <1>5 DEF GetNextSegment, NextSequential, BlockSize
        <3>3. Segment(0, 0).size = 0
            BY DEF Segment
        <3> QED
            BY <3>1, <3>2, <3>3 DEF Offered
    <2>2. asked = NextSequential(got, {}, Size, TreeBlock)
        BY <1>1, <1>5, <2>1 DEF GetNextSegment
    <2> QED
        BY <1>1, <1>2, <1>3, <2>2, NextSequentialFits
<1> QED
    BY <1>4, <1>5

\* The whole blocks among the first p bytes.
LEMMA WholeBlocks ==
    ASSUME NEW p \in Nat, NEW b \in Nat \ {0}
    PROVE  p - (p % b) = (p \div b) * b /\ p - (p % b) \in 0 .. p /\ p \div b \in Nat
OBVIOUS

\* A failed transfer records nothing, or some whole blocks short of its last byte
\* which are right in the file it wrote to; it touches no byte it did not ask for.
LEMMA FailFileRecords ==
    ASSUME RangeInv, NEW u \in Users, FailFile(u)
    PROVE  LET seg == transfer[u].segment
           IN  /\ \/ done' = done
                  \/ \E part \in Ranges(Size) :
                        /\ Aligned(part, TreeBlock, Size) /\ part.start = seg.start
                        /\ End(part) < End(seg) /\ done' = AddSegment(done, part)
                        /\ transfer[u].open
                        /\ transfer[u].inPlace \/ SegmentBytes(part) \subseteq data'
               /\ data' \subseteq data \cup SegmentBytes(seg)
               /\ \A x \in data : x \notin SegmentBytes(seg) => x \in data'
               /\ ~transfer[u].open => data' = data
               /\ target' \subseteq target \cup SegmentBytes(seg)
               /\ transfer[u].inPlace \/ target' = target
               /\ temp' = temp
<1> DEFINE seg == transfer[u].segment
           block == transfer[u].block
           flush(pos) == pos > 0 /\ pos = seg.size
           whole(pos) == IF flush(pos) THEN VerifiedPart(pos - 1, block) ELSE VerifiedPart(pos, block)
           kept(pos) == IF flush(pos) THEN 0 ELSE KeptPart(pos, block)
           tail(pos) == SegmentBytes(Segment(seg.start + whole(pos), pos - whole(pos)))
           first(pos) == SegmentBytes(Segment(seg.start, whole(pos)))
<1>1. IsFile(u) /\ AsksFor(transfer[u]) /\ queued
    BY DEF FailFile, RangeInv, FetchInv, IsFile
<1>2. PICK pos \in IF transfer[u].open THEN 0 .. seg.size ELSE {0}, right \in BOOLEAN :
         /\ done' = IF queued /\ kept(pos) > 0 THEN AddSegment(done, Segment(seg.start, kept(pos)))
                    ELSE done
         /\ Written(u, tail(pos), first(pos) \cup (IF right THEN tail(pos) ELSE {}))
    BY DEF FailFile
<1>w. /\ temp' = temp
      /\ IF transfer[u].inPlace
         THEN /\ data' = data
              /\ target' = (target \ tail(pos)) \cup (first(pos) \cup (IF right THEN tail(pos) ELSE {}))
         ELSE /\ target' = target
              /\ data' = (data \ tail(pos)) \cup (first(pos) \cup (IF right THEN tail(pos) ELSE {}))
    <2> HIDE DEF tail, first
    <2> QED
        BY <1>1, <1>2 DEF Written
<1>3. Size \in Nat \ {0} /\ TreeBlock \in Nat \ {0}
    BY ConstAssumption
<1>4. /\ seg \in Ranges(Size) /\ Aligned(seg, TreeBlock, Size)
      /\ block = TreeBlock \/ (block = Size /\ seg = Segment(0, Size))
    BY <1>1 DEF AsksFor
<1>5. block \in Nat \ {0}
    BY <1>3, <1>4
<1>6. seg.start \in Nat /\ seg.size \in Nat /\ End(seg) = seg.start + seg.size /\ End(seg) <= Size
    BY <1>3, <1>4, RangeFields
<1>7. pos \in 0 .. seg.size /\ (~transfer[u].open => pos = 0)
    BY <1>2, <1>6
<1> HIDE DEF seg, block
<1>8. whole(pos) \in 0 .. pos
    <2> DEFINE p == IF flush(pos) THEN pos - 1 ELSE pos
    <2>1. p \in Nat /\ p <= pos
        BY <1>6, <1>7
    <2>2. whole(pos) = p - (p % block)
        BY DEF VerifiedPart
    <2> HIDE DEF p, whole
    <2>3. p - (p % block) \in 0 .. p
        BY <1>5, <2>1, WholeBlocks
    <2> QED
        BY <1>6, <1>7, <2>1, <2>2, <2>3
<1>9. kept(pos) > 0 => kept(pos) = whole(pos)
    BY DEF KeptPart, VerifiedPart
<1>10. kept(pos) > 0 => /\ pos < seg.size /\ block = TreeBlock
                        /\ kept(pos) = (pos \div TreeBlock) * TreeBlock /\ pos \div TreeBlock \in Nat
    <2> SUFFICES ASSUME kept(pos) > 0
                 PROVE  /\ pos < seg.size /\ block = TreeBlock
                        /\ kept(pos) = (pos \div TreeBlock) * TreeBlock /\ pos \div TreeBlock \in Nat
        OBVIOUS
    <2>1. ~flush(pos) /\ kept(pos) = KeptPart(pos, block)
        OBVIOUS
    <2>2. pos \in Nat /\ KeptPart(pos, block) \in 0 .. pos
        BY <1>5, <1>7, WholeBlocks DEF KeptPart
    <2>3. pos > 0 /\ pos < seg.size
        BY <1>6, <1>7, <2>1, <2>2
    <2>4. block = TreeBlock
        <3> SUFFICES ASSUME block = Size, seg = Segment(0, Size) PROVE FALSE
            BY <1>4
        <3>1. seg.size = Size
            BY DEF Segment
        <3>2. pos \in 0 .. Size /\ kept(pos) = IF pos > 0 /\ pos = Size THEN 0 ELSE KeptPart(pos, Size)
            BY <1>7, <3>1
        <3>3. kept(pos) = 0
            BY <3>2, NothingKeptOfWhole
        <3> QED
            BY <3>3
    <2> QED
        BY <1>3, <2>1, <2>2, <2>3, <2>4, WholeBlocks DEF KeptPart
<1> HIDE DEF whole, kept
<1>11. /\ Segment(seg.start, whole(pos)).start = seg.start
       /\ End(Segment(seg.start, whole(pos))) = seg.start + whole(pos)
       /\ Segment(seg.start + whole(pos), pos - whole(pos)).start = seg.start + whole(pos)
       /\ End(Segment(seg.start + whole(pos), pos - whole(pos))) = seg.start + pos
    BY <1>6, <1>7, <1>8 DEF Segment, End
<1>12. tail(pos) \subseteq SegmentBytes(seg) /\ first(pos) \subseteq SegmentBytes(seg)
    BY <1>6, <1>7, <1>8, <1>11 DEF SegmentBytes
<1>13. ~transfer[u].open => tail(pos) = {} /\ first(pos) = {}
    BY <1>6, <1>7, <1>8, <1>11 DEF SegmentBytes
<1>14. ASSUME kept(pos) > 0
       PROVE  \E part \in Ranges(Size) :
                 /\ Aligned(part, TreeBlock, Size) /\ part.start = seg.start
                 /\ End(part) < End(seg) /\ done' = AddSegment(done, part)
                 /\ transfer[u].open
                 /\ transfer[u].inPlace \/ SegmentBytes(part) \subseteq data'
    <2> DEFINE part == Segment(seg.start, kept(pos))
    <2>1. part.start = seg.start /\ End(part) = seg.start + kept(pos) /\ part.size = kept(pos)
        BY DEF Segment, End
    <2>2. kept(pos) \in Nat /\ kept(pos) <= pos /\ pos < seg.size
        BY <1>7, <1>8, <1>9, <1>10, <1>14
    <2>3. part \in Ranges(Size) /\ End(part) < End(seg)
        BY <1>3, <1>6, <1>7, <1>14, <2>1, <2>2 DEF Ranges, Segment
    <2>4. Aligned(part, TreeBlock, Size)
        <3>1. PICK k \in Nat : seg.start = k * TreeBlock
            BY <1>4 DEF Aligned, IsStart
        <3> DEFINE q == pos \div TreeBlock
        <3>2. q \in Nat /\ kept(pos) = q * TreeBlock
            BY <1>10, <1>14
        <3> HIDE DEF q
        <3>3. End(part) = (k + q) * TreeBlock /\ k + q \in Nat
            BY <1>3, <2>1, <3>1, <3>2
        <3> QED
            BY <2>1, <3>1, <3>3 DEF Aligned, IsStart, IsEdge
    <2>5. transfer[u].open
        BY <1>7, <1>14, <2>2
    <2>6. transfer[u].inPlace \/ SegmentBytes(part) \subseteq data'
        BY <1>w, <1>9, <1>14
    <2>7. done' = AddSegment(done, part)
        BY <1>1, <1>2, <1>14
    <2> QED
        BY <2>1, <2>3, <2>4, <2>5, <2>6, <2>7
<1>15. done' = done \/ kept(pos) > 0
    BY <1>2
<1>16. /\ data' \subseteq data \cup SegmentBytes(seg)
       /\ \A x \in data : x \notin SegmentBytes(seg) => x \in data'
       /\ ~transfer[u].open => data' = data
       /\ target' \subseteq target \cup SegmentBytes(seg)
       /\ transfer[u].inPlace \/ target' = target
    BY <1>w, <1>12, <1>13
<1> QED
    BY <1>w, <1>14, <1>15, <1>16 DEF seg

\* Recording what a download fetched, or a part of it, takes nothing away and
\* does not reach into what another one is fetching.
LEMMA RecordsApart ==
    ASSUME RangeInv, NEW u \in Users, IsFile(u),
           NEW part \in Ranges(Size), Aligned(part, TreeBlock, Size),
           transfer[u].segment.start <= part.start, End(part) <= End(transfer[u].segment)
    PROVE  LET got == AddSegment(done, part)
           IN  /\ Tidy(got) /\ Bytes(got) = Bytes(done) \cup SegmentBytes(part)
               /\ \A v \in Users \ {u} : IsFile(v) =>
                     ~IsFinished(got, Size) /\ \A s \in got : ~Overlaps(transfer[v].segment, s)
               /\ End(part) < End(transfer[u].segment) => ~IsFinished(got, Size)
<1> DEFINE got == AddSegment(done, part)
           seg == transfer[u].segment
<1>1. Size \in Nat /\ TreeBlock \in Nat \ {0}
    BY ConstAssumption
<1>2. /\ done \in SUBSET Ranges(Size) /\ Apart(done)
      /\ \A s \in done : Aligned(s, TreeBlock, Size)
    BY DEF RangeInv, DoneInv, Tidy
<1>3. seg \in Ranges(Size) /\ \A s \in done : ~Overlaps(seg, s)
    BY DEF RangeInv, FetchInv, AsksFor
<1>4. \A s \in Ranges(Size) : s.start \in Int /\ End(s) \in Int
    BY <1>1, RangeFields
<1>5. \A d \in Ranges(Size) : ~Overlaps(seg, d) => ~Overlaps(part, d)
    BY <1>1, <1>3, <1>4, PartOverlaps
<1>6. \A s \in done : ~Overlaps(part, s)
    BY <1>2, <1>3, <1>5
<1>7. /\ got \in SUBSET Ranges(Size) /\ Apart(got) /\ \A s \in got : Aligned(s, TreeBlock, Size)
      /\ Bytes(got) = Bytes(done) \cup SegmentBytes(part)
      /\ \A r \in Ranges(Size) :
            (\A s \in done : ~Overlaps(r, s)) /\ ~Overlaps(r, part)
               => ~IsFinished(got, Size) /\ \A s \in got : ~Overlaps(r, s)
    BY <1>1, <1>2, <1>6, AddSegmentAdds
<1> HIDE DEF got
<1>8. ASSUME NEW v \in Users \ {u}, IsFile(v)
      PROVE  ~IsFinished(got, Size) /\ \A s \in got : ~Overlaps(transfer[v].segment, s)
    <2>1. /\ transfer[v].segment \in Ranges(Size)
          /\ \A s \in done : ~Overlaps(transfer[v].segment, s)
        BY <1>8 DEF RangeInv, FetchInv, AsksFor
    <2>2. u \in listed /\ v \in listed
        BY <1>8 DEF RangeInv, FetchInv
    <2>3. ~Overlaps(seg, transfer[v].segment)
        BY <1>8, <2>2 DEF RangeInv, TreeInv, DisjointInv, RangesInv, DisjointDownloads, Disjoint,
                          IsFile
    <2>4. ~Overlaps(part, transfer[v].segment)
        BY <1>5, <2>1, <2>3
    <2>5. ~Overlaps(transfer[v].segment, part)
        BY <2>4 DEF Overlaps
    <2> QED
        BY <1>7, <2>1, <2>5
<1>9. ASSUME End(part) < End(seg) PROVE ~IsFinished(got, Size)
    <2>1. /\ seg.start \in Nat /\ End(seg) \in Nat /\ End(seg) <= Size
          /\ part.start \in Nat /\ End(part) \in Nat /\ part.start < End(part)
        BY <1>1, <1>3, RangeFields
    <2> DEFINE left == Segment(End(part), End(seg) - End(part))
    <2>2. left.start = End(part) /\ End(left) = End(seg) /\ left \in Ranges(Size)
        BY <1>1, <1>9, <2>1 DEF Ranges, Segment, End
    <2> HIDE DEF left
    <2>3. seg.start <= left.start /\ End(left) <= End(seg)
        BY <2>1, <2>2
    <2>4. ASSUME NEW s \in done PROVE ~Overlaps(left, s)
        BY <1>1, <1>2, <1>3, <1>4, <2>2, <2>3, PartOverlaps
    <2>5. ~Overlaps(left, part)
        BY <2>1, <2>2 DEF Overlaps
    <2> QED
        BY <1>7, <2>2, <2>4, <2>5
<1> QED
    BY <1>7, <1>8, <1>9 DEF got, Tidy

\* The segment getDownload hands out keeps the range layer.
LEMMA GetDownloadKeepsRanges ==
    ASSUME RangeInv, NEW u \in Users, GetDownload(u)
    PROVE  RangeInv'
<1>0. TreeInv'
    BY GetDownloadKeepsTree DEF RangeInv
<1>1. PICK chunk \in ChunkSizes :
          /\ Offered(u, chunk) /\ done' = ResumeFrom(done)
          /\ transfer' = [transfer EXCEPT ![u] = NewDownload(u, chunk, done')]
    BY DEF GetDownload
<1> DEFINE new == NewDownload(u, chunk, done')
<1>2. /\ listed' = listed \cup {u}
      /\ tree' = tree /\ queued' = queued /\ saved' = saved /\ recheck' = recheck
      /\ \A v \in Users : transfer'[v] = IF v = u THEN new ELSE transfer[v]
      /\ queued /\ chunk \in Nat
    BY <1>1, ConstAssumption DEF GetDownload, RangeInv, TreeInv, DisjointInv, TransferInv, Offered
<1>3. Tidy(done') /\ ~IsFinished(done', Size) /\ done' \subseteq done
    BY <1>1, <1>2, ResumeTidy DEF RangeInv, DoneInv, ResumeFrom
<1>4. DoneInv'
    BY <1>2, <1>3 DEF RangeInv, DoneInv, Tidy
<1>5. ASSUME new.type = "file"
      PROVE  AsksFor(new) /\ \A s \in done' : ~Overlaps(new.segment, s)
    <2>1. CASE tree = 0
        <3>1. done' = {} /\ new.segment = Segment(0, Size) /\ new.block = Size
            BY <1>0, <1>2, <1>5, <2>1 DEF TreeInv, NoTreeInv, IsFile
        <3>2. Segment(0, Size) \in Ranges(Size)
            BY ConstAssumption DEF Segment, Ranges, End
        <3>3. 0 \in Nat /\ 0 = 0 * TreeBlock /\ End(Segment(0, Size)) = Size /\ Segment(0, Size).start = 0
            BY ConstAssumption DEF Segment, End
        <3> QED
            BY <3>1, <3>2, <3>3 DEF AsksFor, Aligned, IsStart, IsEdge
    <2>2. CASE tree # 0
        <3> DEFINE next == GetNextSegment(done', RunningSegments, Size, tree, chunk, segmented)
        <3>1. /\ next \in Ranges(Size) /\ Aligned(next, TreeBlock, Size)
              /\ \A s \in done' : ~Overlaps(next, s)
            BY <1>1, <1>2, <2>2, AskedIsMissing
        <3>2. new = FileDownload(tree, next)
            BY <2>2, Zenon DEF NewDownload
        <3>3. tree = TreeBlock
            BY <2>2 DEF RangeInv, TreeInv, DisjointInv, TransferInv
        <3> HIDE DEF next, new
        <3>4. new.segment = next /\ new.block = TreeBlock
            BY <3>2, <3>3 DEF FileDownload
        <3> QED
            BY <3>1, <3>4 DEF AsksFor
    <2> QED
        BY <2>1, <2>2
<1> HIDE DEF new
<1>6. FetchInv'
    BY <1>2, <1>3, <1>5 DEF RangeInv, FetchInv, IsFile, AsksFor
<1> QED
    BY <1>0, <1>4, <1>6 DEF RangeInv

\* The part of a failed segment that putDownload records lies in the file.
LEMMA FailFileKeepsRanges ==
    ASSUME RangeInv, TreeInv', NEW u \in Users, FailFile(u)
    PROVE  RangeInv'
<1> DEFINE seg == transfer[u].segment
<1>1. /\ listed' = listed \ {u} /\ queued' = queued /\ saved' = saved /\ recheck' = recheck
      /\ \A v \in Users : transfer'[v] = IF v = u THEN NoTransfer ELSE transfer[v]
      /\ IsFile(u)
    BY DEF FailFile, Drop, RangeInv, TreeInv, DisjointInv, TransferInv, IsFile
<1>2. NoTransfer.type = "none"
    BY DEF NoTransfer
<1>3. \/ done' = done
      \/ \E part \in Ranges(Size) :
            /\ Aligned(part, TreeBlock, Size) /\ part.start = seg.start
            /\ End(part) < End(seg) /\ done' = AddSegment(done, part)
    BY FailFileRecords
<1>4. CASE done' = done
    BY <1>1, <1>2, <1>4 DEF RangeInv, DoneInv, FetchInv, Tidy, AsksFor, IsFile
<1>5. ASSUME NEW part \in Ranges(Size),
             Aligned(part, TreeBlock, Size), part.start = seg.start,
             End(part) < End(seg), done' = AddSegment(done, part)
      PROVE  RangeInv'
    <2>1. seg \in Ranges(Size) /\ Size \in Nat
        BY <1>1, ConstAssumption DEF RangeInv, FetchInv, AsksFor
    <2>2. seg.start <= part.start /\ End(part) <= End(seg)
        BY <1>5, <2>1, RangeFields
    <2>3. /\ Tidy(done') /\ ~IsFinished(done', Size)
          /\ \A v \in Users \ {u} : IsFile(v) => \A s \in done' : ~Overlaps(transfer[v].segment, s)
        BY <1>1, <1>5, <2>2, RecordsApart
    <2>4. DoneInv'
        BY <1>1, <2>3 DEF RangeInv, DoneInv, Tidy
    <2>5. FetchInv'
        BY <1>1, <1>2, <2>3 DEF RangeInv, FetchInv, IsFile, AsksFor
    <2> QED
        BY <2>4, <2>5 DEF RangeInv
<1> QED
    BY <1>3, <1>4, <1>5

\* What a finished transfer does to an item; RangeInv says it is queued.
LEMMA FinishFileIs ==
    ASSUME RangeInv, NEW u \in Users, FinishFile(u)
    PROVE  LET seg == transfer[u].segment
           IN  /\ queued /\ IsFile(u) /\ Writing(u)
               /\ seg \in Ranges(Size) /\ Aligned(seg, TreeBlock, Size)
               /\ Tidy(done') /\ done' = AddSegment(done, seg)
               /\ Bytes(done') = Bytes(done) \cup SegmentBytes(seg)
               /\ queued' = ~IsFinished(done', Size)
               /\ listed' = IF queued' THEN listed \ {u} ELSE {}
               /\ \A v \in Users : transfer'[v] = IF v = u THEN NoTransfer ELSE transfer[v]
               /\ \A v \in Users \ {u} : IsFile(v) =>
                     queued' /\ \A s \in done' : ~Overlaps(transfer[v].segment, s)
<1> DEFINE seg == transfer[u].segment
<1>1. /\ IsFile(u) /\ Writing(u)
      /\ \A v \in Users : transfer'[v] = IF v = u THEN NoTransfer ELSE transfer[v]
    BY DEF FinishFile, IsFile, Writing, RangeInv, TreeInv, DisjointInv, TransferInv
<1>2. queued /\ seg \in Ranges(Size) /\ Aligned(seg, TreeBlock, Size)
    BY <1>1 DEF RangeInv, FetchInv, AsksFor
<1>3. /\ done' = AddSegment(done, seg)
      /\ queued' = ~IsFinished(done', Size)
      /\ listed' = IF queued' THEN listed \ {u} ELSE {}
    BY <1>2 DEF FinishFile, IsFinished
<1>4. seg.start <= seg.start /\ End(seg) <= End(seg)
    BY <1>2, ConstAssumption, RangeFields
<1>5. /\ Tidy(done') /\ Bytes(done') = Bytes(done) \cup SegmentBytes(seg)
      /\ \A v \in Users \ {u} : IsFile(v) =>
            queued' /\ \A s \in done' : ~Overlaps(transfer[v].segment, s)
    BY <1>1, <1>2, <1>3, <1>4, RecordsApart
<1> QED
    BY <1>1, <1>2, <1>3, <1>5

\* Recording a finished segment keeps all ranges in the file and merged.
LEMMA FinishFileKeepsRanges ==
    ASSUME RangeInv, TreeInv', NEW u \in Users, FinishFile(u)
    PROVE  RangeInv'
<1>1. /\ queued /\ Tidy(done') /\ queued' = ~IsFinished(done', Size)
      /\ listed' = IF queued' THEN listed \ {u} ELSE {}
      /\ \A v \in Users : transfer'[v] = IF v = u THEN NoTransfer ELSE transfer[v]
      /\ \A v \in Users \ {u} : IsFile(v) =>
            queued' /\ \A s \in done' : ~Overlaps(transfer[v].segment, s)
    BY FinishFileIs
<1>2. saved' = saved /\ recheck' = recheck /\ NoTransfer.type = "none"
    BY DEF FinishFile, NoTransfer
<1>3. DoneInv'
    BY <1>1, <1>2 DEF RangeInv, DoneInv, Tidy
<1>4. FetchInv'
    BY <1>1, <1>2 DEF RangeInv, FetchInv, IsFile, AsksFor
<1> QED
    BY <1>3, <1>4 DEF RangeInv

\* A restart finds in Queue.xml what saveQueue wrote.
LEMMA LoadedIsSaved == ASSUME NEW S, Tidy(S) PROVE Loaded(S) = S
<1>1. S \in SUBSET Ranges(Size) /\ Apart(S) /\ Size \in Nat
    BY ConstAssumption DEF Tidy
<1>2. \A s \in S : s.size > 0 /\ s.start >= 0 /\ End(s) <= Size
    BY <1>1, RangeFields
<1>3. {s \in S : s.size > 0 /\ s.start >= 0 /\ End(s) <= Size} = S
    BY <1>2
<1> QED
    BY <1>1, <1>3, ConsolidateApart DEF Loaded

\* Every step of a download that is not rechecked or given up keeps the range layer.
LEMMA NextRanges ==
    ASSUME Operations \subseteq {"crash", "lose"}, RangeInv, [Next]_vars
    PROVE  RangeInv'
<1>0. TreeInv'
    BY NextTree DEF RangeInv
<1> USE DEF RangeInv
<1>1. CASE UNCHANGED vars
    BY <1>0, <1>1 DEF vars, DoneInv, FetchInv, Tidy, AsksFor, IsFile
<1>2. ASSUME NEW u \in Users, GetDownload(u)
      PROVE  RangeInv'
    BY <1>2, GetDownloadKeepsRanges
<1>3. ASSUME NEW u \in Users, Open(u)
      PROVE  RangeInv'
    <2>1. /\ listed' = listed /\ queued' = queued /\ done' = done
          /\ saved' = saved /\ recheck' = recheck /\ IsFile(u)
          /\ \A v \in Users : transfer'[v] = IF v = u THEN Opened(transfer[u]) ELSE transfer[v]
        BY <1>3 DEF Open, TreeInv, DisjointInv, TransferInv, IsFile
    <2>2. /\ Opened(transfer[u]).type = "file"
          /\ Opened(transfer[u]).segment = transfer[u].segment
          /\ Opened(transfer[u]).block = transfer[u].block
        BY DEF Opened
    <2> QED
        BY <1>0, <2>1, <2>2 DEF DoneInv, FetchInv, Tidy, AsksFor, IsFile
<1>4. ASSUME NEW u \in Users, OpenFails(u) \/ FinishTree(u) \/ FailTree(u) \/ FileNotAvailable(u)
      PROVE  RangeInv'
    <2>1. /\ listed' = listed \ {u} /\ queued' = queued /\ done' = done
          /\ saved' = saved /\ recheck' = recheck
          /\ \A v \in Users : transfer'[v] = IF v = u THEN NoTransfer ELSE transfer[v]
        BY <1>4 DEF OpenFails, FinishTree, FailTree, FileNotAvailable, Drop, TreeInv, DisjointInv,
                    TransferInv
    <2>2. NoTransfer.type = "none"
        BY DEF NoTransfer
    <2> QED
        BY <1>0, <2>1, <2>2 DEF DoneInv, FetchInv, Tidy, AsksFor, IsFile
<1>5. ASSUME NEW u \in Users, FailFile(u)
      PROVE  RangeInv'
    BY <1>0, <1>5, FailFileKeepsRanges
<1>6. ASSUME NEW u \in Users, FinishFile(u)
      PROVE  RangeInv'
    BY <1>0, <1>6, FinishFileKeepsRanges
<1>7. CASE (\E u \in Users : ReaddSource(u)) \/ SaveQueue \/ LoseTempFile
    <2>1. /\ transfer' = transfer /\ listed' = listed
          /\ queued' = queued /\ done' = done /\ recheck' = recheck
          /\ saved' = saved \/ saved'.segments = IF queued THEN done ELSE {}
        BY <1>7 DEF ReaddSource, SaveQueue, LoseTempFile
    <2> QED
        BY <1>0, <2>1, NothingIsTidy DEF DoneInv, FetchInv, Tidy, AsksFor, IsFile
<1>8. CASE Restart
    <2>1. /\ queued' = TRUE /\ saved' = saved
          /\ recheck' = Idle /\ done' = Loaded(saved.segments)
          /\ \A v \in Users : transfer'[v] = NoTransfer
        BY <1>8 DEF Restart
    <2>2. NoTransfer.type = "none"
        BY DEF NoTransfer
    <2>3. done' = saved.segments
        BY <2>1, LoadedIsSaved DEF DoneInv
    <2> QED
        BY <1>0, <2>1, <2>2, <2>3 DEF DoneInv, FetchInv, Tidy, AsksFor, IsFile, Idle
<1>9. CASE (\E u \in Users : AbandonSource(u)) \/ Rebuild \/ Recheck
    <2>1. recheck.step = "idle"
        BY DEF DoneInv, Idle
    <2> QED
        BY <1>9, <2>1 DEF AbandonSource, Rebuild, Recheck, RecheckStart, RecheckReset, RecheckRead,
                    RecheckDone
<1> QED
    BY <1>1, <1>2, <1>3, <1>4, <1>5, <1>6, <1>7, <1>8, <1>9 DEF Next

\* The range layer holds initially: no range is recorded.
LEMMA InitRanges == ASSUME Init PROVE RangeInv
<1>1. TreeInv
    BY InitTree
<1>2. NoTransfer.type = "none"
    BY DEF NoTransfer
<1>3. DoneInv
    BY NothingIsTidy DEF Init, DoneInv
<1>4. FetchInv
    BY <1>2 DEF Init, FetchInv, IsFile
<1> QED
    BY <1>1, <1>3, <1>4 DEF RangeInv

\* The range layer holds in every reachable state under that hypothesis.
LEMMA RangeInvHolds ==
    ASSUME Operations \subseteq {"crash", "lose"}
    PROVE  Spec => []RangeInv
<1>1. Init => RangeInv
    BY InitRanges
<1>2. RangeInv /\ [Next]_vars => RangeInv'
    BY NextRanges
<1> QED
    BY <1>1, <1>2, PTL DEF Spec

\* Whatever transfers fail, wherever the client dies and whenever the temporary
\* file disappears, the ranges recorded as done lie inside the file and no two of
\* them touch (QueueItem::addSegment, QueueLoader, QueueManager::putDownload).
THEOREM ConsolidatedTheorem ==
    ASSUME Operations \subseteq {"crash", "lose"}
    PROVE  Spec => []Consolidated
<1>1. RangeInv => Consolidated
    <2> SUFFICES ASSUME RangeInv PROVE Consolidated
        OBVIOUS
    <2>1. done \in SUBSET Ranges(Size) /\ Apart(done) /\ Size \in Nat
        BY ConstAssumption DEF RangeInv, DoneInv, Tidy
    <2>2. \A s \in done : s.size > 0 /\ End(s) <= Size
        BY <2>1, RangeFields
    <2> QED
        BY <2>1, <2>2 DEF Consolidated, Apart
<1> QED
    BY <1>1, RangeInvHolds, PTL

\* putDownload never loses recorded progress and records a finished segment as a
\* whole, whatever else is running.
THEOREM FinishKeepsProgressTheorem ==
    ASSUME Operations \subseteq {"crash", "lose"}
    PROVE  Spec => FinishKeepsProgress
<1>1. RangeInv => [\A u \in Users : FinishFile(u) /\ queued =>
          Bytes(done) \cup SegmentBytes(transfer[u].segment) \subseteq Bytes(done')]_vars
    BY FinishFileIs
<1> QED
    BY <1>1, RangeInvHolds, PTL DEF FinishKeepsProgress

-----------------------------------------------------------------------------
(* What is on disk.  A download that runs has its range apart from all that *)
(* is recorded, so that writing it, failing in the middle of a leaf, or    *)
(* losing the buffers of a dying client spoils nothing recorded; a         *)
(* download of an item whose temporary file is gone has nothing recorded   *)
(* beside it; Queue.xml never says more than is recorded unless the file   *)
(* it speaks of was deleted or the item is finished; and as long as no     *)
(* restart believes such a Queue.xml the target file is there only after   *)
(* the item has left the queue, so that nothing is written in place.       *)

FileInv ==
    /\ data \subseteq 0 .. (Size - 1) /\ target \subseteq 0 .. (Size - 1)
    /\ record \in {"current", "stale", "believed"}

PlaceInv ==
    /\ ~temp => data = {}
    /\ ~queued => ~temp
    /\ ~queued /\ saved.item => record = "stale"
    /\ queued => ~there /\ target = {}
    /\ ~inPlace /\ \A u \in Users : IsFile(u) => ~transfer[u].inPlace

OpenInv ==
    /\ \A u \in Users : Writing(u) => temp
    /\ ~temp => \A u \in Users : IsFile(u) => done = {}

RecordInv ==
    /\ temp => Bytes(done) \subseteq data
    /\ queued /\ record = "current" => /\ Bytes(done) \subseteq data
                                       /\ Bytes(saved.segments) \subseteq Bytes(done)

FirstLife == PlaceInv /\ OpenInv /\ RecordInv

DiskInv == RangeInv /\ FileInv /\ (record # "believed" => FirstLife)

\* A tidy set without bytes is empty, and one with a range is worth something to
\* QueueItem::getDownloadedBytes.
LEMMA BytesOfTidy ==
    ASSUME NEW S, Tidy(S)
    PROVE  /\ Bytes(S) \subseteq 0 .. (Size - 1)
           /\ Bytes(S) = {} => S = {}
           /\ S # {} => DownloadedBytes(S) > 0
<1>1. S \in SUBSET Ranges(Size) /\ Size \in Nat
    BY ConstAssumption DEF Tidy
<1>2. ASSUME NEW s \in S
      PROVE  /\ SegmentBytes(s) \subseteq 0 .. (Size - 1) /\ s.start \in SegmentBytes(s)
    <2>1. s.start \in Nat /\ End(s) \in Nat /\ s.start < End(s) /\ End(s) <= Size
        BY <1>1, RangeFields
    <2> QED
        BY <1>1, <2>1 DEF SegmentBytes
<1>3. Bytes(S) \subseteq 0 .. (Size - 1)
    BY <1>2 DEF Bytes
<1>4. Bytes(S) = {} => S = {}
    BY <1>2 DEF Bytes
<1>5. S # {} => DownloadedBytes(S) > 0
    BY <1>1, FinitelyMany, DownloadedBytesPositive
<1> QED
    BY <1>3, <1>4, <1>5

\* What a file Download asks for has no byte that is recorded.
LEMMA FetchedIsNotDone ==
    ASSUME RangeInv, NEW u \in Users, IsFile(u), NEW x \in SegmentBytes(transfer[u].segment)
    PROVE  x \notin Bytes(done) /\ x \in 0 .. (Size - 1)
<1> DEFINE seg == transfer[u].segment
<1>1. Size \in Nat /\ done \in SUBSET Ranges(Size)
    BY ConstAssumption DEF RangeInv, DoneInv, Tidy
<1>2. seg \in Ranges(Size) /\ \A s \in done : ~Overlaps(seg, s)
    BY DEF RangeInv, FetchInv, AsksFor
<1>3. ASSUME x \in Bytes(done) PROVE FALSE
    <2>1. PICK s \in done : x \in SegmentBytes(s)
        BY <1>3, InBytes
    <2>2. Overlaps(seg, s)
        BY <1>1, <1>2, <2>1, SharedByte
    <2> QED
        BY <1>2, <2>2
<1>4. x \in Int /\ seg.start <= x /\ x < End(seg) /\ seg.start \in Nat /\ End(seg) \in Nat /\ End(seg) <= Size
    BY <1>1, <1>2, InRange, RangeFields
<1> QED
    BY <1>1, <1>3, <1>4

\* The bytes of a finished item are those of its file.
LEMMA AllBytes ==
    ASSUME NEW S, IsFinished(S, Size)
    PROVE  Bytes(S) = 0 .. (Size - 1)
<1>1. SegmentBytes(Segment(0, Size)) = 0 .. (Size - 1)
    BY ConstAssumption DEF SegmentBytes, End, Segment
<1> QED
    BY <1>1 DEF Bytes, IsFinished

\* A Queue.xml once believed stays so: no step ends the second life of an item.
LEMMA BelievedStays ==
    ASSUME FileInv, Operations \subseteq {"crash", "lose"}, [Next]_vars, recheck = Idle
    PROVE  /\ record = "believed" => record' = "believed"
           /\ record' \in {"current", "stale", "believed"}
<1>1. recheck.step = "idle"
    BY DEF Idle
<1> QED
    BY <1>1 DEF FileInv, Next, vars, rest, Outdated, GetDownload, Open, OpenFails, FinishFile,
        FinishTree, FailFile, FailTree, FileNotAvailable, ReaddSource, AbandonSource, SaveQueue,
        Restart, LoseTempFile, Rebuild, Recheck, RecheckStart, RecheckReset, RecheckRead, RecheckDone

\* Handing out a segment keeps the disk layer, a lost temporary file included.
LEMMA GetDownloadKeepsDisk ==
    ASSUME DiskInv, FirstLife, RangeInv', NEW u \in Users, GetDownload(u)
    PROVE  FirstLife'
<1>1. PICK chunk \in ChunkSizes :
          /\ Offered(u, chunk) /\ done' = ResumeFrom(done)
          /\ transfer' = [transfer EXCEPT ![u] = NewDownload(u, chunk, done')]
    BY DEF GetDownload
<1> DEFINE new == NewDownload(u, chunk, done')
<1>2. /\ temp' = temp /\ data' = data /\ queued' = queued /\ saved' = saved
      /\ target' = target /\ record' = record /\ there' = there /\ inPlace' = inPlace
      /\ \A v \in Users : transfer'[v] = IF v = u THEN new ELSE transfer[v]
    BY <1>1 DEF GetDownload, rest, DiskInv, RangeInv, TreeInv, DisjointInv, TransferInv
<1>3. new.open = FALSE /\ (new.type = "file" => new.inPlace = inPlace)
    BY NewDownloadType
<1> HIDE DEF new
<1>4. Tidy(done) /\ ~inPlace
    BY DEF DiskInv, RangeInv, DoneInv, FirstLife, PlaceInv
<1>5. ~temp => done' = {}
    BY <1>1, <1>4, BytesOfTidy DEF ResumeFrom
<1>6. temp => done' = done
    BY <1>1, <1>4 DEF ResumeFrom
<1>7. PlaceInv'
    BY <1>2, <1>3 DEF FirstLife, PlaceInv, IsFile
<1>8. OpenInv'
    BY <1>2, <1>3, <1>5, <1>6 DEF FirstLife, OpenInv, Writing, IsFile
<1>9. queued /\ record = "current" => done' = done
    BY <1>4, <1>5, <1>6, BytesOfTidy DEF FirstLife, PlaceInv, RecordInv
<1>10. RecordInv'
    BY <1>2, <1>6, <1>9 DEF FirstLife, RecordInv
<1> QED
    BY <1>7, <1>8, <1>10 DEF FirstLife

\* What a finished transfer does to the two files.
LEMMA FinishFileWrites ==
    ASSUME RangeInv, NEW u \in Users, FinishFile(u)
    PROVE  LET fetched == SegmentBytes(transfer[u].segment)
           IN  /\ there' = IF queued' THEN there ELSE TRUE
               /\ record' = IF ~queued' /\ record = "current" THEN "stale" ELSE record
               /\ saved' = saved /\ inPlace' = inPlace
               /\ IF transfer[u].inPlace
                  THEN target' = target \cup fetched /\ data' = data /\ temp' = temp
                  ELSE IF queued' THEN data' = data \cup fetched /\ target' = target /\ temp' = temp
                       ELSE data' = {} /\ target' = data \cup fetched /\ temp' = FALSE
<1>1. queued /\ done' = AddSegment(done, transfer[u].segment) /\ queued' = ~IsFinished(done', Size)
    BY FinishFileIs
<1> DEFINE fetched == SegmentBytes(transfer[u].segment)
<1>2. (target \ {}) \cup fetched = target \cup fetched /\ (data \ {}) \cup fetched = data \cup fetched
    OBVIOUS
<1>3. Written(u, {}, fetched) =>
         IF transfer[u].inPlace
         THEN target' = target \cup fetched /\ data' = data /\ temp' = temp
         ELSE data' = data \cup fetched /\ target' = target /\ temp' = temp
    BY <1>1, <1>2 DEF Written
<1>4. saved' = saved /\ inPlace' = inPlace
    BY DEF FinishFile
<1>5. CASE IsFinished(done', Size)
    <2>1. there' = TRUE /\ Outdated /\ ~queued'
        BY <1>1, <1>5 DEF FinishFile
    <2>2. IF transfer[u].inPlace THEN Written(u, {}, fetched)
          ELSE temp' = FALSE /\ data' = {} /\ target' = data \cup fetched
        BY <1>1, <1>5 DEF FinishFile
    <2> QED
        BY <1>3, <1>4, <2>1, <2>2 DEF Outdated
<1>6. CASE ~IsFinished(done', Size)
    <2>1. there' = there /\ record' = record /\ queued' /\ Written(u, {}, fetched)
        BY <1>1, <1>6 DEF FinishFile
    <2> QED
        BY <1>3, <1>4, <2>1
<1> QED
    BY <1>5, <1>6

\* Recording a finished segment keeps the disk layer.
LEMMA FinishFileKeepsDisk ==
    ASSUME DiskInv, FirstLife, record # "believed", RangeInv', NEW u \in Users, FinishFile(u)
    PROVE  FirstLife'
<1> DEFINE fetched == SegmentBytes(transfer[u].segment)
<1>1. /\ queued /\ IsFile(u) /\ Writing(u)
      /\ Bytes(done') = Bytes(done) \cup fetched
      /\ \A v \in Users : transfer'[v] = IF v = u THEN NoTransfer ELSE transfer[v]
    BY FinishFileIs DEF DiskInv
<1>2. temp /\ target = {} /\ ~there /\ ~inPlace /\ ~transfer[u].inPlace
    BY <1>1 DEF FirstLife, OpenInv, PlaceInv
<1>3. /\ queued' => there' = there
      /\ saved' = saved /\ inPlace' = inPlace
      /\ record' = IF ~queued' /\ record = "current" THEN "stale" ELSE record
      /\ IF queued' THEN data' = data \cup fetched /\ target' = target /\ temp' = temp
                    ELSE data' = {} /\ target' = data \cup fetched /\ temp' = FALSE
    BY <1>1, <1>2, FinishFileWrites DEF DiskInv
<1>4. NoTransfer.type = "none"
    BY DEF NoTransfer
<1>5. \A v \in Users : IsFile(v)' => queued'
    BY DEF RangeInv, FetchInv
<1> HIDE DEF fetched
<1>6. PlaceInv'
    <2>1. record \in {"current", "stale", "believed"}
        BY DEF DiskInv, FileInv
    <2>2. (~temp' => data' = {}) /\ (queued' => ~there' /\ target' = {})
        <3>1. CASE queued'
            BY <1>2, <1>3, <3>1
        <3>2. CASE ~queued'
            BY <1>3, <3>2
        <3> QED
            BY <3>1, <3>2
    <2>3. (~queued' => ~temp') /\ (~queued' => record' = "stale")
        BY <1>3, <2>1
    <2>4. ~inPlace' /\ \A v \in Users : IsFile(v)' => ~transfer'[v].inPlace
        BY <1>1, <1>2, <1>3, <1>4 DEF FirstLife, PlaceInv, IsFile
    <2> QED
        BY <2>2, <2>3, <2>4 DEF PlaceInv
<1>7. OpenInv'
    BY <1>2, <1>3, <1>5 DEF OpenInv, Writing, IsFile
<1>8. RecordInv'
    BY <1>1, <1>2, <1>3 DEF FirstLife, RecordInv
<1> QED
    BY <1>6, <1>7, <1>8 DEF FirstLife

\* A failed transfer takes back nothing that was recorded.
LEMMA FailFileKeepsDone ==
    ASSUME RangeInv, NEW u \in Users, FailFile(u)
    PROVE  \/ done' = done
           \/ /\ transfer[u].open
              /\ \E part : /\ transfer[u].inPlace \/ SegmentBytes(part) \subseteq data'
                           /\ Bytes(done') = Bytes(done) \cup SegmentBytes(part)
<1> DEFINE seg == transfer[u].segment
<1>1. IsFile(u)
    BY DEF FailFile, IsFile
<1>2. \/ done' = done
      \/ \E part \in Ranges(Size) :
            /\ Aligned(part, TreeBlock, Size) /\ part.start = seg.start
            /\ End(part) < End(seg) /\ done' = AddSegment(done, part)
            /\ transfer[u].open /\ (transfer[u].inPlace \/ SegmentBytes(part) \subseteq data')
    BY FailFileRecords
<1>3. ASSUME NEW part \in Ranges(Size), Aligned(part, TreeBlock, Size), part.start = seg.start,
             End(part) < End(seg), done' = AddSegment(done, part)
      PROVE  Bytes(done') = Bytes(done) \cup SegmentBytes(part)
    <2>1. seg \in Ranges(Size) /\ Size \in Nat
        BY <1>1, ConstAssumption DEF RangeInv, FetchInv, AsksFor
    <2>2. seg.start <= part.start /\ End(part) <= End(seg)
        BY <1>3, <2>1, RangeFields
    <2> QED
        BY <1>1, <1>3, <2>2, RecordsApart
<1> QED
    BY <1>2, <1>3

\* Dropping a failed segment keeps the disk layer: only its own bytes may change.
LEMMA FailFileKeepsDisk ==
    ASSUME DiskInv, FirstLife, RangeInv', NEW u \in Users, FailFile(u)
    PROVE  FirstLife'
<1> DEFINE seg == transfer[u].segment
<1>1. /\ IsFile(u) /\ queued' = queued /\ saved' = saved /\ record' = record /\ there' = there
      /\ \A v \in Users : transfer'[v] = IF v = u THEN NoTransfer ELSE transfer[v]
      /\ inPlace' = (inPlace \/ (queued /\ there /\ DownloadedBytes(done) = 0))
    BY DEF FailFile, Drop, ForgetTempTarget, DiskInv, RangeInv, TreeInv, DisjointInv, TransferInv,
           IsFile
<1>2. ~transfer[u].inPlace /\ ~inPlace'
    BY <1>1 DEF FirstLife, PlaceInv
<1>3. /\ data' \subseteq data \cup SegmentBytes(seg)
      /\ \A x \in data : x \notin SegmentBytes(seg) => x \in data'
      /\ ~transfer[u].open => data' = data
      /\ temp' = temp /\ target' = target
    BY <1>2, FailFileRecords DEF DiskInv
<1>4. \A x \in SegmentBytes(seg) : x \notin Bytes(done) /\ x \in 0 .. (Size - 1)
    BY <1>1, FetchedIsNotDone DEF DiskInv
<1>5. transfer[u].open => temp
    BY <1>1 DEF FirstLife, OpenInv, Writing, IsFile
<1>6. NoTransfer.type = "none"
    BY DEF NoTransfer
<1>7. \/ done' = done
      \/ temp /\ \E part : SegmentBytes(part) \subseteq data' /\ Bytes(done') = Bytes(done) \cup SegmentBytes(part)
    BY <1>2, <1>5, FailFileKeepsDone DEF DiskInv
<1>8. Bytes(done) \subseteq data => Bytes(done') \subseteq data'
    BY <1>3, <1>4, <1>7
<1>9. Bytes(done) \subseteq Bytes(done')
    BY <1>7
<1>10. PlaceInv'
    BY <1>1, <1>2, <1>3, <1>5, <1>6 DEF FirstLife, PlaceInv, IsFile
<1>11. OpenInv'
    BY <1>1, <1>3, <1>6, <1>7 DEF FirstLife, OpenInv, Writing, IsFile
<1>12. RecordInv'
    BY <1>1, <1>3, <1>8, <1>9 DEF FirstLife, RecordInv
<1> QED
    BY <1>10, <1>11, <1>12 DEF FirstLife

\* A dying client loses no byte that is recorded: what it was writing is not.  An
\* item that was finished only comes back from a stale Queue.xml.
LEMMA RestartKeepsDisk ==
    ASSUME DiskInv, FirstLife, RangeInv', Restart, record' # "believed"
    PROVE  FirstLife'
<1>1. /\ queued' = TRUE /\ saved' = saved /\ saved.item /\ temp' = temp /\ there' = there
      /\ \A v \in Users : transfer'[v] = NoTransfer
      /\ record' = record /\ record # "stale"
      /\ inPlace' = (there /\ (saved.segments = {} \/ saved.inPlace))
      /\ data' \subseteq data /\ target' \subseteq target
    BY DEF Restart
<1>2. queued /\ record = "current"
    BY <1>1 DEF FirstLife, PlaceInv, DiskInv, FileInv
<1>3. done' = saved.segments
    BY LoadedIsSaved DEF Restart, DiskInv, RangeInv, DoneInv
<1>4. NoTransfer.type = "none"
    BY DEF NoTransfer
<1>5. ASSUME NEW x \in Bytes(done), x \in data PROVE x \in data'
    <2>1. ASSUME NEW v \in Users, Writing(v), x \in SegmentBytes(transfer[v].segment) PROVE FALSE
        BY <1>5, <2>1, FetchedIsNotDone DEF DiskInv, Writing, IsFile
    <2> QED
        BY <1>5, <2>1 DEF Restart, BeingWritten
<1>6. PlaceInv'
    BY <1>1, <1>2, <1>4 DEF FirstLife, PlaceInv, IsFile
<1>7. OpenInv'
    BY <1>1, <1>4 DEF OpenInv, Writing, IsFile
<1>8. RecordInv'
    BY <1>1, <1>2, <1>3, <1>5 DEF FirstLife, RecordInv
<1> QED
    BY <1>6, <1>7, <1>8 DEF FirstLife

\* Only bytes of the file are ever right, in whichever file they are written.
LEMMA NextFile ==
    ASSUME Operations \subseteq {"crash", "lose"}, DiskInv, RangeInv', [Next]_vars
    PROVE  FileInv'
<1>0. record' \in {"current", "stale", "believed"} /\ recheck.step = "idle"
    BY BelievedStays DEF DiskInv, RangeInv, DoneInv, Idle
<1>1. ASSUME NEW u \in Users, FailFile(u)
      PROVE  FileInv'
    <2>1. /\ data' \subseteq data \cup SegmentBytes(transfer[u].segment)
          /\ target' \subseteq target \cup SegmentBytes(transfer[u].segment)
        BY <1>1, FailFileRecords DEF DiskInv
    <2>2. SegmentBytes(transfer[u].segment) \subseteq 0 .. (Size - 1)
        BY <1>1, FetchedIsNotDone DEF DiskInv, FailFile, IsFile
    <2> QED
        BY <1>0, <2>1, <2>2 DEF DiskInv, FileInv
<1>2. ASSUME NEW u \in Users, FinishFile(u)
      PROVE  FileInv'
    <2>1. /\ data' \subseteq data \cup SegmentBytes(transfer[u].segment)
          /\ target' \subseteq target \cup data \cup SegmentBytes(transfer[u].segment)
        BY <1>2, FinishFileWrites DEF DiskInv
    <2>2. SegmentBytes(transfer[u].segment) \subseteq 0 .. (Size - 1)
        BY <1>2, FetchedIsNotDone DEF DiskInv, FinishFile, IsFile
    <2> QED
        BY <1>0, <2>1, <2>2 DEF DiskInv, FileInv
<1>3. ASSUME NEW u \in Users, FileNotAvailable(u)
      PROVE  FileInv'
    BY <1>0, <1>3 DEF FileNotAvailable, Written, DiskInv, FileInv
<1>4. CASE \/ UNCHANGED vars \/ SaveQueue \/ Restart \/ LoseTempFile \/ Rebuild \/ Recheck
           \/ \E u \in Users : \/ GetDownload(u) \/ Open(u) \/ OpenFails(u) \/ FinishTree(u)
                               \/ FailTree(u) \/ ReaddSource(u) \/ AbandonSource(u)
    <2>1. data' \subseteq data /\ target' \subseteq target
        BY <1>0, <1>4 DEF vars, rest, GetDownload, Open, OpenFails, FinishTree, FailTree, ReaddSource,
            AbandonSource, SaveQueue, Restart, LoseTempFile, Rebuild, Recheck, RecheckStart,
            RecheckReset, RecheckRead, RecheckDone
    <2> QED
        BY <1>0, <2>1 DEF DiskInv, FileInv
<1> QED
    BY <1>1, <1>2, <1>3, <1>4 DEF Next

\* Every step, crash and reload included, keeps the disk layer.
LEMMA NextDisk ==
    ASSUME Operations \subseteq {"crash", "lose"}, DiskInv, [Next]_vars
    PROVE  DiskInv'
<1>0. RangeInv' /\ FileInv'
    BY NextRanges, NextFile DEF DiskInv
<1> SUFFICES ASSUME record' # "believed" PROVE FirstLife'
    BY <1>0 DEF DiskInv
<1>l. FirstLife /\ record # "believed"
    BY BelievedStays DEF DiskInv, RangeInv, DoneInv
<1>1. CASE UNCHANGED vars
    BY <1>l, <1>1 DEF vars, FirstLife, PlaceInv, OpenInv, RecordInv, Writing, IsFile
<1>2. ASSUME NEW u \in Users, GetDownload(u)
      PROVE  FirstLife'
    BY <1>0, <1>l, <1>2, GetDownloadKeepsDisk
<1>3. ASSUME NEW u \in Users, Open(u)
      PROVE  FirstLife'
    <2>1. /\ queued' = queued /\ done' = done /\ saved' = saved /\ data' = data
          /\ temp' = (temp \/ ~transfer[u].inPlace) /\ inPlace' = inPlace /\ there' = there
          /\ target' = target /\ record' = record /\ IsFile(u)
          /\ \A v \in Users : transfer'[v] = IF v = u THEN Opened(transfer[u]) ELSE transfer[v]
        BY <1>3 DEF Open, rest, IsFile, DiskInv, RangeInv, TreeInv, DisjointInv, TransferInv
    <2>2. queued /\ ~transfer[u].inPlace
        BY <1>l, <2>1 DEF DiskInv, RangeInv, FetchInv, FirstLife, PlaceInv
    <2>3. ~temp => Bytes(done) = {}
        BY <1>l, <2>1 DEF FirstLife, OpenInv, Bytes
    <2>4. Opened(transfer[u]).inPlace = transfer[u].inPlace
        BY DEF Opened
    <2>5. PlaceInv'
        BY <1>l, <2>1, <2>2, <2>4 DEF FirstLife, PlaceInv, IsFile
    <2>6. OpenInv'
        BY <2>1, <2>2 DEF OpenInv
    <2>7. RecordInv'
        BY <1>l, <2>1, <2>2, <2>3 DEF FirstLife, RecordInv
    <2> QED
        BY <2>5, <2>6, <2>7 DEF FirstLife
<1>4. ASSUME NEW u \in Users, OpenFails(u) \/ FinishTree(u) \/ FailTree(u) \/ FileNotAvailable(u)
      PROVE  FirstLife'
    <2>1. /\ queued' = queued /\ done' = done /\ saved' = saved
          /\ there' = there /\ record' = record
          /\ inPlace' \in {inPlace, inPlace \/ (queued /\ there /\ DownloadedBytes(done) = 0)}
          /\ \A v \in Users : transfer'[v] = IF v = u THEN NoTransfer ELSE transfer[v]
        BY <1>4 DEF OpenFails, FinishTree, FailTree, FileNotAvailable, Drop, ForgetTempTarget, rest,
                    DiskInv, RangeInv, TreeInv, DisjointInv, TransferInv
    <2>2. data' = data /\ temp' = temp /\ target' = target
        <3>1. CASE FileNotAvailable(u)
            <4>1. queued /\ ~transfer[u].inPlace
                BY <1>l, <3>1 DEF FileNotAvailable, FirstLife, PlaceInv, DiskInv, RangeInv, FetchInv,
                                  IsFile
            <4> QED
                BY <3>1, <4>1 DEF FileNotAvailable, Written
        <3> QED
            BY <1>4, <3>1 DEF OpenFails, FinishTree, FailTree, rest
    <2>3. NoTransfer.type = "none"
        BY DEF NoTransfer
    <2>4. ~inPlace'
        BY <1>l, <2>1 DEF FirstLife, PlaceInv
    <2> QED
        BY <1>l, <2>1, <2>2, <2>3, <2>4 DEF FirstLife, PlaceInv, OpenInv, RecordInv, Writing, IsFile
<1>5. ASSUME NEW u \in Users, FailFile(u)
      PROVE  FirstLife'
    BY <1>0, <1>l, <1>5, FailFileKeepsDisk
<1>6. ASSUME NEW u \in Users, FinishFile(u)
      PROVE  FirstLife'
    BY <1>0, <1>l, <1>6, FinishFileKeepsDisk
<1>7. ASSUME NEW u \in Users, ReaddSource(u)
      PROVE  FirstLife'
    BY <1>l, <1>7 DEF ReaddSource, rest, FirstLife, PlaceInv, OpenInv, RecordInv, Writing, IsFile
<1>8. CASE SaveQueue
    <2>1. /\ queued' = queued /\ done' = done /\ data' = data /\ temp' = temp
          /\ target' = target /\ transfer' = transfer /\ there' = there /\ inPlace' = inPlace
          /\ saved'.item = queued
          /\ saved'.segments = IF queued THEN done ELSE {}
          /\ record' = IF record = "stale" /\ (queued => Bytes(done) \subseteq data)
                       THEN "current" ELSE record
        BY <1>8 DEF SaveQueue
    <2>2. PlaceInv' /\ OpenInv'
        BY <1>l, <2>1 DEF FirstLife, PlaceInv, OpenInv, Writing, IsFile
    <2>3. RecordInv'
        BY <1>l, <2>1 DEF FirstLife, RecordInv
    <2> QED
        BY <2>2, <2>3 DEF FirstLife
<1>9. CASE LoseTempFile
    <2>1. /\ queued' = queued /\ done' = done /\ data' = {} /\ temp' = FALSE /\ temp
          /\ target' = target /\ transfer' = transfer /\ saved' = saved /\ there' = there
          /\ inPlace' = inPlace /\ record' = IF record = "current" THEN "stale" ELSE record
          /\ \A u \in Users : ~IsFile(u)
        BY <1>9 DEF LoseTempFile, Outdated, IsFile
    <2> QED
        BY <1>l, <2>1 DEF FirstLife, PlaceInv, OpenInv, RecordInv, Writing, IsFile
<1>10. CASE Restart
    BY <1>0, <1>l, <1>10, RestartKeepsDisk
<1>11. CASE (\E u \in Users : AbandonSource(u)) \/ Rebuild \/ Recheck
    <2>1. recheck.step = "idle"
        BY DEF DiskInv, RangeInv, DoneInv, Idle
    <2> QED
        BY <1>11, <2>1 DEF AbandonSource, Rebuild, Recheck, RecheckStart, RecheckReset, RecheckRead,
                    RecheckDone
<1> QED
    BY <1>1, <1>2, <1>3, <1>4, <1>5, <1>6, <1>7, <1>8, <1>9, <1>10, <1>11 DEF Next

\* The disk layer holds initially: nothing is recorded as done.
LEMMA InitDisk == ASSUME Init PROVE DiskInv
<1>1. RangeInv /\ NoTransfer.type = "none"
    BY InitRanges DEF NoTransfer
<1>2. Bytes({}) = {}
    BY DEF Bytes
<1>3. saved.segments = {}
    BY DEF Init
<1> QED
    BY <1>1, <1>2, <1>3 DEF Init, DiskInv, FileInv, FirstLife, PlaceInv, OpenInv, RecordInv, Writing,
                            IsFile

\* The disk layer holds in every reachable state under that hypothesis.
LEMMA DiskInvHolds ==
    ASSUME Operations \subseteq {"crash", "lose"}
    PROVE  Spec => []DiskInv
<1>1. Init => DiskInv
    BY InitDisk
<1>2. DiskInv /\ [Next]_vars => DiskInv'
    BY NextDisk
<1> QED
    BY <1>1, <1>2, PTL DEF Spec

\* Whatever transfers fail in the middle of a leaf, wherever the client dies and
\* whenever the temporary file disappears, every byte recorded as done is right in
\* the temporary file, unless a crash brought back what Queue.xml said of a file
\* deleted or of an item finished since (QueueManager::putDownload, getDownload,
\* QueueLoader, Download::open).
THEOREM DoneIsOnDiskTheorem ==
    ASSUME Operations \subseteq {"crash", "lose"}
    PROVE  Spec => []DoneIsOnDisk
<1>1. DiskInv => DoneIsOnDisk
    BY DEF DiskInv, FirstLife, RecordInv, DoneIsOnDisk
<1> QED
    BY <1>1, DiskInvHolds, PTL

-----------------------------------------------------------------------------
(* The refinement of AbstractDownload: what is recorded is what is         *)
(* collected, the target file what is delivered.                           *)

LEMMA PromiseStep ==
    ASSUME Operations \subseteq {"crash", "lose"}, DiskInv, DiskInv', [Next]_vars
    PROVE  \/ Promise!Next \/ record' = "believed"
           \/ UNCHANGED <<done, queued, target>>
<1> DEFINE Goal == \/ Promise!Next \/ record' = "believed"
                   \/ UNCHANGED <<done, queued, target>>
<1> SUFFICES ASSUME record' # "believed" PROVE Goal
    OBVIOUS
<1>l. record # "believed" /\ FirstLife /\ FirstLife'
    BY BelievedStays DEF DiskInv, RangeInv, DoneInv
<1>0. /\ queued => target = {} /\ Bytes(done) \subseteq 0 .. (Size - 1)
      /\ queued' => target' = {} /\ Bytes(done') \subseteq 0 .. (Size - 1)
    <2>1. Tidy(done)
        BY DEF DiskInv, RangeInv, DoneInv
    <2>2. Tidy(done')
        BY DEF DiskInv, RangeInv, DoneInv, Tidy
    <2> QED
        BY <1>l, <2>1, <2>2, BytesOfTidy DEF FirstLife, PlaceInv
<1>1. ASSUME queued, queued', Bytes(done) \subseteq Bytes(done') \/ Bytes(done') \subseteq Bytes(done)
      PROVE  Goal
    BY <1>0, <1>1 DEF Promise!Next, Promise!Collect, Promise!Forget
<1>2. ASSUME NEW u \in Users, GetDownload(u)
      PROVE  Goal
    <2>1. queued /\ queued' = queued /\ done' = ResumeFrom(done)
        BY <1>2 DEF GetDownload, Offered
    <2>2. Bytes(done') \subseteq Bytes(done)
        BY <2>1 DEF ResumeFrom, Bytes
    <2> QED
        BY <1>1, <2>1, <2>2
<1>3. ASSUME NEW u \in Users, FailFile(u)
      PROVE  Goal
    <2>1. queued /\ queued' = queued
        BY <1>3 DEF FailFile, DiskInv, RangeInv, FetchInv, IsFile
    <2>2. Bytes(done) \subseteq Bytes(done')
        BY <1>3, FailFileKeepsDone DEF DiskInv
    <2> QED
        BY <1>1, <2>1, <2>2
<1>4. ASSUME NEW u \in Users, FinishFile(u)
      PROVE  Goal
    <2> DEFINE seg == transfer[u].segment
    <2>1. /\ queued /\ IsFile(u) /\ Writing(u)
          /\ Bytes(done') = Bytes(done) \cup SegmentBytes(seg)
          /\ queued' = ~IsFinished(done', Size)
        BY <1>4, FinishFileIs DEF DiskInv
    <2>2. CASE queued'
        BY <1>1, <2>1, <2>2
    <2>3. CASE ~queued'
        <3>1. target' = data \cup SegmentBytes(seg)
            BY <1>l, <1>4, <2>1, <2>3, FinishFileWrites DEF DiskInv, FirstLife, PlaceInv
        <3>2. Bytes(done) \subseteq data /\ data \subseteq 0 .. (Size - 1)
            BY <1>l, <2>1 DEF DiskInv, FileInv, FirstLife, OpenInv, RecordInv
        <3>3. Bytes(done') = 0 .. (Size - 1)
            BY <2>1, <2>3, AllBytes
        <3>4. target' = 0 .. (Size - 1)
            BY <2>1, <3>1, <3>2, <3>3
        <3> QED
            BY <1>0, <2>1, <2>3, <3>4 DEF Promise!Next, Promise!Deliver
    <2> QED
        BY <2>2, <2>3
<1>5. CASE Restart
    <2>1. queued' = TRUE /\ saved.item /\ record # "stale"
        BY <1>5 DEF Restart
    <2>2. done' = saved.segments
        BY <1>5, LoadedIsSaved DEF Restart, DiskInv, RangeInv, DoneInv
    <2>3. queued /\ Bytes(done') \subseteq Bytes(done)
        BY <1>l, <2>1, <2>2 DEF DiskInv, FileInv, FirstLife, PlaceInv, RecordInv
    <2> QED
        BY <1>1, <2>1, <2>3
<1>6. CASE \/ \E u \in Users : \/ Open(u) \/ OpenFails(u) \/ FinishTree(u) \/ FailTree(u)
                               \/ ReaddSource(u)
           \/ SaveQueue \/ LoseTempFile \/ UNCHANGED vars
    BY <1>6 DEF Open, OpenFails, FinishTree, FailTree, ReaddSource, SaveQueue, LoseTempFile, vars, rest
<1>8. ASSUME NEW u \in Users, FileNotAvailable(u)
      PROVE  Goal
    <2>1. ~transfer[u].inPlace
        BY <1>l, <1>8 DEF FileNotAvailable, FirstLife, PlaceInv, IsFile
    <2> QED
        BY <1>8, <2>1 DEF FileNotAvailable, Written
<1>7. CASE (\E u \in Users : AbandonSource(u)) \/ Rebuild \/ Recheck
    <2>1. recheck.step = "idle"
        BY DEF DiskInv, RangeInv, DoneInv, Idle
    <2> QED
        BY <1>7, <2>1 DEF AbandonSource, Rebuild, Recheck, RecheckStart, RecheckReset, RecheckRead,
                    RecheckDone
<1> HIDE DEF Goal
<1> QED
    BY <1>2, <1>3, <1>4, <1>5, <1>6, <1>7, <1>8 DEF Next

\* The queue keeps its promise: the file is delivered complete and right, once and
\* only when every byte is recorded, and no step loses some progress and makes
\* other, until a restart believes a Queue.xml older than the deletion of the
\* temporary file or than the delivery (QueueManager::putDownload, getDownload,
\* saveQueue, QueueLoader).
THEOREM KeepsPromiseTheorem ==
    ASSUME Operations \subseteq {"crash", "lose"}
    PROVE  Spec => KeepsPromise
<1>1. Init => Promise!Init
    BY DEF Init, Promise!Init, Bytes
<1>2. DiskInv /\ DiskInv' /\ [Next]_vars
         => [Promise!Next \/ record' = "believed"]_<<done, queued, target>>
    BY PromiseStep
<1> QED
    BY <1>1, <1>2, DiskInvHolds, PTL DEF Spec, KeepsPromise

-----------------------------------------------------------------------------
(* Types, of which the ranges and the bytes follow from the invariants     *)
(* above.                                                                  *)

FlagTypes(t) == t.open \in BOOLEAN /\ t.inPlace \in BOOLEAN

PlainTypes ==
    /\ saved.sources \subseteq Users /\ sources \subseteq Users /\ noTree \subseteq Users
    /\ saved.item \in BOOLEAN /\ saved.inPlace \in BOOLEAN
    /\ queued \in BOOLEAN /\ temp \in BOOLEAN /\ inPlace \in BOOLEAN /\ there \in BOOLEAN
    /\ \A u \in Users : IsFile(u) => FlagTypes(transfer[u])
    /\ segmented \in Modes /\ faults \in 0 .. MaxFaults

\* Every step keeps the types that do not follow from the layers above.
LEMMA NextTypes ==
    ASSUME Operations \subseteq {"crash", "lose"}, DiskInv, PlainTypes, [Next]_vars
    PROVE  PlainTypes'
<1>0. transfer = [v \in Users |-> transfer[v]] /\ NoTransfer.type = "none"
    BY DEF DiskInv, RangeInv, TreeInv, DisjointInv, TransferInv, NoTransfer
<1>f. ASSUME Fault PROVE faults' \in 0 .. MaxFaults
    BY <1>f, ConstAssumption DEF Fault, PlainTypes
<1>d. ASSUME NEW u \in Users, Drop(u)
      PROVE  \A v \in Users : IsFile(v)' => FlagTypes(transfer'[v])
    <2>1. \A v \in Users : transfer'[v] = IF v = u THEN NoTransfer ELSE transfer[v]
        BY <1>0, <1>d DEF Drop
    <2> QED
        BY <1>0, <2>1 DEF PlainTypes, IsFile
<1>1. CASE UNCHANGED vars
    BY <1>1 DEF vars, PlainTypes, IsFile
<1>i. ASSUME ForgetTempTarget PROVE inPlace' \in BOOLEAN
    BY <1>i DEF ForgetTempTarget, PlainTypes
<1>2. ASSUME NEW u \in Users, GetDownload(u)
      PROVE  PlainTypes'
    <2>1. PICK chunk \in ChunkSizes :
              transfer' = [transfer EXCEPT ![u] = NewDownload(u, chunk, done')]
        BY <1>2 DEF GetDownload
    <2> DEFINE new == NewDownload(u, chunk, done')
    <2>2. \A v \in Users : transfer'[v] = IF v = u THEN new ELSE transfer[v]
        BY <1>0, <2>1
    <2>3. new.open = FALSE /\ (new.type = "file" => new.inPlace = inPlace)
        BY NewDownloadType
    <2> HIDE DEF new
    <2>4. \A v \in Users : IsFile(v)' => FlagTypes(transfer'[v])
        BY <2>2, <2>3 DEF PlainTypes, FlagTypes, IsFile
    <2> QED
        BY <1>2, <2>4 DEF GetDownload, PlainTypes, rest
<1>3. ASSUME NEW u \in Users, Open(u)
      PROVE  PlainTypes'
    <2>1. /\ IsFile(u)
          /\ \A v \in Users : transfer'[v] = IF v = u THEN Opened(transfer[u]) ELSE transfer[v]
        BY <1>0, <1>3 DEF Open, IsFile
    <2>2. Opened(transfer[u]).open = TRUE /\ Opened(transfer[u]).inPlace = transfer[u].inPlace
        BY DEF Opened
    <2>3. \A v \in Users : IsFile(v)' => FlagTypes(transfer'[v])
        BY <2>1, <2>2 DEF PlainTypes, FlagTypes, IsFile
    <2>4. temp' \in BOOLEAN
        BY <1>3 DEF Open
    <2> QED
        BY <1>3, <2>3, <2>4 DEF Open, PlainTypes, rest
<1>4. ASSUME NEW u \in Users, OpenFails(u) \/ FinishTree(u)
      PROVE  PlainTypes'
    <2>1. /\ Drop(u) /\ (ForgetTempTarget \/ inPlace' = inPlace)
          /\ UNCHANGED <<sources, noTree, queued, temp, saved, there, segmented, faults>>
        BY <1>4 DEF OpenFails, FinishTree, rest
    <2> QED
        BY <1>d, <1>i, <2>1 DEF PlainTypes
<1>5. ASSUME NEW u \in Users, FailTree(u) \/ FileNotAvailable(u)
      PROVE  PlainTypes'
    <2>1. /\ sources' \subseteq sources /\ noTree' \subseteq noTree \cup {u} /\ Drop(u) /\ Fault
          /\ ForgetTempTarget \/ inPlace' = inPlace
          /\ UNCHANGED <<queued, saved, there, segmented>>
        BY <1>5 DEF FailTree, FileNotAvailable, rest
    <2>2. temp' \in {temp, FALSE}
        BY <1>5 DEF FailTree, FileNotAvailable, Written
    <2> QED
        BY <1>d, <1>f, <1>i, <2>1, <2>2 DEF PlainTypes
<1>6. ASSUME NEW u \in Users, FailFile(u)
      PROVE  PlainTypes'
    <2>1. /\ Drop(u) /\ Fault /\ ForgetTempTarget
          /\ UNCHANGED <<sources, noTree, queued, saved, there, segmented>>
        BY <1>6 DEF FailFile
    <2>2. temp' = temp
        BY <1>6, FailFileRecords DEF DiskInv
    <2> QED
        BY <1>d, <1>f, <1>i, <2>1, <2>2 DEF PlainTypes
<1>7. ASSUME NEW u \in Users, FinishFile(u)
      PROVE  PlainTypes'
    <2>1. /\ queued' = ~IsFinished(done', Size)
          /\ \A v \in Users : transfer'[v] = IF v = u THEN NoTransfer ELSE transfer[v]
        BY <1>7, FinishFileIs DEF DiskInv
    <2>2. /\ temp' \in {temp, FALSE} /\ there' \in {there, TRUE}
          /\ UNCHANGED <<inPlace, saved>>
        BY <1>7, FinishFileWrites DEF DiskInv
    <2>3. UNCHANGED <<sources, noTree, segmented, faults>>
        BY <1>7 DEF FinishFile
    <2>4. \A v \in Users : IsFile(v)' => FlagTypes(transfer'[v])
        BY <1>0, <2>1 DEF PlainTypes, IsFile
    <2> QED
        BY <2>1, <2>2, <2>3, <2>4 DEF PlainTypes
<1>8. CASE (\E u \in Users : ReaddSource(u)) \/ SaveQueue
    <2>1. /\ sources' \subseteq Users /\ saved'.sources \subseteq Users
          /\ saved'.item \in BOOLEAN /\ saved'.inPlace \in BOOLEAN
          /\ UNCHANGED <<transfer, noTree, queued, temp, inPlace, there, segmented, faults>>
        BY <1>8 DEF ReaddSource, SaveQueue, PlainTypes, rest
    <2> QED
        BY <2>1 DEF PlainTypes, IsFile
<1>9. CASE Restart \/ LoseTempFile
    <2>1. /\ sources' \subseteq Users /\ noTree' \subseteq Users /\ temp' \in BOOLEAN /\ Fault
          /\ transfer' = transfer \/ \A v \in Users : transfer'[v] = NoTransfer
          /\ queued' \in {queued, TRUE} /\ inPlace' \in BOOLEAN
          /\ UNCHANGED <<saved, there, segmented>>
        BY <1>9 DEF Restart, LoseTempFile, PlainTypes
    <2> QED
        BY <1>0, <1>f, <2>1 DEF PlainTypes, IsFile
<1>10. CASE (\E u \in Users : AbandonSource(u)) \/ Rebuild \/ Recheck
    <2>1. recheck.step = "idle"
        BY DEF DiskInv, RangeInv, DoneInv, Idle
    <2> QED
        BY <1>10, <2>1 DEF AbandonSource, Rebuild, Recheck, RecheckStart, RecheckReset, RecheckRead,
                    RecheckDone
<1> QED
    BY <1>1, <1>2, <1>3, <1>4, <1>5, <1>6, <1>7, <1>8, <1>9, <1>10 DEF Next

\* The type invariant of the item, its transfers and its files, for every file and
\* every set of sources, while the client only dies and loses temporary files.
THEOREM DownloadTypes ==
    ASSUME Operations \subseteq {"crash", "lose"}
    PROVE  Spec => []TypeOK
<1>1. Init => PlainTypes
    <2>1. ASSUME Init PROVE PlainTypes
        <3>1. /\ saved.sources = Users /\ saved.item \in BOOLEAN /\ saved.inPlace \in BOOLEAN
              /\ \A u \in Users : transfer[u].type = "none"
            BY <2>1 DEF Init, NoTransfer
        <3>2. faults \in 0 .. MaxFaults /\ segmented \in Modes
            BY <2>1, ConstAssumption DEF Init
        <3>3. /\ queued \in BOOLEAN /\ temp \in BOOLEAN /\ inPlace \in BOOLEAN /\ there \in BOOLEAN
              /\ sources \subseteq Users /\ noTree \subseteq Users
            BY <2>1 DEF Init
        <3> QED
            BY <3>1, <3>2, <3>3 DEF PlainTypes, IsFile
    <2> QED
        BY <2>1
<1>2. DiskInv /\ PlainTypes /\ [Next]_vars => PlainTypes'
    BY NextTypes
<1>3. DiskInv /\ PlainTypes => TypeOK
    <2> SUFFICES ASSUME DiskInv, PlainTypes PROVE TypeOK
        OBVIOUS
    <2>1. Size \in Nat \ {0} /\ TreeBlock \in Nat \ {0}
        BY ConstAssumption
    <2>2. Ranges(Size) \subseteq Segments
        BY DEF Ranges, Segments
    <2>3. done \subseteq Segments /\ saved.segments \subseteq Segments
        BY <2>2 DEF DiskInv, RangeInv, DoneInv, Tidy
    <2>4. recheck.step = "idle" /\ recheck.good = {}
        BY DEF DiskInv, RangeInv, DoneInv, Idle
    <2>5. ASSUME NEW u \in Users
          PROVE  \/ transfer[u] = NoTransfer
                 \/ transfer[u] = TreeDownload
                 \/ /\ transfer[u].type = "file" /\ transfer[u].segment \in Segments
                    /\ transfer[u].block \in Nat \ {0}
                    /\ transfer[u].open \in BOOLEAN /\ transfer[u].inPlace \in BOOLEAN
        <3>1. CASE IsFile(u)
            <4>1. AsksFor(transfer[u])
                BY <3>1 DEF DiskInv, RangeInv, FetchInv
            <4> QED
                BY <2>1, <2>2, <3>1, <4>1 DEF AsksFor, PlainTypes, FlagTypes, IsFile
        <3>2. CASE ~IsFile(u)
            BY <3>2 DEF DiskInv, RangeInv, TreeInv, DisjointInv, TransferInv, IsTransfer, IsFile
        <3> QED
            BY <3>1, <3>2
    <2>6. listed \subseteq Users /\ DOMAIN transfer = Users /\ tree \in {0, TreeBlock}
        BY DEF DiskInv, RangeInv, TreeInv, DisjointInv, TransferInv
    <2> QED
        BY <2>3, <2>4, <2>5, <2>6 DEF TypeOK, PlainTypes, DiskInv, FileInv
<1> QED
    BY <1>1, <1>2, <1>3, DiskInvHolds, PTL DEF Spec
=============================================================================
