------------------------------ MODULE QueueItem ------------------------------
(***************************************************************************)
(* The byte-range bookkeeping of one queued file: dcpp/Segment.h and the   *)
(* segment half of dcpp/QueueItem.cpp.  Everything here is a pure operator *)
(* over the `done' set (std::set<Segment>, ordered by operator<) and over  *)
(* the segments of the item's running downloads.                           *)
(*                                                                         *)
(* A segment is a record [start, size]; as in the code, size -1 stands for *)
(* "unknown" and size 0 for "nothing".  Positions and sizes are int64_t in *)
(* the code and far below 2^63 for every real file; they are unbounded     *)
(* integers here.                                                          *)
(***************************************************************************)
EXTENDS Integers, FiniteSets, SequencesExt

Segment(start, size) == [start |-> start, size |-> size]

End(s) == s.start + s.size

Overlaps(a, b) == a.start < End(b) /\ b.start < End(a)

\* Segment::operator<, the order of the std::set.
Precedes(a, b) == \/ a.start < b.start
                  \/ a.start = b.start /\ a.size < b.size

\* Util::roundDown rounds to the NEAREST multiple of blockSize.
RoundDown(n, blockSize) == ((n + blockSize \div 2) \div blockSize) * blockSize

RoundUp(n, blockSize) == ((n + blockSize - 1) \div blockSize) * blockSize

\* The bytes a segment, or a set of segments, stands for.
SegmentBytes(s) == s.start .. (End(s) - 1)
Bytes(segments) == UNION {SegmentBytes(s) : s \in segments}

DownloadedBytes(done) == MapThenSumSet(LAMBDA s : s.size, done)

IsFinished(done, size) == done = {Segment(0, size)}

-----------------------------------------------------------------------------
(* addSegment: insert, then one left-to-right pass that replaces a segment *)
(* and the one before it by the range from the start of the first to the   *)
(* END OF THE SECOND whenever they touch.  What is merged so far therefore *)
(* ends where the last segment merged did, and the pass starts a new range *)
(* exactly after a segment that ends before all that follow begin.         *)

\* Mutant: neighbours that merely touch stay apart.
LastOnesTouching(S) == {s \in S : \A t \in S : Precedes(s, t) => End(s) <= t.start}

\* The segments of S that are the last of their range.
LastOnes(S) == {s \in S : \A t \in S : Precedes(s, t) => End(s) < t.start}

\* Those that are merged into the range that ends with `last'.
MergedInto(last, S) ==
    {s \in S : /\ s = last \/ Precedes(s, last)
               /\ \A l \in LastOnes(S) : Precedes(l, last) => Precedes(l, s)}

\* Mutant: the merged range starts where its last segment does.
ConsolidateLateStart(S) == LastOnes(S)

Consolidate(S) ==
    {LET start == Min({s.start : s \in MergedInto(last, S)})
     IN  Segment(start, End(last) - start) : last \in LastOnes(S)}

\* Mutant: only the insertion.
AddSegmentInsert(done, segment) == done \cup {segment}

AddSegment(done, segment) == Consolidate(done \cup {segment})

-----------------------------------------------------------------------------
(* getNextSegment: the range the next download of the item asks for.       *)

FirstSegment(done) ==
    CHOOSE s \in done : \A t \in done : t = s \/ Precedes(s, t)

\* SEGMENTED_DL off: one download at a time, filling the first hole.
NextSequential(done, running, size, blockSize) ==
    IF running # {} THEN Segment(0, 0)
    ELSE LET first == FirstSegment(done)
             rest  == done \ {first}
             start == IF done = {} \/ first.start > 0 THEN 0
                      ELSE RoundDown(End(first), blockSize)
             end   == IF done = {} THEN size
                      ELSE IF first.start > 0
                           THEN RoundUp(first.start, blockSize)
                           ELSE IF rest = {} THEN size
                                ELSE RoundUp(FirstSegment(rest).start, blockSize)
         IN  Segment(start, Min({size, end}) - start)

\* wantedSize * max(0.25, 1 - donePart^2), truncated, then rounded to blocks.
TargetSize(done, size, blockSize, wantedSize) ==
    LET got    == DownloadedBytes(done)
        shrunk == (wantedSize * Max({size * size, 4 * (size * size - got * got)}))
                  \div (4 * size * size)
    IN  IF shrunk > blockSize THEN RoundDown(shrunk, blockSize) ELSE blockSize

\* Mutant: the last block is not clipped at the end of the file.
BlockUnclipped(start, len, size) == Segment(start, len)

Block(start, len, size) == Segment(start, Min({size, start + len}) - start)

\* Mutant: the running downloads are not looked at.
IsFreeOfDone(block, len, done, running, blockSize) ==
    \A s \in done : IF len <= blockSize
                    THEN ~(s.start <= block.start /\ End(s) >= End(block))
                    ELSE ~Overlaps(block, s)

\* The candidate is skipped when it overlaps a running download or done data;
\* a candidate of one block only when a single done segment covers it whole.
IsFree(block, len, done, running, blockSize) ==
    /\ \A s \in done : IF len <= blockSize
                       THEN ~(s.start <= block.start /\ End(s) >= End(block))
                       ELSE ~Overlaps(block, s)
    /\ \A d \in running : ~Overlaps(block, d)

\* SEGMENTED_DL on: the loop tries the block-aligned starts in ascending
\* order and, at each, the lengths from targetSize down to one block.  Block
\* clips at the end of the file, so lengths beyond it add no new candidate.
NextSegmented(done, running, size, blockSize, wantedSize) ==
    LET target     == TargetSize(done, size, blockSize, wantedSize)
        last       == (size - 1) \div blockSize
        starts     == {k * blockSize : k \in 0 .. last}
        lengths    == {l \in {k * blockSize : k \in 1 .. (last + 1)} : l <= target}
        Free(b, l) == IsFree(Block(b, l, size), l, done, running, blockSize)
        usable     == {b \in starts : \E l \in lengths : Free(b, l)}
        start      == Min(usable)
        len        == Max({l \in lengths : Free(start, l)})
    IN  IF usable = {} THEN Segment(0, 0) ELSE Block(start, len, size)

GetNextSegment(done, running, size, blockSize, wantedSize, segmented) ==
    IF size = -1 \/ blockSize = 0 THEN Segment(0, -1)
    ELSE IF ~segmented
         THEN NextSequential(done, running, size, blockSize)
         ELSE NextSegmented(done, running, size, blockSize, wantedSize)
=============================================================================
