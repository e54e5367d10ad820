------------------------ MODULE MCSegmentedDownload ------------------------
(***************************************************************************)
(* The loops over QueueItem::done as they are written, against their       *)
(* closed form in QueueItem, on every small set of segments, nested and    *)
(* empty ones included.                                                    *)
(***************************************************************************)
EXTENDS SegmentedDownload

CONSTANT Positions   \* BOUND: where the segments of the comparison start

\* One turn of the loop of addSegment.
MergeNext(acc, s) ==
    LET prev == Last(acc)
    IN  IF End(prev) >= s.start
        THEN Append(Front(acc), Segment(prev.start, End(s) - prev.start))
        ELSE Append(acc, s)

AddSegmentLoop(got, segment) ==
    LET sorted == SetToSortSeq(got \cup {segment}, Precedes)
    IN  ToSet(FoldLeft(MergeNext, <<Head(sorted)>>, Tail(sorted)))

\* QueueLoader::startTag, once for every segment of the file.
LoadedLoop(segments) == FoldLeft(AddSegmentLoop, {}, SetToSortSeq(segments, Precedes))

SmallSets == UNION {kSubset(k, {Segment(i, n) : i \in Positions, n \in 0 .. 2}) : k \in 0 .. 3}

ASSUME LoopsAgree ==
    \A S \in SmallSets :
        /\ LoadedLoop(S) = Consolidate(S)
        /\ \A s \in S : AddSegmentLoop(S \ {s}, s) = AddSegment(S \ {s}, s)
=============================================================================
