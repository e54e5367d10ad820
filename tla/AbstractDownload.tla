--------------------------- MODULE AbstractDownload ---------------------------
(***************************************************************************)
(* What the queue promises of a file, whatever its sources, segments,       *)
(* trees and failures: bytes are collected, some may have to be collected   *)
(* again, and the file is delivered once, when all of it has been           *)
(* collected, complete and right.  (SegmentedDownload!KeepsPromise names    *)
(* the restarts that end the promise.)                                      *)
(***************************************************************************)
EXTENDS Integers

CONSTANT File        \* its bytes

VARIABLES
    collected,       \* bytes that need not be fetched (any more)
    delivered        \* bytes of the target file that are right, {} if not there

Init == collected = {} /\ delivered = {}

\* Progress is made.
Collect ==
    /\ delivered = {} /\ delivered' = {}
    /\ collected \subseteq collected' /\ collected' \subseteq File

\* Progress is forgotten, but nothing gained in the same step.
Forget ==
    /\ delivered = {} /\ delivered' = {}
    /\ collected' \subseteq collected

Deliver ==
    /\ delivered = {}
    /\ collected' = File /\ delivered' = File

Next == Collect \/ Forget \/ Deliver

Spec == Init /\ [][Next]_<<collected, delivered>>
=============================================================================
