--------------------------- MODULE MCQueueManager ---------------------------
(***************************************************************************)
(* Model checking of QueueManager with symmetry: users, targets and item   *)
(* objects are interchangeable (a user names its own file list, so the     *)
(* users are permuted as users and as targets at once), and only           *)
(* invariants are checked with it.                                         *)
(***************************************************************************)
EXTENDS QueueManager, TLC

Symmetry == Permutations(Users) \cup Permutations(Files) \cup Permutations(Items)
=============================================================================
