-------------------------- MODULE MCFinishedFiles ---------------------------
(***************************************************************************)
(* Model checking of FinishedFiles with symmetry: the files are            *)
(* interchangeable (they have the same bare name, and the settings to      *)
(* choose from are closed under permutation) and only invariants are       *)
(* checked.                                                                *)
(***************************************************************************)
EXTENDS FinishedFiles, TLC

Symmetry == Permutations(Files)

\* The same file name in two directories.
SameName == [f \in Files |-> "name"]

\* Finished files dropped, one or both of them large; or kept, one of each kind.
DropOrKeep ==
    [keep : {FALSE}, big : SUBSET Files \ {{}}] \cup [keep : {TRUE}, big : {{f} : f \in Files}]
=============================================================================
