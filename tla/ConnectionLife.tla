--------------------------- MODULE ConnectionLife ---------------------------
(***************************************************************************)
(* What everybody who holds a UserConnection may rely on, whatever threads, *)
(* tasks, failures and the shutdown do to it: it is owned before it has a   *)
(* socket, its socket is there as long as it is owned, and once disowned it *)
(* is on its way out and never comes back.                                  *)
(***************************************************************************)
CONSTANT Conns

VARIABLE phase

Init == phase = [c \in Conns |-> "absent"]

Pass(c, from, to) == phase[c] = from /\ phase' = [phase EXCEPT ![c] = to]

Own(c)    == Pass(c, "absent", "owned")
Open(c)   == Pass(c, "owned", "open")
Disown(c) == Pass(c, "open", "leaving")
Die(c)    == Pass(c, "leaving", "gone")

Next == \E c \in Conns : Own(c) \/ Open(c) \/ Disown(c) \/ Die(c)

Spec == Init /\ [][Next]_phase
=============================================================================
