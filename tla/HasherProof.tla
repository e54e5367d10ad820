----------------------------- MODULE HasherProof -----------------------------
(***************************************************************************)
(* The pause protocol of Hasher, proved for any number of files, pausing   *)
(* threads and rebuilds, and for any width of the counter: no wakeup is    *)
(* lost, and without the dialog every pause is undone by exactly one       *)
(* HashPauser.                                                             *)
(***************************************************************************)
EXTENDS Hasher, FiniteSetTheorems, TLAPS

\* The flags waiting for their signals are few: the cardinality is a number.
LEMMA UnsentFinite ==
    ASSUME NEW S \in SUBSET {"rebuild", "stop"}
    PROVE  IsFiniteSet(S) /\ Cardinality(S) \in Nat
<1>1. IsFiniteSet({"rebuild", "stop"})
    <2>1. {"rebuild", "stop"} = {"rebuild"} \cup {"stop"}
        OBVIOUS
    <2>2. IsFiniteSet({"rebuild"} \cup {"stop"})
        BY FS_Singleton, FS_AddElement
    <2> QED
        BY <2>1, <2>2
<1> QED
    BY <1>1, FS_Subset, FS_CardinalityType

\* Adding and removing one element of a finite set, as numbers.
LEMMA CountOneMore ==
    ASSUME NEW S, IsFiniteSet(S), NEW x
    PROVE  /\ IsFiniteSet(S \cup {x}) /\ IsFiniteSet(S \ {x})
           /\ Cardinality(S) \in Nat
           /\ Cardinality(S \cup {x}) \in Nat /\ Cardinality(S \ {x}) \in Nat
           /\ Cardinality(S \cup {x}) <= Cardinality(S) + 1
           /\ x \notin S => Cardinality(S \cup {x}) = Cardinality(S) + 1
           /\ x \in S => Cardinality(S \ {x}) = Cardinality(S) - 1
<1>1. /\ IsFiniteSet(S \cup {x})
      /\ Cardinality(S \cup {x}) = IF x \in S THEN Cardinality(S) ELSE Cardinality(S) + 1
    BY FS_AddElement
<1>2. /\ IsFiniteSet(S \ {x})
      /\ Cardinality(S \ {x}) = IF x \in S THEN Cardinality(S) - 1 ELSE Cardinality(S)
    BY FS_RemoveElement
<1>3. Cardinality(S) \in Nat /\ Cardinality(S \cup {x}) \in Nat /\ Cardinality(S \ {x}) \in Nat
    BY <1>1, <1>2, FS_CardinalityType
<1> QED
    BY <1>1, <1>2, <1>3

\* The state of the hasher keeps its type.
LEMMA TypeStep == ASSUME TypeOK, [Next]_vars PROVE TypeOK'
<1> USE ConstAssumption DEF TypeOK
<1>1. ASSUME NEW f \in Files, HashFile(f) PROVE TypeOK'
    BY <1>1 DEF HashFile, Signal
<1>2. ASSUME NEW files \in SUBSET Files, StopHashing(files) PROVE TypeOK'
    BY <1>2 DEF StopHashing
<1>3. ASSUME NEW p \in Pausers, PauserEnter(p) PROVE TypeOK'
    BY <1>3 DEF PauserEnter, PauserMode, Pause
<1>4. ASSUME NEW p \in Pausers, PauserLeave(p) PROVE TypeOK'
    BY <1>4 DEF PauserLeave, Resume
<1>5. CASE DialogLook
    BY <1>5 DEF DialogLook
<1>6. CASE DialogAct
    BY <1>6 DEF DialogAct, Resume, Pause
<1>7. CASE ScheduleRebuild
    BY <1>7 DEF ScheduleRebuild
<1>8. CASE Shutdown
    BY <1>8 DEF Shutdown
<1>9. ASSUME NEW flag \in {"rebuild", "stop"}, Send(flag) PROVE TypeOK'
    BY <1>9 DEF Send
<1>10. CASE Wake
    BY <1>10 DEF Wake, Wait
<1>11. CASE RebuildDone
    BY <1>11 DEF RebuildDone
<1>12. CASE InstantPause
    BY <1>12 DEF InstantPause, Hold
<1>13. CASE Released
    BY <1>13 DEF Released, Wait
<1>14. CASE FileDone
    BY <1>14 DEF FileDone
<1>15. CASE UNCHANGED vars
    BY <1>15 DEF vars
<1> QED
    BY <1>1, <1>2, <1>3, <1>4, <1>5, <1>6, <1>7, <1>8, <1>9, <1>10, <1>11, <1>12,
       <1>13, <1>14, <1>15 DEF Next

-----------------------------------------------------------------------------
\* A stop whose signals are unsent has been requested; with it NoLostWakeup is
\* inductive.
WakeupInv ==
    /\ TypeOK
    /\ NoLostWakeup
    /\ "stop" \in unsent => stop

\* No step lets the work grow without a signal for it, or takes a signal
\* without doing some of the work.
LEMMA WakeupStep == ASSUME WakeupInv, [Next]_vars PROVE NoLostWakeup'
<1> DEFINE c == Cardinality(w)
           n == Cardinality(unsent)
<1>1. TypeOK /\ TypeOK' /\ Work <= Tokens
    BY TypeStep DEF WakeupInv, NoLostWakeup
<1>2. /\ IsFiniteSet(w) /\ c \in Nat /\ c' \in Nat
      /\ IsFiniteSet(unsent) /\ n \in Nat /\ n' \in Nat
    BY <1>1, ConstAssumption, UnsentFinite, FS_Subset, FS_CardinalityType DEF TypeOK
<1> SUFFICES Work' <= Tokens'
    BY DEF NoLostWakeup
<1>3. ASSUME NEW f \in Files, HashFile(f) PROVE Work' <= Tokens'
    <2>1. c' <= c + 1
        BY <1>2, <1>3, CountOneMore DEF HashFile
    <2>2. n' = n /\ pc' = pc /\ rebuild' = rebuild /\ stop' = stop
        BY <1>3 DEF HashFile
    <2> QED
        BY <1>1, <1>2, <1>3, <2>1, <2>2 DEF HashFile, Signal, Work, Tokens, Count, TypeOK
<1>4. ASSUME NEW files \in SUBSET Files, StopHashing(files) PROVE Work' <= Tokens'
    <2>1. c' <= c
        BY <1>2, <1>4, FS_Subset DEF StopHashing
    <2> QED
        BY <1>1, <1>2, <1>4, <2>1 DEF StopHashing, Work, Tokens, Count, TypeOK
<1>5. ASSUME NEW p \in Pausers, PauserEnter(p) PROVE Work' <= Tokens'
    BY <1>1, <1>2, <1>5 DEF PauserEnter, Pause, Work, Tokens, Count, TypeOK
<1>6. ASSUME NEW p \in Pausers, PauserLeave(p) PROVE Work' <= Tokens'
    BY <1>1, <1>2, <1>6, ConstAssumption
       DEF PauserLeave, Resume, Work, Tokens, Count, TypeOK
<1>7. CASE DialogLook
    BY <1>1, <1>7 DEF DialogLook, Work, Tokens
<1>8. CASE DialogAct
    BY <1>1, <1>2, <1>8, ConstAssumption
       DEF DialogAct, Resume, Pause, Work, Tokens, Count, TypeOK
<1>9. CASE ScheduleRebuild
    <2>1. n' = n + 1
        BY <1>2, <1>9, CountOneMore DEF ScheduleRebuild
    <2> QED
        BY <1>1, <1>2, <1>9, <2>1 DEF ScheduleRebuild, Work, Tokens, Count, TypeOK
<1>10. CASE Shutdown
    <2>1. "stop" \notin unsent
        BY <1>10 DEF Shutdown, WakeupInv
    <2>2. n' = n + 1
        BY <1>2, <1>10, <2>1, CountOneMore DEF Shutdown
    <2> QED
        BY <1>1, <1>2, <1>10, <2>2 DEF Shutdown, Work, Tokens, Count, TypeOK
<1>11. ASSUME NEW flag \in {"rebuild", "stop"}, Send(flag) PROVE Work' <= Tokens'
    <2>1. n' = n - 1
        BY <1>2, <1>11, CountOneMore DEF Send
    <2> QED
        BY <1>1, <1>2, <1>11, <2>1 DEF Send, Work, Tokens, Count, TypeOK
<1>12. CASE Wake
    <2>1. /\ sem' = sem - 1 /\ pc = "wait"
          /\ paused' = paused /\ n' = n /\ rebuild' = rebuild /\ stop' = stop
        BY <1>12 DEF Wake, Wait
    <2>2. CASE stop /\ pc' = "done" /\ w' = w
        BY <1>1, <1>2, <2>1, <2>2 DEF Work, Tokens, Count, TypeOK
    <2>3. CASE ~stop /\ rebuild /\ pc' = "rebuilding" /\ w' = w
        BY <1>1, <1>2, <2>1, <2>3 DEF Work, Tokens, Count, TypeOK
    <2>4. CASE ~stop /\ ~rebuild /\ w = {} /\ pc' = pc /\ w' = w
        <3>1. c = 0 /\ c' = 0
            BY <2>4, FS_EmptySet
        <3>2. sem' \in Nat /\ paused \in Nat
            BY <1>1, <2>1 DEF TypeOK
        <3> QED
            BY <1>2, <2>1, <2>4, <3>1, <3>2 DEF Work, Tokens, Count
    <2>5. CASE ~stop /\ ~rebuild /\ pc' = "reading" /\ \E f \in w : w' = w \ {f}
        <3>1. c' = c - 1
            BY <1>2, <2>5, CountOneMore
        <3> QED
            BY <1>1, <1>2, <2>1, <2>5, <3>1 DEF Work, Tokens, Count, TypeOK
    <2> QED
        BY <1>12, <2>2, <2>3, <2>4, <2>5 DEF Wake
<1>13. CASE RebuildDone
    BY <1>1, <1>2, <1>13 DEF RebuildDone, Work, Tokens, Count, TypeOK
<1>14. CASE InstantPause
    BY <1>1, <1>2, <1>14 DEF InstantPause, Hold, Work, Tokens, Count, TypeOK
<1>15. CASE Released
    BY <1>1, <1>2, <1>15 DEF Released, Wait, Work, Tokens, Count, TypeOK
<1>16. CASE FileDone
    BY <1>1, <1>2, <1>16 DEF FileDone, Work, Tokens, Count, TypeOK
<1>17. CASE UNCHANGED vars
    BY <1>1, <1>17 DEF vars, Work, Tokens
<1> QED
    BY <1>3, <1>4, <1>5, <1>6, <1>7, <1>8, <1>9, <1>10, <1>11, <1>12, <1>13, <1>14,
       <1>15, <1>16, <1>17 DEF Next, WakeupInv

\* Nobody takes a stop request back, and its signals follow the flag.
LEMMA StopStep ==
    ASSUME WakeupInv, [Next]_vars PROVE ("stop" \in unsent => stop)'
<1>1. "stop" \in unsent => stop
    BY DEF WakeupInv
<1>2. ASSUME NEW flag \in {"rebuild", "stop"}, Send(flag) PROVE ("stop" \in unsent => stop)'
    BY <1>1, <1>2 DEF Send
<1>3. CASE ScheduleRebuild \/ Shutdown
    BY <1>1, <1>3 DEF ScheduleRebuild, Shutdown
<1>4. CASE unsent' = unsent /\ stop' = stop
    BY <1>1, <1>4
<1> QED
    BY <1>2, <1>3, <1>4
       DEF Next, vars, HashFile, StopHashing, PauserEnter, PauserLeave, DialogLook, DialogAct,
           Wake, RebuildDone, InstantPause, Released, FileDone

\* Type correctness and no lost wakeup: every file, rebuild, shutdown and held
\* thread has a signal of its own, for any number of files, HashPausers, dialog
\* clicks and any width of `paused' (Hasher::hashFile, resume, instantPause).
THEOREM NoLostWakeupTheorem == Spec => [](TypeOK /\ NoLostWakeup)
<1>1. Init => WakeupInv
    <2> SUFFICES ASSUME Init PROVE WakeupInv
        OBVIOUS
    <2>1. TypeOK
        BY ConstAssumption DEF Init, TypeOK
    <2>2. Cardinality(w) = 0 /\ Cardinality(unsent) = 0
        BY FS_EmptySet DEF Init
    <2> QED
        BY <2>1, <2>2 DEF Init, WakeupInv, NoLostWakeup, Work, Tokens, Count
<1>2. WakeupInv /\ [Next]_vars => WakeupInv'
    <2> SUFFICES ASSUME WakeupInv, [Next]_vars PROVE WakeupInv'
        OBVIOUS
    <2>1. TypeOK' /\ NoLostWakeup'
        BY TypeStep, WakeupStep DEF WakeupInv
    <2>2. ("stop" \in unsent => stop)'
        BY StopStep
    <2> QED
        BY <2>1, <2>2 DEF WakeupInv
<1>3. WakeupInv => TypeOK /\ NoLostWakeup
    BY DEF WakeupInv
<1> QED
    BY <1>1, <1>2, <1>3, PTL DEF Spec

-----------------------------------------------------------------------------
\* While the dialog is closed nobody but HashPausers touches the pause.
OwnerInv == TypeOK /\ PausedHasOwner

\* The first HashPauser to come is the one that resumes; those that come while
\* it is alive will not.
LEMMA OwnerStep ==
    ASSUME OwnerInv, [Next]_vars
    PROVE  PausedHasOwner'
<1> SUFFICES ASSUME dialog' = "closed" PROVE PausedHasOwner'
    BY DEF PausedHasOwner
<1>0. dialog = "closed" /\ ~DialogLook /\ ~DialogAct
    <2>1. ~DialogLook /\ ~DialogAct
        BY DEF DialogLook, DialogAct
    <2> QED
        BY <2>1 DEF Next, vars, HashFile, StopHashing, PauserEnter, PauserLeave, ScheduleRebuild,
                    Shutdown, Send, Wake, RebuildDone, InstantPause, Released, FileDone
<1>1. /\ paused \in Nat /\ paused' \in Nat
      /\ pausers \in [Pausers -> {"none", "owner", "guest"}]
    BY TypeStep DEF OwnerInv, TypeOK
<1>2. /\ paused > 0 <=> \E p \in Pausers : pausers[p] = "owner"
      /\ \A p, q \in Pausers : pausers[p] = "owner" /\ pausers[q] = "owner" => p = q
    BY <1>0 DEF OwnerInv, PausedHasOwner
<1>3. ASSUME NEW p \in Pausers, PauserEnter(p) PROVE PausedHasOwner'
    <2>1. /\ paused' > 0
          /\ pausers' = [pausers EXCEPT ![p] = PauserMode]
        BY <1>1, <1>3 DEF PauserEnter, Pause
    <2>2. CASE paused = 0
        <3>1. pausers' = [pausers EXCEPT ![p] = "owner"]
            BY <2>1, <2>2 DEF PauserMode
        <3>2. \A q \in Pausers : pausers'[q] = "owner" <=> q = p
            BY <1>1, <1>2, <2>2, <3>1
        <3> QED
            BY <2>1, <3>2 DEF PausedHasOwner
    <2>3. CASE paused # 0
        <3>1. pausers' = [pausers EXCEPT ![p] = "guest"]
            BY <2>1, <2>3 DEF PauserMode
        <3>2. pausers[p] = "none"
            BY <1>3 DEF PauserEnter
        <3>3. \A q \in Pausers : pausers'[q] = "owner" <=> pausers[q] = "owner"
            BY <1>1, <3>1, <3>2
        <3>4. paused > 0
            BY <1>1, <2>3
        <3> QED
            BY <1>2, <2>1, <3>3, <3>4 DEF PausedHasOwner
    <2> QED
        BY <2>2, <2>3
<1>4. ASSUME NEW p \in Pausers, PauserLeave(p) PROVE PausedHasOwner'
    <2>1. pausers' = [pausers EXCEPT ![p] = "none"]
        BY <1>4 DEF PauserLeave
    <2>2. CASE pausers[p] = "owner"
        <3>1. paused' = 0
            BY <1>4, <2>2 DEF PauserLeave, Resume
        <3>2. \A q \in Pausers : pausers'[q] # "owner"
            BY <1>1, <1>2, <2>1, <2>2
        <3> QED
            BY <2>1, <3>1, <3>2 DEF PausedHasOwner
    <2>3. CASE pausers[p] # "owner"
        <3>1. paused' = paused
            BY <1>4, <2>3 DEF PauserLeave
        <3>2. \A q \in Pausers : pausers'[q] = "owner" <=> pausers[q] = "owner"
            BY <1>1, <2>1, <2>3
        <3> QED
            BY <1>2, <2>1, <3>1, <3>2 DEF PausedHasOwner
    <2> QED
        BY <2>2, <2>3
<1>5. ASSUME pausers' = pausers, dialog' = dialog, paused' > 0 <=> paused > 0
      PROVE  PausedHasOwner'
    BY <1>2, <1>5 DEF PausedHasOwner
<1>6. ASSUME NEW f \in Files, HashFile(f) PROVE PausedHasOwner'
    <2>1. paused' > 0 <=> paused > 0
        BY <1>1, <1>6 DEF HashFile, Signal
    <2> QED
        BY <1>5, <1>6, <2>1 DEF HashFile
<1>7. CASE InstantPause
    <2>1. paused' > 0 <=> paused > 0
        BY <1>1, <1>7 DEF InstantPause, Hold
    <2> QED
        BY <1>5, <1>7, <2>1 DEF InstantPause
<1>8. CASE paused' = paused /\ pausers' = pausers /\ dialog' = dialog
    BY <1>5, <1>8
<1> QED
    BY <1>0, <1>3, <1>4, <1>6, <1>7, <1>8
       DEF Next, vars, StopHashing, ScheduleRebuild, Shutdown, Send, Wake, RebuildDone,
           Released, FileDone

\* Unless the dialog is used a pause has exactly one HashPauser that will undo it, so
\* hashing never stays paused and resume() never meets a counter of zero
\* (HashPauser and Hasher::pause).
THEOREM PausedHasOwnerTheorem == Spec => []PausedHasOwner
<1>1. Init => OwnerInv
    <2> SUFFICES ASSUME Init PROVE OwnerInv
        OBVIOUS
    <2>1. TypeOK
        BY ConstAssumption DEF Init, TypeOK
    <2> QED
        BY <2>1 DEF Init, OwnerInv, PausedHasOwner
<1>2. OwnerInv /\ [Next]_vars => OwnerInv'
    <2> SUFFICES ASSUME OwnerInv, [Next]_vars PROVE OwnerInv'
        OBVIOUS
    <2>1. TypeOK'
        BY TypeStep DEF OwnerInv
    <2>2. PausedHasOwner'
        BY OwnerStep
    <2> QED
        BY <2>1, <2>2 DEF OwnerInv
<1>3. OwnerInv => PausedHasOwner
    BY DEF OwnerInv
<1> QED
    BY <1>1, <1>2, <1>3, PTL DEF Spec
=============================================================================
