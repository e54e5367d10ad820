------------------------------- MODULE Hasher -------------------------------
(***************************************************************************)
(* HashManager::Hasher: the thread that hashes shared files one after the  *)
(* other, the semaphore that wakes it, and the ways to pause it.           *)
(*                                                                         *)
(* Every queued file stands for one signal of the semaphore `s'.  While    *)
(* hashing is paused a signal is not sent but counted in `paused', whose   *)
(* first unit is the pause itself; resume() sends what was held back.      *)
(* The thread also waits on `s' inside a file (instantPause), shutdown and *)
(* rebuild signal it as well, and HashPauser objects of several threads    *)
(* and the indexing dialog pause and resume independently.                 *)
(***************************************************************************)
EXTENDS Integers, FiniteSets

CONSTANTS
    Files,        \* BOUND: the files handed to the hasher, each of them once
    Pausers,      \* the threads that construct HashPausers (refresh, share edits)
    Dialog,       \* the indexing dialog with its pause/resume button may be open
    UnsignedMax,  \* the largest `unsigned': 2^32 - 1
    MaxRebuilds,  \* BOUND: rebuild requests
    MaxSignals    \* BOUND: no new pause is requested with this many signals

ASSUME ConstAssumption ==
    /\ IsFiniteSet(Files)
    /\ Dialog \in BOOLEAN
    /\ UnsignedMax \in Nat \ {0}
    /\ MaxRebuilds \in Nat
    /\ MaxSignals \in Nat

VARIABLES
    unseen,    \* the files that have not been handed over yet
    w,         \* Hasher::w, the files that wait
    sem,       \* the count of Semaphore s
    paused,    \* Hasher::paused
    rebuild,   \* Hasher::rebuild
    stop,      \* Hasher::stop
    unsent,    \* the flags set by a caller that has not signalled yet
    pc,        \* where the thread is
    pausers,   \* the HashPauser each thread has: none, or one that will resume or not
    dialog,    \* the dialog: closed, idle, or what isHashingPaused() told it to do
    rebuilds   \* how much of MaxRebuilds is used up

vars == <<unseen, w, sem, paused, rebuild, stop, unsent, pc, pausers, dialog, rebuilds>>

Init ==
    /\ unseen = Files /\ w = {}
    /\ sem = 0 /\ paused = 0
    /\ rebuild = FALSE /\ stop = FALSE /\ unsent = {}
    /\ pc = "wait"
    /\ pausers = [p \in Pausers |-> "none"]
    /\ dialog \in {"closed"} \cup (IF Dialog THEN {"idle"} ELSE {})
    /\ rebuilds = 0

-----------------------------------------------------------------------------
(* The callers, each holding Hasher::cs, except shutdown and               *)
(* scheduleRebuild, which hold nothing: flag and signals are two steps.    *)

\* Mutant: the signal of a file that arrives during a pause is not kept.
SignalUnlessPaused ==
    IF paused > 0 THEN UNCHANGED <<sem, paused>>
    ELSE sem' = sem + 1 /\ UNCHANGED paused

Signal ==
    IF paused > 0 THEN paused' = paused + 1 /\ UNCHANGED sem
    ELSE sem' = sem + 1 /\ UNCHANGED paused

HashFile(f) ==
    /\ f \in unseen
    /\ unseen' = unseen \ {f}
    /\ w' = w \cup {f}
    /\ Signal
    /\ UNCHANGED <<rebuild, stop, unsent, pc, pausers, dialog, rebuilds>>

\* The files under baseDir are dropped; their signals are not taken back.
StopHashing(files) ==
    /\ files \cap w # {}
    /\ w' = w \ files
    /\ UNCHANGED <<unseen, sem, paused, rebuild, stop, unsent, pc, pausers, dialog, rebuilds>>

Pause == sem + paused < MaxSignals /\ paused' = paused + 1

\* while(--paused > 0) s.signal(): an unsigned counter, which wraps at 0.
Resume ==
    /\ paused' = 0
    /\ sem' = IF paused = 0 THEN sem + UnsignedMax ELSE sem + paused - 1

\* Mutant: every HashPauser resumes.
PauserModeAlways == "owner"

\* What HashPauser() remembers: whether it will resume.
PauserMode == IF paused = 0 THEN "owner" ELSE "guest"

PauserEnter(p) ==
    /\ pausers[p] = "none"
    /\ pausers' = [pausers EXCEPT ![p] = PauserMode]
    /\ Pause
    /\ UNCHANGED <<unseen, w, sem, rebuild, stop, unsent, pc, dialog, rebuilds>>

PauserLeave(p) ==
    /\ pausers[p] # "none"
    /\ pausers' = [pausers EXCEPT ![p] = "none"]
    /\ IF pausers[p] = "owner" THEN Resume ELSE UNCHANGED <<sem, paused>>
    /\ UNCHANGED <<unseen, w, rebuild, stop, unsent, pc, dialog, rebuilds>>

\* HashProgressDlg::handlePauseResume: two calls, the lock released in between.
\* The dialog is gone when its own thread shuts the client down.
DialogLook ==
    /\ dialog = "idle" /\ ~stop
    /\ dialog' = IF paused > 0 THEN "resume" ELSE "pause"
    /\ UNCHANGED <<unseen, w, sem, paused, rebuild, stop, unsent, pc, pausers, rebuilds>>

DialogAct ==
    /\ dialog' = "idle"
    /\ \/ dialog = "resume" /\ Resume
       \/ dialog = "pause" /\ Pause /\ UNCHANGED sem
    /\ UNCHANGED <<unseen, w, rebuild, stop, unsent, pc, pausers, rebuilds>>

ScheduleRebuild ==
    /\ rebuilds < MaxRebuilds /\ rebuilds' = rebuilds + 1
    /\ "rebuild" \notin unsent
    /\ rebuild' = TRUE
    /\ unsent' = unsent \cup {"rebuild"}
    /\ UNCHANGED <<unseen, w, sem, paused, stop, pc, pausers, dialog>>

Shutdown ==
    /\ ~stop /\ dialog \in {"closed", "idle"}
    /\ stop' = TRUE
    /\ unsent' = unsent \cup {"stop"}
    /\ UNCHANGED <<unseen, w, sem, paused, rebuild, pc, pausers, dialog, rebuilds>>

\* Mutant: the flag is set and nobody is signalled.
SendOne(flag) ==
    /\ flag \in unsent
    /\ unsent' = unsent \ {flag}
    /\ sem' = sem
    /\ UNCHANGED <<unseen, w, paused, rebuild, stop, pc, pausers, dialog, rebuilds>>

\* "if(paused) s.signal(); s.signal();"
Send(flag) ==
    /\ flag \in unsent
    /\ unsent' = unsent \ {flag}
    /\ sem' = sem + (IF paused > 0 THEN 2 ELSE 1)
    /\ UNCHANGED <<unseen, w, paused, rebuild, stop, pc, pausers, dialog, rebuilds>>

-----------------------------------------------------------------------------
(* Hasher::run                                                             *)

\* Mutant: an event that stays signalled instead of a semaphore.
WaitEvent == sem > 0 /\ UNCHANGED sem

Wait == sem > 0 /\ sem' = sem - 1

\* s.wait() in the main loop, and what the thread then finds to do.
Wake ==
    /\ pc = "wait"
    /\ Wait
    /\ \/ stop /\ pc' = "done" /\ UNCHANGED w
       \/ ~stop /\ rebuild /\ pc' = "rebuilding" /\ UNCHANGED w
       \/ ~stop /\ ~rebuild /\ w = {} /\ UNCHANGED <<pc, w>>
       \/ ~stop /\ ~rebuild /\ pc' = "reading" /\ \E f \in w : w' = w \ {f}
    /\ UNCHANGED <<unseen, paused, rebuild, stop, unsent, pausers, dialog, rebuilds>>

\* doRebuild() holds HashManager::cs and is over; the flag is cleared after it.
RebuildDone ==
    /\ pc = "rebuilding"
    /\ pc' = "wait"
    /\ rebuild' = FALSE
    /\ UNCHANGED <<unseen, w, sem, paused, stop, unsent, pausers, dialog, rebuilds>>

\* Mutant: the pause inside a file is not counted.
HoldUncounted == paused > 0 /\ UNCHANGED paused

Hold == paused > 0 /\ paused' = paused + 1

\* instantPause() after a chunk of the file, its critical section ...
InstantPause ==
    /\ pc = "reading"
    /\ Hold
    /\ pc' = "held"
    /\ UNCHANGED <<unseen, w, sem, rebuild, stop, unsent, pausers, dialog, rebuilds>>

\* ... and its s.wait(); the reader goes on unless the client is stopping.
Released ==
    /\ pc = "held"
    /\ Wait
    /\ pc' = IF stop THEN "wait" ELSE "reading"
    /\ UNCHANGED <<unseen, w, paused, rebuild, stop, unsent, pausers, dialog, rebuilds>>

\* The file has been read, could not be opened, or the client is stopping.
FileDone ==
    /\ pc = "reading"
    /\ pc' = "wait"
    /\ UNCHANGED <<unseen, w, sem, paused, rebuild, stop, unsent, pausers, dialog, rebuilds>>

-----------------------------------------------------------------------------
Next ==
    \/ \E f \in Files : HashFile(f)
    \/ \E files \in SUBSET Files : StopHashing(files)
    \/ \E p \in Pausers : PauserEnter(p) \/ PauserLeave(p)
    \/ DialogLook \/ DialogAct
    \/ ScheduleRebuild \/ Shutdown
    \/ \E flag \in {"rebuild", "stop"} : Send(flag)
    \/ Wake \/ RebuildDone \/ InstantPause \/ Released \/ FileDone

Spec == Init /\ [][Next]_vars

\* The hasher thread runs, a file has finitely many chunks (it may be paused
\* after each, hence the strong fairness), a caller in the middle of a call returns from it and
\* the scope of a HashPauser ends.  Nobody has to press the dialog's button.
Fairness ==
    /\ WF_vars(Wake) /\ WF_vars(RebuildDone) /\ WF_vars(Released)
    /\ SF_vars(FileDone)
    /\ \A flag \in {"rebuild", "stop"} : WF_vars(Send(flag))
    /\ \A p \in Pausers : WF_vars(PauserLeave(p))

FairSpec == Spec /\ Fairness

-----------------------------------------------------------------------------
(* Properties                                                              *)

TypeOK ==
    /\ unseen \subseteq Files /\ w \subseteq Files
    /\ sem \in Nat /\ paused \in Nat
    /\ rebuild \in BOOLEAN /\ stop \in BOOLEAN
    /\ unsent \subseteq {"rebuild", "stop"}
    /\ pc \in {"wait", "reading", "held", "rebuilding", "done"}
    /\ pausers \in [Pausers -> {"none", "owner", "guest"}]
    /\ dialog \in {"closed", "idle", "pause", "resume"}
    /\ rebuilds \in Nat

Count(b) == IF b THEN 1 ELSE 0

\* What the thread has still to be woken for, and the signals that are there or
\* on their way: in the semaphore, held back by the pause, about to be sent.
Work   == Cardinality(w) + Count(rebuild /\ pc # "rebuilding")
          + Count(stop /\ pc # "done") + Count(pc = "held")
Tokens == sem + (IF paused > 0 THEN paused - 1 ELSE 0) + Cardinality(unsent)

\* No wakeup is lost, however pauses, resumes, files, rebuilds and the shutdown
\* interleave: every queued file, a requested rebuild, the shutdown and a thread
\* held inside a file each have a signal of their own (hashFile, instantPause,
\* resume, scheduleRebuild and shutdown all share Semaphore s).
NoLostWakeup == Work <= Tokens

\* Unless the dialog interferes, hashing is paused exactly while one HashPauser
\* that will resume it is alive: no pause is left behind and no resume() meets a
\* counter of zero, where the unsigned counter would wrap (HashPauser uses
\* pause()'s return value).
PausedHasOwner ==
    dialog = "closed" =>
        /\ paused > 0 <=> \E p \in Pausers : pausers[p] = "owner"
        /\ \A p, q \in Pausers : pausers[p] = "owner" /\ pausers[q] = "owner" => p = q

\* A queued file is taken up (or dropped), the pauses of HashPausers
\* notwithstanding; the dialog may pause hashing for ever.
FilesTakenUp == \A f \in Files : (f \in w /\ dialog = "closed") ~> (f \notin w \/ stop)

\* A pause comes into effect although the semaphore may hold signals then.
PauseTakesEffect == paused > 0 ~> (paused = 0 \/ (sem = 0 /\ pc \in {"wait", "held"}) \/ stop)

\* shutdown() is followed by the end of the thread, so join() returns, even if
\* a pause comes between the flag and the signals.
ShutdownEnds == stop ~> pc = "done"
=============================================================================
