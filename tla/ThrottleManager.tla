-------------------------- MODULE ThrottleManager --------------------------
(***************************************************************************)
(* ThrottleManager (ThrottleManager.cpp): token buckets for downloads and   *)
(* uploads, refilled by the timer, and the gate at which transfer threads   *)
(* wait for the next refill.  The gate is a pair of mutexes.  The timer     *)
(* always holds the one that threads without a token try to pass; once a    *)
(* second it takes the other, makes it the active one and lets the first    *)
(* go.  Thread c is one of the socket threads of BufferedSocket, which      *)
(* composes these actions; DownloadManager and UploadManager supply the     *)
(* number of transfers, SettingsManager the limits.                         *)
(***************************************************************************)
EXTENDS Integers, FiniteSets, TLC

CONSTANTS
    Conns,       \* connections, each with its socket thread
    Uploads,     \* those that send files; the others receive them
    Limit,       \* the limit of both directions, in units of transferred data
    MaxLen       \* bound: the most that one call tries to transfer

ASSUME ThrottleAssumption ==
    /\ Uploads \subseteq Conns
    /\ Limit \in Nat /\ MaxLen \in Nat \ {0}

VARIABLES
    activeWaiter,  \* the mutex to wait at, -1 while not throttling
    held,          \* the mutexes of waitCS that the timer holds
    tokens,        \* downTokens and upTokens
    second,        \* the timer's place in on(Second): sections it has left
    timerOn,       \* the timer thread runs
    place,         \* each thread's place in read, write and waitToken
    gate           \* the mutex each thread in waitToken has chosen

throttleVars == <<activeWaiter, held, tokens, second, timerOn, place, gate>>

Dirs == {"down", "up"}
Dir(c) == IF c \in Uploads THEN "up" ELSE "down"

ThrottleInit ==
    /\ activeWaiter = -1 /\ held = {}
    /\ tokens = [d \in Dirs |-> 0]
    /\ second = 0 /\ timerOn = TRUE
    /\ place = [c \in Conns |-> "out"]
    /\ gate = [c \in Conns |-> -1]

-----------------------------------------------------------------------------
(* The transfer threads: read and write                                    *)

\* read or write finds that this transfer is to be limited.  (If not, because
\* the setting or the number of transfers is 0, the call is the socket's own.)
Limited(c) ==
    /\ place[c] = "out" /\ activeWaiter # -1
    /\ place' = [place EXCEPT ![c] = "token"]
    /\ UNCHANGED <<activeWaiter, held, tokens, second, timerOn, gate>>

\* Mutant: the slice is not limited by what is left.
SliceOfAnything(c) == 1 .. MaxLen

\* How much a thread may take: its share, what it has to transfer and what is
\* left, whichever is least.
Slice(c) == {n \in 1 .. MaxLen : n <= tokens[Dir(c)]}

TakeToken(c) ==
    /\ place[c] = "token" /\ tokens[Dir(c)] > 0
    /\ \E n \in Slice(c) : tokens' = [tokens EXCEPT ![Dir(c)] = @ - n]
    /\ place' = [place EXCEPT ![c] = "out"]
    /\ UNCHANGED <<activeWaiter, held, second, timerOn, gate>>

\* The socket turns out to be closed when it is read with a token.
ReadFails(c) ==
    /\ place[c] = "token" /\ tokens[Dir(c)] > 0 /\ Dir(c) = "down"
    /\ place' = [place EXCEPT ![c] = "out"]
    /\ UNCHANGED <<activeWaiter, held, tokens, second, timerOn, gate>>

\* No token; or, when reading, nothing to read although there was one.
NoToken(c) ==
    /\ place[c] = "token"
    /\ tokens[Dir(c)] = 0 \/ Dir(c) = "down"
    /\ place' = [place EXCEPT ![c] = "wait"]
    /\ UNCHANGED <<activeWaiter, held, tokens, second, timerOn, gate>>

\* waitToken reads activeWaiter under stateCS and lets stateCS go.
WaitToken(c) ==
    /\ place[c] = "wait"
    /\ place' = [place EXCEPT ![c] = IF activeWaiter = -1 THEN "out" ELSE "gate"]
    /\ gate' = [gate EXCEPT ![c] = activeWaiter]
    /\ UNCHANGED <<activeWaiter, held, tokens, second, timerOn>>

\* It locks the mutex it chose and lets it go at once.
PassGate(c) ==
    /\ place[c] = "gate" /\ gate[c] \notin held
    /\ place' = [place EXCEPT ![c] = "out"]
    /\ gate' = [gate EXCEPT ![c] = -1]
    /\ UNCHANGED <<activeWaiter, held, tokens, second, timerOn>>

-----------------------------------------------------------------------------
(* The timer: on(Second)                                                   *)

\* The first second starts the throttling.
SecondStarts ==
    /\ timerOn /\ second = 0
    /\ second' = 1
    /\ IF activeWaiter = -1
       THEN activeWaiter' = 0 /\ held' = held \cup {0}
       ELSE UNCHANGED <<activeWaiter, held>>
    /\ UNCHANGED <<tokens, timerOn, place, gate>>

\* Tokens are refilled, first for downloads, then for uploads: two critical
\* sections, but no thread takes tokens of both kinds, so they are one step here.
Refill ==
    /\ second = 1 /\ second' = 2
    /\ tokens' = [d \in Dirs |-> Limit]
    /\ UNCHANGED <<activeWaiter, held, timerOn, place, gate>>

\* Mutant: the mutex the threads wait at is not let go.
SwitchKeepsBoth ==
    /\ second = 2 /\ second' = 0
    /\ activeWaiter' = 1 - activeWaiter
    /\ held' = held \cup {1 - activeWaiter}
    /\ UNCHANGED <<tokens, timerOn, place, gate>>

\* The other mutex becomes the one to wait at.
Switch ==
    /\ second = 2 /\ second' = 0
    /\ activeWaiter' = 1 - activeWaiter
    /\ held' = (held \cup {1 - activeWaiter}) \ {activeWaiter}
    /\ UNCHANGED <<tokens, timerOn, place, gate>>

Second == SecondStarts \/ Refill \/ Switch

-----------------------------------------------------------------------------
(* The shutdown, in the main thread                                        *)

\* TimerManager::shutdown lets a handler that is running come to its end.
StopTimer ==
    /\ timerOn /\ second = 0
    /\ timerOn' = FALSE
    /\ UNCHANGED <<activeWaiter, held, tokens, second, place, gate>>

\* Mutant: throttling is switched off, but nobody lets the mutex go.
ShutdownOnlyOff ==
    /\ activeWaiter' = -1
    /\ UNCHANGED <<held, tokens, second, timerOn, place, gate>>

\* ThrottleManager::shutdown.  (The mutexes are unlocked by another thread than
\* locked them, which the implementation of recursive_mutex for Windows allows.)
Shutdown ==
    /\ activeWaiter' = -1
    /\ held' = held \ {activeWaiter}
    /\ UNCHANGED <<tokens, second, timerOn, place, gate>>

-----------------------------------------------------------------------------
(* Properties                                                              *)

ThrottleTypeOK ==
    /\ activeWaiter \in {-1, 0, 1} /\ held \subseteq {0, 1}
    /\ tokens \in [Dirs -> 0 .. Limit]
    /\ second \in 0 .. 2 /\ timerOn \in BOOLEAN
    /\ place \in [Conns -> {"out", "token", "wait", "gate"}]
    /\ gate \in [Conns -> {-1, 0, 1}]

\* Between the steps of the timer and of the shutdown exactly the mutex that
\* activeWaiter names is held, and none when it names none: whoever chose the
\* other one, however long ago, falls through, and nobody can be left at a mutex
\* that no further second and no shutdown will release.
OneGateClosed ==
    /\ held = {activeWaiter} \ {-1}
    /\ \A c \in Conns : place[c] = "gate" => gate[c] \in {0, 1}
=============================================================================
