------------------------- MODULE UploadManagerProof -------------------------
(***************************************************************************)
(* The slots of UploadManager, for any number of users, connections, slots *)
(* and races: running and extra are exact until two updates of a counter   *)
(* overlap, and notifyQueuedUsers never calls more users than there are    *)
(* slots.  And its two waiting lists: they are about the same users, none  *)
(* of whom holds a slot.                                                   *)
(***************************************************************************)
EXTENDS UploadManager, FiniteSetTheorems, TLAPS

\* The part of the type invariant the counters need.
Types ==
    /\ st \in [Conns -> {"closed", "get", "opening", "send", "running", "failed",
                         "removing"}]
    /\ hasSlot \subseteq Conns /\ hasExtra \subseteq Conns
    /\ decision \in [Conns -> {"none", "kept", "full", "extra"}]
    /\ running \in Int /\ extra \in Int
    /\ todo \in [Conns -> SUBSET Cells]
    /\ reg \in [Conns -> [cell : Cells, value : Int] \cup {NoReg}]
    /\ overlaps \in Nat

\* Who is being removed has no flag left and only he has something to
\* decrement; who was promised a slot has none.
Phases ==
    \A c \in Conns :
       /\ st[c] # "removing" => todo[c] = {} /\ reg[c] = NoReg
       /\ st[c] = "removing" => c \notin hasSlot /\ c \notin hasExtra
       /\ reg[c] # NoReg => reg[c].cell \in todo[c]
       /\ st[c] = "opening" /\ decision[c] \in {"full", "extra"} => c \notin hasSlot

Value(cell) == IF cell = "running" THEN running ELSE extra

\* Until updates overlap, a loaded counter is still what was loaded, and nobody
\* else has loaded it.
Loaded ==
    overlaps = 0 => \A c \in Conns : reg[c] # NoReg =>
        /\ reg[c].value = Value(reg[c].cell)
        /\ \A d \in Conns : reg[d] # NoReg /\ reg[d].cell = reg[c].cell => d = c

SlotInv == Types /\ Phases /\ Loaded /\ SlotsCounted

-----------------------------------------------------------------------------
\* Adding to and taking from a set of connections, as numbers.
LEMMA CountConns ==
    ASSUME NEW S \in SUBSET Conns, NEW c \in Conns
    PROVE  /\ Cardinality(S) \in Nat
           /\ c \notin S => Cardinality(S \cup {c}) = Cardinality(S) + 1
           /\ c \in S => Cardinality(S \ {c}) = Cardinality(S) - 1
<1>1. IsFiniteSet(S)
    BY ConstAssumption, FS_Subset
<1>2. Cardinality(S) \in Nat
    BY <1>1, FS_CardinalityType
<1>3. Cardinality(S \cup {c}) = IF c \in S THEN Cardinality(S) ELSE Cardinality(S) + 1
    BY <1>1, FS_AddElement
<1>4. Cardinality(S \ {c}) = IF c \in S THEN Cardinality(S) - 1 ELSE Cardinality(S)
    BY <1>1, FS_RemoveElement
<1> QED
    BY <1>2, <1>3, <1>4

\* Steps that leave flags and counters alone and move a connection between
\* states in which it has nothing to decrement.
LEMMA Uncounted ==
    ASSUME SlotInv, Types', Phases', UNCHANGED <<counters, hasSlot, hasExtra>>
    PROVE  SlotInv'
<1>1. Loaded'
    BY DEF SlotInv, Loaded, Value, counters
<1>2. SlotsCounted'
    BY DEF SlotInv, SlotsCounted, CountedIn, counters
<1> QED
    BY <1>1, <1>2 DEF SlotInv

\* Count without a race only changes what its caller says.
LEMMA CountAlone ==
    ASSUME Types, NEW cells \in SUBSET Cells, NEW lost, Count(cells, lost)
    PROVE  /\ overlaps' \in Nat /\ todo' \in [Conns -> SUBSET Cells]
           /\ reg' \in [Conns -> [cell : Cells, value : Int] \cup {NoReg}]
           /\ \A d \in Conns : todo'[d] \in {todo[d], todo[d] \ {reg[d].cell}}
           /\ \A d \in Conns : reg'[d] = NoReg \/ (reg'[d] = reg[d] /\ todo'[d] = todo[d])
           /\ overlaps' = 0 => /\ overlaps = 0 /\ todo' = todo /\ reg' = reg
                               /\ \A d \in Conns : reg[d].cell \notin cells
<1>1. overlaps' \in Nat /\ todo' \in [Conns -> SUBSET Cells]
    BY DEF Types, Count
<1>2. reg' \in [Conns -> [cell : Cells, value : Int] \cup {NoReg}]
    BY DEF Types, Count
<1>3. \A d \in Conns : todo'[d] \in {todo[d], todo[d] \ {reg[d].cell}}
    BY DEF Types, Count
<1>4. \A d \in Conns : reg'[d] = NoReg \/ (reg'[d] = reg[d] /\ todo'[d] = todo[d])
    <2> SUFFICES ASSUME NEW d \in Conns
                 PROVE  reg'[d] = NoReg \/ (reg'[d] = reg[d] /\ todo'[d] = todo[d])
        OBVIOUS
    <2>1. /\ reg'[d] = IF d \in lost THEN NoReg ELSE reg[d]
          /\ todo'[d] = IF d \in lost THEN todo[d] \ {reg[d].cell} ELSE todo[d]
        BY DEF Count
    <2>2. CASE d \in lost
        BY <2>1, <2>2
    <2>3. CASE d \notin lost
        BY <2>1, <2>3
    <2> QED
        BY <2>2, <2>3
<1>5. ASSUME overlaps' = 0
      PROVE  /\ overlaps = 0 /\ todo' = todo /\ reg' = reg
             /\ \A d \in Conns : reg[d].cell \notin cells
    <2>1. overlaps = 0 /\ \A cell \in cells : Racing(cell) = {}
        BY <1>5 DEF Types, Count
    <2>2. lost = {}
        BY <2>1 DEF Count
    <2>3. todo' = todo /\ reg' = reg
        BY <2>2 DEF Count, Types
    <2>4. \A d \in Conns : reg[d].cell \notin cells
        BY <2>1 DEF Racing
    <2> QED
        BY <2>1, <2>3, <2>4
<1> QED
    BY <1>1, <1>2, <1>3, <1>4, <1>5

-----------------------------------------------------------------------------
\* The grant of a full slot.
LEMMA GrantFullStep ==
    ASSUME SlotInv, NEW c \in Conns, NEW lost, st[c] = "opening", GrantFull(c, lost),
           NEW s \in {"send", "running"}, Goto(c, s),
           decision' = [decision EXCEPT ![c] = "none"]
    PROVE  SlotInv'
<1> DEFINE cells == {"running"} \cup (IF c \in hasExtra THEN {"extra"} ELSE {})
<1>1. cells \in SUBSET Cells /\ Count(cells, lost)
    BY DEF GrantFull, Cells
<1>2. c \notin hasSlot /\ todo[c] = {} /\ reg[c] = NoReg
    BY DEF SlotInv, Phases, Types, GrantFull
<1>3. /\ overlaps' \in Nat /\ todo' \in [Conns -> SUBSET Cells]
      /\ reg' \in [Conns -> [cell : Cells, value : Int] \cup {NoReg}]
      /\ \A d \in Conns : todo'[d] \in {todo[d], todo[d] \ {reg[d].cell}}
      /\ \A d \in Conns : reg'[d] = NoReg \/ (reg'[d] = reg[d] /\ todo'[d] = todo[d])
      /\ overlaps' = 0 => /\ overlaps = 0 /\ todo' = todo /\ reg' = reg
                          /\ \A d \in Conns : reg[d].cell \notin cells
    <2> HIDE DEF cells
    <2> QED
        BY <1>1, CountAlone DEF SlotInv
<1>4. Types'
    <2>1. st' \in [Conns -> {"closed", "get", "opening", "send", "running", "failed",
                             "removing"}]
        BY DEF SlotInv, Types, Goto
    <2>2. decision' \in [Conns -> {"none", "kept", "full", "extra"}]
        BY DEF SlotInv, Types
    <2>3. /\ hasSlot' \subseteq Conns /\ hasExtra' \subseteq Conns
          /\ running' \in Int /\ extra' \in Int
        BY DEF SlotInv, Types, GrantFull
    <2> QED
        BY <2>1, <2>2, <2>3, <1>3 DEF Types
<1>5. Phases'
    BY <1>2, <1>3 DEF SlotInv, Types, Phases, GrantFull, Goto
<1>6. Loaded'
    <2>1. CASE c \in hasExtra
        BY <2>1, <1>3 DEF SlotInv, Types, Loaded, GrantFull, Value, Cells
    <2>2. CASE c \notin hasExtra
        BY <2>2, <1>3 DEF SlotInv, Types, Loaded, GrantFull, Value, Cells
    <2> QED
        BY <2>1, <2>2
<1>7. ASSUME overlaps' = 0
      PROVE  /\ running' = Cardinality(CountedIn("running", hasSlot))'
             /\ extra' = Cardinality(CountedIn("extra", hasExtra))'
    <2>1. overlaps = 0 /\ todo' = todo
        BY <1>3, <1>7
    <2>2. CountedIn("running", hasSlot)' = CountedIn("running", hasSlot) \cup {c}
        BY <2>1 DEF CountedIn, GrantFull
    <2>3. c \notin CountedIn("running", hasSlot) /\ CountedIn("running", hasSlot) \subseteq Conns
        BY <1>2 DEF CountedIn, SlotInv, Types
    <2>4. running' = Cardinality(CountedIn("running", hasSlot))'
        <3>1. Cardinality(CountedIn("running", hasSlot) \cup {c})
                = Cardinality(CountedIn("running", hasSlot)) + 1
            BY <2>3, CountConns
        <3> QED
            BY <3>1, <2>1, <2>2 DEF SlotInv, SlotsCounted, GrantFull
    <2>5. CountedIn("extra", hasExtra)' = CountedIn("extra", hasExtra) \ {c}
        BY <1>2, <2>1 DEF CountedIn, GrantFull
    <2>6. CountedIn("extra", hasExtra) \subseteq Conns
          /\ (c \in CountedIn("extra", hasExtra) <=> c \in hasExtra)
        BY <1>2 DEF CountedIn, SlotInv, Types
    <2>7. extra' = Cardinality(CountedIn("extra", hasExtra))'
        <3>1. CASE c \in hasExtra
            BY <3>1, <2>1, <2>5, <2>6, CountConns DEF SlotInv, SlotsCounted, GrantFull
        <3>2. CASE c \notin hasExtra
            <4>1. CountedIn("extra", hasExtra) \ {c} = CountedIn("extra", hasExtra)
                BY <3>2, <2>6
            <4> QED
                BY <3>2, <4>1, <2>1, <2>5 DEF SlotInv, SlotsCounted, GrantFull
        <3> QED
            BY <3>1, <3>2
    <2> QED
        BY <2>4, <2>7
<1> QED
    BY <1>4, <1>5, <1>6, <1>7 DEF SlotInv, SlotsCounted

\* The grant of a mini slot.
LEMMA GrantExtraStep ==
    ASSUME SlotInv, NEW c \in Conns, NEW lost, st[c] = "opening", GrantExtra(c, lost),
           NEW s \in {"send", "running"}, Goto(c, s),
           decision' = [decision EXCEPT ![c] = "none"]
    PROVE  SlotInv'
<1> DEFINE cells == IF c \in hasExtra THEN {} ELSE {"extra"}
<1>1. cells \in SUBSET Cells /\ Count(cells, lost)
    BY DEF GrantExtra, Cells
<1>2. c \notin hasSlot /\ todo[c] = {} /\ reg[c] = NoReg
    BY DEF SlotInv, Phases, Types, GrantExtra
<1>3. /\ overlaps' \in Nat /\ todo' \in [Conns -> SUBSET Cells]
      /\ reg' \in [Conns -> [cell : Cells, value : Int] \cup {NoReg}]
      /\ \A d \in Conns : todo'[d] \in {todo[d], todo[d] \ {reg[d].cell}}
      /\ \A d \in Conns : reg'[d] = NoReg \/ (reg'[d] = reg[d] /\ todo'[d] = todo[d])
      /\ overlaps' = 0 => /\ overlaps = 0 /\ todo' = todo /\ reg' = reg
                          /\ \A d \in Conns : reg[d].cell \notin cells
    <2> HIDE DEF cells
    <2> QED
        BY <1>1, CountAlone DEF SlotInv
<1>4. Types'
    <2>1. st' \in [Conns -> {"closed", "get", "opening", "send", "running", "failed",
                             "removing"}]
        BY DEF SlotInv, Types, Goto
    <2>2. decision' \in [Conns -> {"none", "kept", "full", "extra"}]
        BY DEF SlotInv, Types
    <2>3. /\ hasSlot' \subseteq Conns /\ hasExtra' \subseteq Conns
          /\ running' \in Int /\ extra' \in Int
        BY DEF SlotInv, Types, GrantExtra
    <2> QED
        BY <2>1, <2>2, <2>3, <1>3 DEF Types
<1>5. Phases'
    BY <1>2, <1>3 DEF SlotInv, Types, Phases, GrantExtra, Goto
<1>6. Loaded'
    <2>1. CASE c \in hasExtra
        BY <2>1, <1>3 DEF SlotInv, Types, Loaded, GrantExtra, Value, Cells
    <2>2. CASE c \notin hasExtra
        BY <2>2, <1>3 DEF SlotInv, Types, Loaded, GrantExtra, Value, Cells
    <2> QED
        BY <2>1, <2>2
<1>7. ASSUME overlaps' = 0
      PROVE  /\ running' = Cardinality(CountedIn("running", hasSlot))'
             /\ extra' = Cardinality(CountedIn("extra", hasExtra))'
    <2>1. overlaps = 0 /\ todo' = todo
        BY <1>3, <1>7
    <2>2. CountedIn("running", hasSlot)' = CountedIn("running", hasSlot)
        BY <2>1 DEF CountedIn, GrantExtra
    <2>3. running' = Cardinality(CountedIn("running", hasSlot))'
        BY <2>1, <2>2 DEF SlotInv, SlotsCounted, GrantExtra
    <2>4. CountedIn("extra", hasExtra)' = CountedIn("extra", hasExtra) \cup {c}
        BY <2>1 DEF CountedIn, GrantExtra
    <2>5. CountedIn("extra", hasExtra) \subseteq Conns
          /\ (c \in CountedIn("extra", hasExtra) <=> c \in hasExtra)
        BY <1>2 DEF CountedIn, SlotInv, Types
    <2>6. extra' = Cardinality(CountedIn("extra", hasExtra))'
        <3>1. CASE c \in hasExtra
            <4>1. CountedIn("extra", hasExtra) \cup {c} = CountedIn("extra", hasExtra)
                BY <3>1, <2>5
            <4> QED
                BY <3>1, <4>1, <2>1, <2>4 DEF SlotInv, SlotsCounted, GrantExtra
        <3>2. CASE c \notin hasExtra
            BY <3>2, <2>1, <2>4, <2>5, CountConns DEF SlotInv, SlotsCounted, GrantExtra
        <3> QED
            BY <3>1, <3>2
    <2> QED
        BY <2>3, <2>6
<1> QED
    BY <1>4, <1>5, <1>6, <1>7 DEF SlotInv, SlotsCounted

\* prepareFile's second critical section.
LEMMA GrantStep == ASSUME SlotInv, NEW c \in Conns, Grant(c) PROVE SlotInv'
<1> DEFINE s == IF owner[c] \in NmdcUsers THEN "send" ELSE "running"
<1>1. /\ st[c] = "opening" /\ s \in {"send", "running"} /\ Goto(c, s)
      /\ decision' = [decision EXCEPT ![c] = "none"]
    BY DEF Grant
<1> HIDE DEF s
<1>2. CASE \E lost \in SUBSET Conns : GrantFull(c, lost) \/ GrantExtra(c, lost)
    <2>1. PICK lost \in SUBSET Conns : GrantFull(c, lost) \/ GrantExtra(c, lost)
        BY <1>2
    <2>2. CASE GrantFull(c, lost)
        BY <1>1, <2>2, GrantFullStep
    <2>3. CASE GrantExtra(c, lost)
        BY <1>1, <2>3, GrantExtraStep
    <2> QED
        BY <2>1, <2>2, <2>3
<1>3. CASE UNCHANGED <<hasSlot, hasExtra, counters>>
    <2>1. Types'
        BY <1>1, <1>3 DEF SlotInv, Types, Goto, counters
    <2>2. Phases'
        BY <1>1, <1>3 DEF SlotInv, Types, Phases, Goto, counters
    <2> QED
        BY <1>3, <2>1, <2>2, Uncounted
<1> QED
    BY <1>2, <1>3 DEF Grant

\* The flags of a failed connection become decrements to make.
LEMMA RemoveConnectionStep ==
    ASSUME SlotInv, NEW c \in Conns, RemoveConnection(c) PROVE SlotInv'
<1>1. /\ todo[c] = {} /\ reg[c] = NoReg /\ reg' = reg
      /\ overlaps' = overlaps /\ running' = running /\ extra' = extra
    BY DEF SlotInv, Phases, RemoveConnection
<1>2. Types'
    <2>1. Held(c) \in SUBSET Cells
        BY DEF Held, Cells
    <2> QED
        BY <2>1 DEF SlotInv, Types, RemoveConnection, Closed, Goto
<1>3. Phases'
    <2>1. Held(c) # {} => st' = [st EXCEPT ![c] = "removing"]
        BY DEF RemoveConnection, Goto
    <2>2. Held(c) = {} => st' = [st EXCEPT ![c] = "closed"]
        BY DEF RemoveConnection, Closed, Goto
    <2> QED
        BY <1>1, <2>1, <2>2 DEF SlotInv, Types, Phases, RemoveConnection
<1>4. Loaded'
    BY <1>1 DEF SlotInv, Loaded, Value
<1>5. CountedIn("running", hasSlot)' = CountedIn("running", hasSlot)
    BY <1>1 DEF CountedIn, RemoveConnection, Held, SlotInv, Types
<1>6. CountedIn("extra", hasExtra)' = CountedIn("extra", hasExtra)
    BY <1>1 DEF CountedIn, RemoveConnection, Held, SlotInv, Types
<1> QED
    BY <1>1, <1>2, <1>3, <1>4, <1>5, <1>6 DEF SlotInv, SlotsCounted

\* removeConnection loads a counter.
LEMMA LoadStep == ASSUME SlotInv, NEW c \in Conns, Load(c) PROVE SlotInv'
<1>1. PICK cell \in todo[c] :
          /\ reg' = [reg EXCEPT ![c] =
                [cell |-> cell, value |-> IF cell = "running" THEN running ELSE extra]]
          /\ IF Racing(cell) = {} THEN UNCHANGED overlaps
             ELSE overlaps < MaxOverlaps /\ overlaps' = overlaps + 1
    BY DEF Load
<1>2. /\ UNCHANGED <<st, decision, flags, running, extra, todo>>
      /\ cell \in Cells /\ st[c] = "removing" /\ reg[c] = NoReg
    BY DEF Load, SlotInv, Types
<1>3. Types'
    BY <1>1, <1>2 DEF SlotInv, Types, flags
<1>4. Phases'
    BY <1>1, <1>2 DEF SlotInv, Types, Phases, flags
<1>5. ASSUME overlaps' = 0 PROVE overlaps = 0 /\ \A d \in Conns : reg[d].cell # cell
    BY <1>1, <1>5 DEF SlotInv, Types, Racing
<1>6. Loaded'
    BY <1>1, <1>2, <1>5 DEF SlotInv, Types, Loaded, Value
<1>7. SlotsCounted'
    BY <1>2, <1>5 DEF SlotInv, SlotsCounted, CountedIn, flags
<1> QED
    BY <1>3, <1>4, <1>6, <1>7 DEF SlotInv

\* removeConnection stores the counter it loaded, less one.
LEMMA StoreStep == ASSUME SlotInv, NEW c \in Conns, Store(c) PROVE SlotInv'
<1> DEFINE cell == reg[c].cell
<1>1. /\ UNCHANGED <<st, decision, flags, overlaps>>
      /\ st[c] = "removing" /\ reg[c] # NoReg /\ cell \in todo[c] /\ cell \in Cells
      /\ reg[c].value \in Int
      /\ c \notin hasSlot /\ c \notin hasExtra
      /\ todo' = [todo EXCEPT ![c] = @ \ {cell}]
      /\ reg' = [reg EXCEPT ![c] = NoReg]
    BY DEF Store, SlotInv, Types, Phases
<1>2. /\ cell = "running" => running' = reg[c].value - 1 /\ extra' = extra
      /\ cell # "running" => extra' = reg[c].value - 1 /\ running' = running
    BY DEF Store
<1>3. Types'
    BY <1>1, <1>2 DEF SlotInv, Types, flags
<1>4. Phases'
    BY <1>1 DEF SlotInv, Types, Phases, flags
<1>5. Loaded'
    BY <1>1, <1>2 DEF SlotInv, Types, Loaded, Value, Cells
<1>6. ASSUME overlaps = 0
      PROVE  /\ running' = Cardinality(CountedIn("running", hasSlot))'
             /\ extra' = Cardinality(CountedIn("extra", hasExtra))'
    <2>1. CASE cell = "running"
        <3>1. CountedIn("running", hasSlot)' = CountedIn("running", hasSlot) \ {c}
            BY <1>1, <2>1 DEF CountedIn, flags, SlotInv, Types
        <3>2. CountedIn("extra", hasExtra)' = CountedIn("extra", hasExtra)
            BY <1>1, <2>1 DEF CountedIn, flags, SlotInv, Types
        <3>3. c \in CountedIn("running", hasSlot) /\ CountedIn("running", hasSlot) \subseteq Conns
            BY <1>1, <2>1 DEF CountedIn, SlotInv, Types
        <3>4. Cardinality(CountedIn("running", hasSlot) \ {c})
                = Cardinality(CountedIn("running", hasSlot)) - 1
            BY <3>3, CountConns
        <3>5. running' = running - 1 /\ extra' = extra
            BY <1>1, <1>2, <1>6, <2>1 DEF SlotInv, Loaded, Value
        <3> QED
            BY <1>6, <3>1, <3>2, <3>4, <3>5 DEF SlotInv, SlotsCounted
    <2>2. CASE cell = "extra"
        <3>1. CountedIn("extra", hasExtra)' = CountedIn("extra", hasExtra) \ {c}
            BY <1>1, <2>2 DEF CountedIn, flags, SlotInv, Types
        <3>2. CountedIn("running", hasSlot)' = CountedIn("running", hasSlot)
            BY <1>1, <2>2 DEF CountedIn, flags, SlotInv, Types
        <3>3. c \in CountedIn("extra", hasExtra) /\ CountedIn("extra", hasExtra) \subseteq Conns
            BY <1>1, <2>2 DEF CountedIn, SlotInv, Types
        <3>4. Cardinality(CountedIn("extra", hasExtra) \ {c})
                = Cardinality(CountedIn("extra", hasExtra)) - 1
            BY <3>3, CountConns
        <3>5. extra' = extra - 1 /\ running' = running
            BY <1>1, <1>2, <1>6, <2>2 DEF SlotInv, Loaded, Value
        <3> QED
            BY <1>6, <3>1, <3>2, <3>4, <3>5 DEF SlotInv, SlotsCounted
    <2> QED
        BY <1>1, <2>1, <2>2 DEF Cells
<1> QED
    BY <1>1, <1>3, <1>4, <1>5, <1>6 DEF SlotInv, SlotsCounted

-----------------------------------------------------------------------------
\* SlotInv is inductive.
LEMMA SlotStep == ASSUME SlotInv, [Next]_vars PROVE SlotInv'
<1> USE DEF counters, flags, privileges
<1>1. ASSUME NEW c \in Conns, NEW u \in Users, Connect(c, u) PROVE SlotInv'
    <2>1. Types' /\ Phases'
        BY <1>1 DEF SlotInv, Types, Phases, Connect, Goto
    <2> QED
        BY <1>1, <2>1, Uncounted DEF Connect
<1>2. ASSUME NEW c \in Conns, Request(c) PROVE SlotInv'
    <2>1. Types'
        BY <1>2 DEF SlotInv, Types, Request, KeepSlot, FullSlot, GrantAuto, ExtraSlot,
                    Decide, Goto, Refuse
    <2>2. Phases'
        BY <1>2 DEF SlotInv, Types, Phases, Request, KeepSlot, FullSlot, GrantAuto,
                    ExtraSlot, Decide, Goto, Refuse
    <2> QED
        BY <1>2, <2>1, <2>2, Uncounted DEF Request, KeepSlot, FullSlot, GrantAuto,
                    ExtraSlot, Decide, Refuse
<1>3. ASSUME NEW c \in Conns, NotAvailable(c) PROVE SlotInv'
    <2>1. Types' /\ Phases'
        BY <1>3 DEF SlotInv, Types, Phases, NotAvailable, Goto
    <2> QED
        BY <1>3, <2>1, Uncounted DEF NotAvailable
<1>4. ASSUME NEW c \in Conns, Removed(c) PROVE SlotInv'
    <2>1. Types' /\ Phases'
        BY <1>4 DEF SlotInv, Types, Phases, Removed, Closed, Goto
    <2> QED
        BY <1>4, <2>1, Uncounted DEF Removed
<1>5. ASSUME NEW c \in Conns, Send(c) \/ TransmitDone(c) \/ Fail(c) PROVE SlotInv'
    <2>1. Types'
        BY <1>5 DEF SlotInv, Types, Send, TransmitDone, Fail, Goto
    <2>2. Phases'
        BY <1>5 DEF SlotInv, Types, Phases, Send, TransmitDone, Fail, Goto
    <2> QED
        BY <1>5, <2>1, <2>2, Uncounted DEF Send, TransmitDone, Fail
<1>6. ASSUME UNCHANGED <<st, decision, counters, hasSlot, hasExtra>> PROVE SlotInv'
    <2>1. Types' /\ Phases'
        BY <1>6 DEF SlotInv, Types, Phases
    <2> QED
        BY <1>6, <2>1, Uncounted
<1>7. ASSUME NEW u \in Users, ReserveSlot(u) \/ UserDisconnected(u) \/ UserConnected(u)
      PROVE  SlotInv'
    BY <1>6, <1>7 DEF ReserveSlot, UserDisconnected, UserConnected
<1>8. ASSUME Timer PROVE SlotInv'
    BY <1>6, <1>8 DEF Timer, Second, Minute, Pass30s
<1>9. ASSUME UNCHANGED vars PROVE SlotInv'
    BY <1>6, <1>9 DEF vars
<1> QED
    BY <1>1, <1>2, <1>3, <1>4, <1>5, <1>7, <1>8, <1>9, GrantStep, RemoveConnectionStep,
       LoadStep, StoreStep DEF Next, Thread

\* Initially nobody holds a slot, and the counters say so.
LEMMA SlotInit == ASSUME Init PROVE SlotInv
<1>1. Types /\ Phases /\ Loaded
    BY DEF Init, Types, Phases, Loaded, Cells
<1>2. CountedIn("running", hasSlot) = {} /\ CountedIn("extra", hasExtra) = {}
    BY DEF Init, CountedIn
<1> QED
    BY <1>1, <1>2, FS_EmptySet DEF Init, SlotInv, SlotsCounted

\* Until two updates of a counter overlap, running and extra are exactly the
\* number of connections holding a slot and a mini slot (UploadManager::running
\* and extra against FLAG_HASSLOT and FLAG_HASEXTRASLOT).
THEOREM SlotsAreCounted == Spec => []SlotsCounted
<1>1. Init => SlotInv
    BY SlotInit
<1>2. SlotInv /\ [Next]_vars => SlotInv'
    BY SlotStep
<1>3. SlotInv => SlotsCounted
    BY DEF SlotInv
<1> QED
    BY <1>1, <1>2, <1>3, PTL DEF Spec

-----------------------------------------------------------------------------
CallInv == connecting \subseteq Users /\ online \subseteq Users /\ CalledFitSlots

\* Only notifyQueuedUsers adds to connectingUsers, and overlaps are not forgotten.
LEMMA OthersCallNobody ==
    ASSUME SlotInv, online \subseteq Users, [Next]_vars
    PROVE  /\ connecting' \subseteq connecting \/ Second
           /\ online' \subseteq Users
           /\ overlaps' = 0 => overlaps = 0
<1> USE DEF counters, flags, privileges, lists
<1> SUFFICES ASSUME Next PROVE /\ connecting' \subseteq connecting \/ Second
                               /\ online' \subseteq Users
                               /\ overlaps' = 0 => overlaps = 0
    BY DEF vars
<1>0. overlaps \in Nat
    BY DEF SlotInv, Types
<1>1. ASSUME NEW c \in Conns, NEW u \in Users, Connect(c, u)
      PROVE  UNCHANGED <<connecting, online, overlaps>>
    BY <1>1 DEF Connect
<1>2. ASSUME NEW c \in Conns, Request(c)
      PROVE  UNCHANGED <<connecting, online, overlaps>>
    BY <1>2 DEF Request, KeepSlot, FullSlot, GrantAuto, ExtraSlot, Decide, Refuse
<1>3. ASSUME NEW c \in Conns, Grant(c)
      PROVE  /\ connecting' \subseteq connecting /\ online' = online
             /\ overlaps' = 0 => overlaps = 0
    <2>1. online' = online
        BY <1>3 DEF Grant
    <2>2. ASSUME NEW lost, GrantFull(c, lost) \/ GrantExtra(c, lost)
          PROVE  /\ connecting' \subseteq connecting
                 /\ overlaps' = 0 => overlaps = 0
        BY <1>0, <2>2 DEF GrantFull, GrantExtra, Count
    <2> QED
        BY <1>3, <2>1, <2>2 DEF Grant
<1>4. ASSUME NEW c \in Conns, NotAvailable(c) \/ RemoveConnection(c) \/ Removed(c)
      PROVE  UNCHANGED <<connecting, online, overlaps>>
    BY <1>4 DEF NotAvailable, RemoveConnection, Removed
<1>5. ASSUME NEW c \in Conns, Load(c) \/ Store(c)
      PROVE  UNCHANGED <<connecting, online>> /\ (overlaps' = 0 => overlaps = 0)
    BY <1>0, <1>5 DEF Load, Store
<1>6. ASSUME NEW c \in Conns, Send(c) \/ TransmitDone(c) \/ Fail(c)
      PROVE  UNCHANGED <<connecting, online, overlaps>>
    BY <1>6 DEF Send, TransmitDone, Fail
<1>7. ASSUME NEW u \in Users, ReserveSlot(u) \/ UserDisconnected(u) \/ UserConnected(u)
      PROVE  UNCHANGED <<connecting, overlaps>> /\ online' \subseteq Users
    BY <1>7 DEF ReserveSlot, UserDisconnected, UserConnected
<1>8. ASSUME NEW old, Minute(old)
      PROVE  connecting' \subseteq connecting /\ UNCHANGED <<online, overlaps>>
    BY <1>8 DEF Minute
<1>9. ASSUME Second \/ Pass30s
      PROVE  /\ connecting' \subseteq connecting \/ Second
             /\ UNCHANGED <<online, overlaps>>
    BY <1>9 DEF Second, Pass30s
<1> QED
    BY <1>1, <1>2, <1>3, <1>4, <1>5, <1>6, <1>7, <1>8, <1>9 DEF Next, Thread, Timer

\* Some of the users, as a number.
LEMMA CountUsers ==
    ASSUME NEW S \in SUBSET Users, NEW T \in SUBSET Users
    PROVE  /\ Cardinality(S) \in Nat /\ Cardinality(T) \in Nat
           /\ Cardinality(S \cup T) \in Nat
           /\ Cardinality(S \cup T) <= Cardinality(S) + Cardinality(T)
           /\ T \subseteq S => Cardinality(T) <= Cardinality(S)
           /\ \A u : T \subseteq S \cup {u} => Cardinality(T) <= Cardinality(S) + 1
<1>1. IsFiniteSet(S) /\ IsFiniteSet(T) /\ IsFiniteSet(S \cap T)
    BY ConstAssumption, FS_Subset
<1>2. Cardinality(S) \in Nat /\ Cardinality(T) \in Nat /\ Cardinality(S \cap T) \in Nat
    BY <1>1, FS_CardinalityType
<1>3. Cardinality(S \cup T) = Cardinality(S) + Cardinality(T) - Cardinality(S \cap T)
    BY <1>1, FS_Union
<1>4. Cardinality(S \cup T) \in Nat
    <2>1. IsFiniteSet(S \cup T)
        BY ConstAssumption, FS_Subset
    <2> QED
        BY <2>1, FS_CardinalityType
<1>5. T \subseteq S => Cardinality(T) <= Cardinality(S)
    BY <1>1, FS_Subset
<1>6. ASSUME NEW u, T \subseteq S \cup {u}
      PROVE  Cardinality(T) <= Cardinality(S) + 1
    <2>1. IsFiniteSet(S \cup {u}) /\ Cardinality(S \cup {u}) <= Cardinality(S) + 1
        BY <1>1, <1>2, FS_AddElement
    <2>2. Cardinality(T) <= Cardinality(S \cup {u}) /\ Cardinality(S \cup {u}) \in Nat
        BY <1>6, <2>1, FS_Subset, FS_CardinalityType
    <2> QED
        BY <1>2, <2>1, <2>2
<1> QED
    BY <1>2, <1>3, <1>4, <1>5, <1>6

\* notifyQueuedUsers calls at most as many users as slots are left over.
LEMMA SecondFits ==
    ASSUME SlotInv, CallInv, Second, overlaps = 0
    PROVE  connecting' \subseteq Users /\ Cardinality(connecting') <= Slots
<1>1. PICK n \in 1 .. Len(waitingUsers) :
          /\ Cardinality(Called(n - 1)) < ToCall
          /\ connecting' = connecting \cup Called(n)
    BY DEF Second
<1>2. Called(n) \subseteq Users /\ Called(n - 1) \subseteq Users
    BY DEF Called, CallInv
<1>3. Called(n) \subseteq Called(n - 1) \cup {waitingUsers[n]}
    <2> SUFFICES ASSUME NEW i \in 1 .. n, waitingUsers[i] \in online
                 PROVE  waitingUsers[i] \in Called(n - 1) \cup {waitingUsers[n]}
        BY DEF Called
    <2>1. CASE i = n
        BY <2>1
    <2>2. CASE i # n
        <3>1. i \in 1 .. (n - 1)
            BY <2>2
        <3> QED
            BY <3>1 DEF Called
    <2> QED
        BY <2>1, <2>2
<1>4. Cardinality(Called(n)) <= Cardinality(Called(n - 1)) + 1
    BY <1>2, <1>3, CountUsers
<1>5. running \in Nat
    <2>1. CountedIn("running", hasSlot) \subseteq Conns
        BY DEF CountedIn, SlotInv, Types
    <2>2. PICK S \in SUBSET Conns : S = CountedIn("running", hasSlot)
        BY <2>1
    <2>3. Cardinality(S) \in Nat
        BY ConstAssumption, FS_Subset, FS_CardinalityType
    <2> QED
        BY <2>2, <2>3 DEF SlotInv, SlotsCounted
<1>6. /\ Cardinality(connecting) \in Nat
      /\ Cardinality(Called(n)) \in Nat /\ Cardinality(Called(n - 1)) \in Nat
      /\ Cardinality(connecting \cup Called(n)) \in Nat
      /\ Cardinality(connecting \cup Called(n)) <= Cardinality(connecting) + Cardinality(Called(n))
    BY <1>2, CountUsers DEF CallInv
<1>7. Cardinality(connecting) + Cardinality(Called(n)) <= Slots
    <2>1. GetFreeSlots \in Nat /\ GetFreeSlots <= Slots
        BY <1>5, ConstAssumption DEF GetFreeSlots
    <2>2. Cardinality(Called(n - 1)) < GetFreeSlots - Cardinality(connecting)
        BY <1>1 DEF ToCall
    <2> QED
        BY <1>4, <1>6, <2>1, <2>2, ConstAssumption
<1> QED
    BY <1>1, <1>2, <1>6, <1>7, ConstAssumption DEF CallInv

\* Until the counters go wrong, no more users are called than there are slots,
\* however many come, leave and grants happen in between (notifyQueuedUsers).
THEOREM CallsFitSlots == Spec => []CalledFitSlots
<1>1. ASSUME Init PROVE SlotInv /\ CallInv
    <2>1. connecting = {} /\ online = Users /\ Cardinality({}) = 0
        BY <1>1, FS_EmptySet DEF Init
    <2>2. Cardinality(connecting) <= Slots
        BY <2>1, ConstAssumption
    <2> QED
        BY <1>1, <2>1, <2>2, SlotInit DEF CallInv, CalledFitSlots
<1>2. ASSUME SlotInv, CallInv, [Next]_vars PROVE SlotInv' /\ CallInv'
    <2>1. SlotInv' /\ online' \subseteq Users /\ (overlaps' = 0 => overlaps = 0)
        BY <1>2, SlotStep, OthersCallNobody DEF CallInv
    <2>2. CASE connecting' \subseteq connecting
        <3>1. overlaps' = 0 => Cardinality(connecting') <= Slots
            <4>1. /\ Cardinality(connecting') <= Cardinality(connecting)
                  /\ Cardinality(connecting') \in Nat /\ Cardinality(connecting) \in Nat
                BY <1>2, <2>2, CountUsers DEF CallInv
            <4> QED
                BY <1>2, <2>1, <4>1, ConstAssumption DEF CallInv, CalledFitSlots
        <3> QED
            BY <1>2, <2>1, <2>2, <3>1 DEF CallInv, CalledFitSlots
    <2>3. CASE Second
        <3>1. connecting' \subseteq Users
            BY <1>2, <2>3 DEF Second, Called, CallInv
        <3>2. overlaps' = 0 => Cardinality(connecting') <= Slots
            BY <1>2, <2>1, <2>3, SecondFits
        <3> QED
            BY <2>1, <3>1, <3>2 DEF CallInv, CalledFitSlots
    <2> QED
        BY <1>2, <2>1, <2>2, <2>3, OthersCallNobody DEF CallInv
<1>3. CallInv => CalledFitSlots
    BY DEF CallInv
<1> QED
    BY <1>1, <1>2, <1>3, PTL DEF Spec
-----------------------------------------------------------------------------
(* Who waits                                                               *)

\* The connections ConnectionManager has an upload item for.
Live(c) == st[c] \in {"get", "opening", "send", "running"}

UserTypes ==
    /\ owner \in [Conns -> Users \cup {NoUser}] /\ cqi \subseteq Users
    /\ waitingUsers \in Seq(Users) /\ waitingFiles \subseteq Users
    /\ connecting \subseteq Users /\ reserved \subseteq Users /\ online \subseteq Users
    /\ recent \in BOOLEAN
    /\ overlaps \in 0 .. MaxOverlaps /\ privileged \in 0 .. MaxPrivileged

\* A user has one item, and the item one connection; an upload is being prepared
\* on it by nobody else.
ConnsInv ==
    \A c \in Conns :
        /\ Live(c) => owner[c] \in cqi
        /\ \A d \in Conns : Live(c) /\ Live(d) /\ owner[c] = owner[d] => c = d
        /\ c \in hasSlot => Live(c) \/ st[c] = "failed"
        /\ c \in uploads => st[c] \in {"send", "running", "failed"}

UserInv == UserTypes /\ ConnsInv /\ uploads \subseteq Conns /\ WaitingAgree /\ HolderDoesNotWait

\* What clearUserFiles leaves: the users that are not meant, each once.
LEMMA Cleared ==
    ASSUME NEW us, waitingUsers \in Seq(Users), WaitingAgree, ClearUserFiles(us)
    PROVE  /\ waitingUsers' \in Seq(Users) /\ WaitingAgree'
           /\ waitingFiles' = waitingFiles \ us
<1> DEFINE stay == {i \in DOMAIN waitingUsers : waitingUsers[i] \notin us}
<1>1. IsFiniteSet(stay) /\ Cardinality(stay) \in Nat
    <2>1. DOMAIN waitingUsers = 1 .. Len(waitingUsers) /\ Len(waitingUsers) \in Nat
        OBVIOUS
    <2>2. IsFiniteSet(1 .. Len(waitingUsers)) /\ stay \subseteq 1 .. Len(waitingUsers)
        BY <2>1, FS_Interval
    <2> QED
        BY <2>2, FS_Subset, FS_CardinalityType
<1>2. PICK n \in Nat : n = Cardinality(stay)
    BY <1>1
<1>3. PICK at \in [1 .. n -> stay] :
          /\ \A i, j \in DOMAIN at : i < j => at[i] < at[j]
          /\ waitingUsers' = [i \in DOMAIN at |-> waitingUsers[at[i]]]
    BY <1>2 DEF ClearUserFiles
<1>4. \A i \in 1 .. n : at[i] \in DOMAIN waitingUsers /\ waitingUsers[at[i]] \in Users \ us
    BY <1>3
<1>5. \A i \in stay : \E k \in 1 .. n : at[k] = i
    <2>1. at \in Injection(1 .. n, stay)
        <3>1. ASSUME NEW i \in 1 .. n, NEW j \in 1 .. n, at[i] = at[j] PROVE i = j
            <4>1. at[i] \in Int /\ at[j] \in Int
                BY <1>4
            <4>2. ~(i < j) /\ ~(j < i)
                BY <1>3, <3>1, <4>1
            <4> QED
                BY <4>2
        <3> QED
            BY <1>3, <3>1 DEF Injection, IsInjective
    <2>2. Cardinality(1 .. n) = n
        BY FS_Interval
    <2>3. at \in Surjection(1 .. n, stay)
        <3> HIDE DEF stay
        <3> QED
            BY <1>1, <1>2, <2>1, <2>2, FS_Injection
    <2> QED
        BY <2>3 DEF Surjection
<1>6. waitingUsers' = [i \in 1 .. n |-> waitingUsers[at[i]]]
    BY <1>3
<1>7. waitingUsers' \in Seq(Users)
    BY <1>2, <1>4, <1>6
<1>8. ToSet(waitingUsers)' = ToSet(waitingUsers) \ us
    <2>1. ASSUME NEW u \in ToSet(waitingUsers) \ us PROVE u \in ToSet(waitingUsers)'
        <3>1. PICK i \in stay : waitingUsers[i] = u
            BY <2>1 DEF ToSet
        <3>2. PICK k \in 1 .. n : at[k] = i
            BY <1>5, <3>1
        <3> QED
            BY <1>6, <3>1, <3>2 DEF ToSet
    <2>2. ASSUME NEW u \in ToSet(waitingUsers)' PROVE u \in ToSet(waitingUsers) \ us
        <3>1. PICK k \in 1 .. n : waitingUsers[at[k]] = u
            BY <1>6, <2>2 DEF ToSet
        <3> QED
            BY <1>4, <3>1 DEF ToSet
    <2> QED
        BY <2>1, <2>2
<1>9. waitingFiles' = waitingFiles \ us
    BY DEF ClearUserFiles, WaitingAgree
<1>10. IsInjective(waitingUsers')
    <2> SUFFICES ASSUME NEW i \in 1 .. n, NEW j \in 1 .. n,
                        waitingUsers[at[i]] = waitingUsers[at[j]]
                 PROVE  i = j
        BY <1>6 DEF IsInjective
    <2>1. at[i] = at[j]
        BY <1>4 DEF WaitingAgree, IsInjective
    <2>2. at[i] \in Int /\ ~(i < j) /\ ~(j < i)
        BY <1>3, <1>4, <2>1
    <2> QED
        BY <2>2
<1> QED
    BY <1>7, <1>8, <1>9, <1>10 DEF WaitingAgree

\* A connection goes from one state to another and stays its user's.
LEMMA StaysLive ==
    ASSUME Types, UserInv, NEW c \in Conns, NEW s, Goto(c, s), Live(c),
           s \in {"get", "opening", "send", "running"},
           UNCHANGED <<owner, cqi>>, hasSlot' \subseteq hasSlot \cup {c},
           uploads' \ {c} \subseteq uploads, c \in uploads' => s \in {"send", "running"},
           uploads' \subseteq Conns
    PROVE  ConnsInv'
<1>1. \A d \in Conns : st'[d] = IF d = c THEN s ELSE st[d]
    BY DEF Types, Goto
<1>2. \A d \in Conns : Live(d)' <=> Live(d)
    BY <1>1 DEF Live
<1> QED
    BY <1>1, <1>2 DEF UserInv, ConnsInv

\* A connection that has failed, is removed or closed.
LEMMA NotLive ==
    ASSUME Types, UserInv, NEW c \in Conns, NEW s, Goto(c, s),
           s \in {"failed", "removing", "closed"},
           \A d \in Conns \ {c} : owner'[d] = owner[d],
           cqi' = cqi \/ (Live(c) /\ cqi' = cqi \ {owner[c]}),
           hasSlot' \subseteq hasSlot, uploads' \subseteq uploads,
           s # "failed" => c \notin hasSlot' /\ c \notin uploads'
    PROVE  ConnsInv'
<1>1. \A d \in Conns : st'[d] = IF d = c THEN s ELSE st[d]
    BY DEF Types, Goto
<1>2. ~Live(c)' /\ \A d \in Conns \ {c} : Live(d)' <=> Live(d)
    BY <1>1 DEF Live
<1>3. ASSUME NEW d \in Conns, Live(d)' PROVE owner'[d] \in cqi'
    <2>1. d # c /\ Live(d) /\ owner'[d] = owner[d] /\ owner[d] \in cqi
        BY <1>2, <1>3 DEF UserInv, ConnsInv
    <2> QED
        BY <2>1 DEF UserInv, ConnsInv
<1>4. ASSUME NEW d \in Conns, NEW e \in Conns, Live(d)', Live(e)', owner'[d] = owner'[e]
      PROVE  d = e
    BY <1>2, <1>4 DEF UserInv, ConnsInv
<1>5. ASSUME NEW d \in Conns, d \in hasSlot' PROVE Live(d)' \/ st'[d] = "failed"
    BY <1>1, <1>2, <1>5 DEF UserInv, ConnsInv
<1>6. ASSUME NEW d \in Conns, d \in uploads' PROVE st'[d] \in {"send", "running", "failed"}
    BY <1>1, <1>6 DEF UserInv, ConnsInv
<1> QED
    BY <1>3, <1>4, <1>5, <1>6 DEF ConnsInv

\* Who holds a slot is not put on a list by a step that puts nobody on one.
LEMMA HoldersStay ==
    ASSUME UserInv, waitingFiles' \subseteq waitingFiles, connecting' \subseteq connecting,
           \A c \in hasSlot' : st'[c] # "failed" =>
              c \in hasSlot /\ st[c] # "failed" /\ owner'[c] = owner[c]
    PROVE  HolderDoesNotWait'
BY DEF UserInv, HolderDoesNotWait

\* A request: a decision on a slot, or the waiting list.
LEMMA RequestUsers ==
    ASSUME Types, UserInv, NEW c \in Conns, Request(c)
    PROVE  UserInv'
<1> USE DEF counters, flags, privileges, lists
<1>1. st[c] = "get" /\ Live(c)
    BY DEF Request, KeepSlot, FullSlot, GrantAuto, ExtraSlot, Decide, Refuse, Live
<1>2. owner[c] \in Users
    BY <1>1 DEF UserInv, ConnsInv, UserTypes
<1>3. CASE Refuse(c)
    <2>1. /\ UNCHANGED <<st, owner, cqi, hasSlot, uploads, connecting, reserved, recent, online,
                         overlaps, privileged>>
          /\ AddFailedUpload(owner[c]) /\ c \notin hasSlot
        BY <1>3 DEF Refuse
    <2>2. ConnsInv' /\ uploads' \subseteq Conns
        BY <2>1 DEF UserInv, ConnsInv, Live
    <2>3. waitingUsers' \in Seq(Users) /\ waitingFiles' \subseteq Users
        BY <1>2, <2>1 DEF AddFailedUpload, UserInv, UserTypes
    <2>4. WaitingAgree'
        <3>1. CASE owner[c] \in ToSet(waitingUsers)
            <4>1. UNCHANGED <<waitingUsers, waitingFiles>>
                BY <2>1, <3>1 DEF AddFailedUpload, UserInv, WaitingAgree
            <4> QED
                BY <4>1 DEF UserInv, WaitingAgree
        <3>2. CASE owner[c] \notin ToSet(waitingUsers)
            <4>1. PICK u \in Users : u = owner[c]
                BY <1>2
            <4>2. PICK w \in Seq(Users) : w = waitingUsers
                BY DEF UserInv, UserTypes
            <4>3. /\ waitingUsers' = Append(w, u) /\ waitingFiles' = waitingFiles \cup {u}
                  /\ ToSet(w) = waitingFiles /\ IsInjective(w) /\ u \notin ToSet(w)
                BY <2>1, <3>2, <4>1, <4>2 DEF AddFailedUpload, UserInv, WaitingAgree
            <4>4. /\ DOMAIN w = 1 .. Len(w) /\ DOMAIN Append(w, u) = 1 .. (Len(w) + 1)
                  /\ Len(w) \in Nat /\ Append(w, u)[Len(w) + 1] = u
                  /\ \A i \in 1 .. Len(w) : Append(w, u)[i] = w[i]
                OBVIOUS
            <4>5. ToSet(Append(w, u)) = ToSet(w) \cup {u}
                <5>1. ASSUME NEW v \in ToSet(w) \cup {u} PROVE v \in ToSet(Append(w, u))
                    BY <4>4 DEF ToSet
                <5>2. ASSUME NEW v \in ToSet(Append(w, u)) PROVE v \in ToSet(w) \cup {u}
                    <6>1. PICK i \in 1 .. (Len(w) + 1) : Append(w, u)[i] = v
                        BY <4>4, <5>2 DEF ToSet
                    <6>2. i = Len(w) + 1 \/ i \in 1 .. Len(w)
                        BY <4>4
                    <6> QED
                        BY <4>4, <6>1, <6>2 DEF ToSet
                <5> QED
                    BY <5>1, <5>2
            <4>6. IsInjective(Append(w, u))
                <5> SUFFICES ASSUME NEW i \in 1 .. (Len(w) + 1), NEW j \in 1 .. (Len(w) + 1),
                                    Append(w, u)[i] = Append(w, u)[j]
                             PROVE  i = j
                    BY <4>4 DEF IsInjective
                <5>1. (i = Len(w) + 1 \/ i \in 1 .. Len(w)) /\ (j = Len(w) + 1 \/ j \in 1 .. Len(w))
                    BY <4>4
                <5>2. \A k \in 1 .. Len(w) : w[k] # u
                    BY <4>3, <4>4 DEF ToSet
                <5> QED
                    BY <4>3, <4>4, <5>1, <5>2 DEF IsInjective
            <4> QED
                BY <4>3, <4>5, <4>6 DEF WaitingAgree
        <3> QED
            BY <3>1, <3>2
    <2>5. HolderDoesNotWait'
        <3>1. ASSUME NEW d \in hasSlot, st[d] # "failed" PROVE owner[d] # owner[c]
            BY <1>1, <2>1, <3>1 DEF UserInv, ConnsInv, Types
        <3> QED
            BY <2>1, <3>1 DEF UserInv, HolderDoesNotWait, AddFailedUpload
    <2> QED
        BY <2>1, <2>2, <2>3, <2>4, <2>5 DEF UserInv, UserTypes
<1>4. CASE KeepSlot(c) \/ FullSlot(c) \/ GrantAuto(c) \/ ExtraSlot(c)
    <2>1. /\ UNCHANGED <<owner, cqi, hasSlot, uploads, lists, reserved, recent, online, overlaps>>
          /\ Goto(c, "opening") /\ privileged' \in 0 .. MaxPrivileged
        <3>1. /\ UNCHANGED <<owner, cqi, hasSlot, uploads, lists, reserved, recent, online, overlaps>>
              /\ Goto(c, "opening") /\ (Privilege \/ UNCHANGED privileged)
            BY <1>4 DEF KeepSlot, FullSlot, GrantAuto, ExtraSlot, Decide
        <3>2. privileged' \in 0 .. MaxPrivileged
            BY <3>1, ConstAssumption DEF Privilege, UserInv, UserTypes
        <3> QED
            BY <3>1, <3>2
    <2>2. c \notin uploads
        BY <1>1 DEF UserInv, ConnsInv
    <2>3. ConnsInv' /\ uploads' \subseteq Conns
        BY <1>1, <2>1, <2>2, StaysLive DEF UserInv
    <2>4. HolderDoesNotWait'
        <3>1. \A d \in hasSlot : st'[d] # "failed" => st[d] # "failed"
            BY <1>1, <2>1 DEF Goto, Types
        <3> QED
            BY <2>1, <3>1, HoldersStay
    <2> QED
        BY <2>1, <2>3, <2>4 DEF UserInv, UserTypes, WaitingAgree
<1> QED
    BY <1>3, <1>4 DEF Request

\* The grant of a slot: its user is taken off both lists.
LEMMA GrantUsers ==
    ASSUME Types, UserInv, NEW c \in Conns, Grant(c)
    PROVE  UserInv'
<1> USE DEF counters, flags, privileges, lists
<1>1. PICK s \in {"send", "running"} : Goto(c, s)
    BY DEF Grant
<1>2. /\ Live(c) /\ st[c] = "opening" /\ owner[c] \in Users
      /\ UNCHANGED <<cqi, owner, privileged, online>> /\ uploads' = uploads \cup {c}
    BY DEF Grant, Live, UserInv, ConnsInv, UserTypes
<1>3. \A d \in Conns : st'[d] # "failed" => st[d] # "failed"
    BY <1>1, <1>2 DEF Goto, Types
<1>4. CASE decision[c] = "kept" /\ UNCHANGED <<hasSlot, hasExtra, counters, lists, reserved, recent>>
    <2>1. ConnsInv' /\ uploads' \subseteq Conns
        BY <1>1, <1>2, <1>4, StaysLive DEF UserInv
    <2>2. HolderDoesNotWait'
        BY <1>2, <1>3, <1>4, HoldersStay DEF Types
    <2> QED
        BY <1>2, <1>4, <2>1, <2>2 DEF UserInv, UserTypes, WaitingAgree
<1>5. CASE \E lost \in SUBSET Conns : GrantFull(c, lost) \/ GrantExtra(c, lost)
    <2>1. PICK lost \in SUBSET Conns : GrantFull(c, lost) \/ GrantExtra(c, lost)
        BY <1>5
    <2>2. overlaps' \in 0 .. MaxOverlaps
        <3>1. \E cells : Count(cells, lost)
            BY <2>1 DEF GrantFull, GrantExtra
        <3> QED
            BY <3>1, ConstAssumption DEF Count, UserInv, UserTypes
    <2>3. hasSlot' \subseteq hasSlot \cup {c}
        BY <2>1 DEF GrantFull, GrantExtra
    <2>4. ConnsInv' /\ uploads' \subseteq Conns
        BY <1>1, <1>2, <2>3, StaysLive DEF UserInv
    <2>5. recent' \in BOOLEAN /\ reserved' \subseteq Users
        <3>1. \/ recent' = recent /\ reserved' = reserved
              \/ recent' = AutoSlots /\ reserved' = reserved \ {owner[c]}
            BY DEF Grant
        <3>2. recent' \in BOOLEAN
            BY <3>1, ConstAssumption DEF UserInv, UserTypes
        <3>3. reserved' \subseteq Users
            BY <3>1 DEF UserInv, UserTypes
        <3> QED
            BY <3>2, <3>3
    <2>6. CASE GrantFull(c, lost)
        <3>1. ClearUserFiles({owner[c]}) /\ connecting' = connecting \ {owner[c]}
            BY <2>6 DEF GrantFull
        <3>2. /\ waitingUsers' \in Seq(Users) /\ WaitingAgree'
              /\ waitingFiles' = waitingFiles \ {owner[c]}
            BY <3>1, Cleared DEF UserInv, UserTypes
        <3>3. HolderDoesNotWait'
            <4>1. ASSUME NEW d \in hasSlot', st'[d] # "failed"
                  PROVE  owner'[d] \notin waitingFiles' /\ owner'[d] \notin connecting'
                <5>1. d = c \/ (d \in hasSlot /\ st[d] # "failed")
                    BY <1>3, <2>3, <4>1 DEF Types
                <5> QED
                    BY <1>2, <3>1, <3>2, <5>1 DEF UserInv, HolderDoesNotWait
            <4> QED
                BY <4>1 DEF HolderDoesNotWait
        <3>4. UserTypes'
            BY <1>2, <2>2, <2>5, <3>1, <3>2 DEF UserInv, UserTypes
        <3> QED
            BY <2>4, <3>2, <3>3, <3>4 DEF UserInv
    <2>7. CASE GrantExtra(c, lost)
        <3>1. UNCHANGED <<hasSlot, waitingUsers, waitingFiles, connecting>>
            BY <2>7 DEF GrantExtra
        <3>2. HolderDoesNotWait'
            BY <1>2, <1>3, <3>1, HoldersStay DEF Types
        <3>3. UserTypes'
            BY <1>2, <2>2, <2>5, <3>1 DEF UserInv, UserTypes
        <3> QED
            BY <2>4, <3>1, <3>2, <3>3 DEF UserInv, WaitingAgree
    <2> QED
        BY <2>1, <2>6, <2>7
<1> QED
    BY <1>4, <1>5 DEF Grant

\* The rest of the life of a connection.
LEMMA ConnUsers ==
    ASSUME Types, Phases, UserInv, NEW c \in Conns,
           \/ \E u \in Users : Connect(c, u)
           \/ NotAvailable(c) \/ Send(c) \/ TransmitDone(c) \/ Fail(c)
           \/ RemoveConnection(c) \/ Load(c) \/ Store(c) \/ Removed(c)
    PROVE  UserInv'
<1> USE DEF counters, flags, privileges, lists
<1>1. UNCHANGED <<waitingUsers, waitingFiles, connecting, reserved, recent, privileged, online>>
    BY DEF Connect, NotAvailable, Send, TransmitDone, Fail, RemoveConnection, Load, Store, Removed
<1>2. overlaps' \in 0 .. MaxOverlaps
    <2>1. overlaps' = overlaps \/ (overlaps < MaxOverlaps /\ overlaps' = overlaps + 1)
        BY DEF Connect, NotAvailable, Send, TransmitDone, Fail, RemoveConnection, Load, Store,
               Removed
    <2> QED
        BY <2>1, ConstAssumption DEF UserInv, UserTypes
<1>3. ASSUME ConnsInv', owner' \in [Conns -> Users \cup {NoUser}], cqi' \subseteq Users,
             uploads' \subseteq Conns,
             \A d \in hasSlot' : st'[d] # "failed" =>
                d \in hasSlot /\ st[d] # "failed" /\ owner'[d] = owner[d]
      PROVE  UserInv'
    <2>1. HolderDoesNotWait' /\ WaitingAgree'
        BY <1>1, <1>3, HoldersStay DEF UserInv, WaitingAgree
    <2> QED
        BY <1>1, <1>2, <1>3, <2>1 DEF UserInv, UserTypes
<1>4. ASSUME NEW u \in Users, Connect(c, u) PROVE UserInv'
    <2>1. /\ st[c] = "closed" /\ u \notin cqi /\ cqi' = cqi \cup {u}
          /\ UNCHANGED <<hasSlot, uploads>>
          /\ \A d \in Conns : /\ st'[d] = IF d = c THEN "get" ELSE st[d]
                              /\ owner'[d] = IF d = c THEN u ELSE owner[d]
        BY <1>4 DEF Connect, Goto, Types, UserInv, UserTypes
    <2>2. owner' \in [Conns -> Users \cup {NoUser}] /\ cqi' \subseteq Users
        BY <1>4 DEF Connect, UserInv, UserTypes
    <2>3. c \notin hasSlot /\ c \notin uploads /\ ~Live(c)
        BY <2>1 DEF UserInv, ConnsInv, Live
    <2>4. /\ \A d \in Conns \ {c} : Live(d)' <=> Live(d)
          /\ \A d \in Conns \ {c} : Live(d) => owner[d] # u
        BY <2>1 DEF UserInv, ConnsInv, Live
    <2>5. ConnsInv'
        BY <2>1, <2>3, <2>4 DEF UserInv, ConnsInv
    <2> QED
        BY <1>3, <2>1, <2>2, <2>3, <2>5 DEF UserInv, Types
<1>5. CASE NotAvailable(c) \/ Send(c) \/ TransmitDone(c)
    <2>1. PICK s \in {"get", "running"} : Goto(c, s) /\ (s = "running" \/ c \notin uploads')
        BY <1>5 DEF NotAvailable, Send, TransmitDone, RemoveUpload, UserInv, ConnsInv
    <2>2. /\ Live(c) /\ st[c] # "failed" /\ UNCHANGED <<owner, cqi, hasSlot>>
          /\ uploads' \subseteq uploads
        BY <1>5 DEF NotAvailable, Send, TransmitDone, RemoveUpload, Live
    <2>3. ConnsInv' /\ uploads' \subseteq Conns
        BY <2>1, <2>2, StaysLive DEF UserInv
    <2>4. \A d \in Conns : st'[d] # "failed" => st[d] # "failed"
        BY <2>1, <2>2 DEF Goto, Types
    <2> QED
        BY <1>3, <2>2, <2>3, <2>4 DEF UserInv, UserTypes, Types
<1>6. CASE Fail(c)
    <2>1. /\ Live(c) /\ Goto(c, "failed") /\ cqi' = cqi \ {owner[c]}
          /\ UNCHANGED <<owner, hasSlot, uploads>>
        BY <1>6 DEF Fail, Live
    <2>2. ConnsInv'
        BY <2>1, NotLive
    <2>3. \A d \in Conns : st'[d] # "failed" => st[d] # "failed"
        BY <2>1 DEF Goto, Types
    <2> QED
        BY <1>3, <2>1, <2>2, <2>3 DEF UserInv, UserTypes, Types
<1>7. CASE RemoveConnection(c) \/ Removed(c)
    <2>1. PICK s \in {"removing", "closed"} : Goto(c, s)
        BY <1>7 DEF RemoveConnection, Removed, Closed
    <2>2. /\ owner' = owner \/ owner' = [owner EXCEPT ![c] = NoUser]
          /\ UNCHANGED cqi
        BY <1>7 DEF RemoveConnection, Removed, Closed
    <2>3. /\ hasSlot' \subseteq hasSlot /\ uploads' \subseteq uploads
          /\ c \notin hasSlot' /\ c \notin uploads'
        BY <1>7 DEF RemoveConnection, Removed, RemoveUpload, Phases, UserInv, ConnsInv
    <2>4. /\ owner' \in [Conns -> Users \cup {NoUser}]
          /\ \A d \in Conns \ {c} : owner'[d] = owner[d]
        BY <2>2 DEF UserInv, UserTypes
    <2>5. ConnsInv'
        BY <2>1, <2>2, <2>3, <2>4, NotLive
    <2>6. \A d \in Conns \ {c} : st'[d] = st[d]
        BY <2>1 DEF Goto, Types
    <2> QED
        BY <1>3, <2>2, <2>3, <2>4, <2>5, <2>6 DEF UserInv, UserTypes, Types
<1>8. CASE Load(c) \/ Store(c)
    <2>1. UNCHANGED <<st, owner, cqi, hasSlot, uploads>>
        BY <1>8 DEF Load, Store
    <2>2. ConnsInv'
        BY <2>1 DEF UserInv, ConnsInv, Live
    <2> QED
        BY <1>3, <2>1, <2>2 DEF UserInv, UserTypes
<1> QED
    BY <1>4, <1>5, <1>6, <1>7, <1>8

\* The timer, the hubs and the user interface.
LEMMA TimerUsers ==
    ASSUME Types, UserInv,
           Timer \/ \E u \in Users : ReserveSlot(u) \/ UserDisconnected(u) \/ UserConnected(u)
    PROVE  UserInv'
<1> USE DEF counters, flags, privileges, lists
<1>1. UNCHANGED <<st, owner, cqi, hasSlot, uploads, overlaps>>
    BY DEF Timer, Second, Minute, Pass30s, ReserveSlot, UserDisconnected, UserConnected
<1>2. ConnsInv' /\ uploads' \subseteq Conns
    BY <1>1 DEF UserInv, ConnsInv, Live
<1>3. ASSUME waitingUsers' \in Seq(Users), WaitingAgree', waitingFiles' \subseteq waitingFiles,
             connecting' \subseteq connecting \cup (waitingFiles \ waitingFiles'),
             online' \subseteq Users, UNCHANGED <<reserved, recent, privileged>>
      PROVE  UserInv'
    <2>1. HolderDoesNotWait'
        BY <1>1, <1>3 DEF UserInv, HolderDoesNotWait
    <2>2. UserTypes'
        BY <1>1, <1>3 DEF UserInv, UserTypes
    <2> QED
        BY <1>2, <1>3, <2>1, <2>2 DEF UserInv
<1>4. CASE Second
    <2>1. PICK n \in 1 .. Len(waitingUsers) :
             /\ ClearUserFiles({waitingUsers[i] : i \in 1 .. n})
             /\ connecting' = connecting \cup Called(n)
        BY <1>4 DEF Second
    <2>2. /\ waitingUsers' \in Seq(Users) /\ WaitingAgree'
          /\ waitingFiles' = waitingFiles \ {waitingUsers[i] : i \in 1 .. n}
        BY <2>1, Cleared DEF UserInv, UserTypes
    <2>3. Called(n) \subseteq waitingFiles \cap {waitingUsers[i] : i \in 1 .. n}
        <3>1. ASSUME NEW i \in 1 .. n PROVE waitingUsers[i] \in waitingFiles
            <4>1. i \in DOMAIN waitingUsers
                BY DEF UserInv, UserTypes
            <4> QED
                BY <4>1 DEF UserInv, WaitingAgree, ToSet
        <3> QED
            BY <3>1 DEF Called
    <2>4. UNCHANGED <<reserved, recent, privileged, online>>
        BY <1>4 DEF Second
    <2> QED
        BY <1>3, <2>1, <2>2, <2>3, <2>4 DEF UserInv, UserTypes
<1>5. ASSUME NEW us, ClearUserFiles(us), connecting' \subseteq connecting, online' \subseteq Users,
             UNCHANGED <<reserved, recent, privileged>>
      PROVE  UserInv'
    <2>1. /\ waitingUsers' \in Seq(Users) /\ WaitingAgree'
          /\ waitingFiles' = waitingFiles \ us
        BY <1>5, Cleared DEF UserInv, UserTypes
    <2> QED
        BY <1>3, <1>5, <2>1
<1>6. ASSUME NEW old, Minute(old) PROVE UserInv'
    <2>1. /\ ClearUserFiles(old) /\ connecting' \subseteq connecting
          /\ online' \subseteq Users /\ UNCHANGED <<reserved, recent, privileged>>
        BY <1>6 DEF Minute, UserInv, UserTypes
    <2> QED
        BY <1>5, <2>1
<1>7. ASSUME NEW u \in Users, UserDisconnected(u) PROVE UserInv'
    <2>1. /\ ClearUserFiles({u}) /\ connecting' \subseteq connecting
          /\ online' \subseteq Users /\ UNCHANGED <<reserved, recent, privileged>>
        BY <1>7 DEF UserDisconnected, UserInv, UserTypes
    <2> QED
        BY <1>5, <2>1
<1>8. ASSUME NEW u \in Users, UserConnected(u) PROVE UserInv'
    <2>1. /\ UNCHANGED <<waitingUsers, waitingFiles, connecting, reserved, recent, privileged>>
          /\ online' \subseteq Users
        BY <1>8 DEF UserConnected, UserInv, UserTypes
    <2> QED
        BY <1>3, <2>1 DEF UserInv, UserTypes, WaitingAgree
<1>9. CASE Pass30s \/ \E u \in Users : ReserveSlot(u)
    <2>1. UNCHANGED <<waitingUsers, waitingFiles, connecting, online>>
        BY <1>9 DEF Pass30s, ReserveSlot
    <2>2. reserved' \subseteq Users /\ privileged' \in 0 .. MaxPrivileged
        BY <1>9, ConstAssumption DEF Pass30s, ReserveSlot, Privilege, UserInv, UserTypes
    <2>3. recent' \in BOOLEAN
        BY <1>9 DEF Pass30s, ReserveSlot, UserInv, UserTypes
    <2>4. HolderDoesNotWait' /\ WaitingAgree'
        BY <1>1, <2>1 DEF UserInv, HolderDoesNotWait, WaitingAgree
    <2> QED
        BY <1>1, <1>2, <2>1, <2>2, <2>3, <2>4 DEF UserInv, UserTypes
<1> QED
    BY <1>4, <1>6, <1>7, <1>8, <1>9 DEF Timer

\* Slots and waiting lists keep their invariants in every reachable state.
LEMMA UserInvHolds == Spec => [](SlotInv /\ UserInv)
<1>1. ASSUME Init PROVE UserInv
    <2>1. UserTypes
        <3>1. waitingUsers \in Seq(Users) /\ recent \in BOOLEAN
            <4>1. waitingUsers = <<>> /\ recent = FALSE
                BY <1>1 DEF Init
            <4>2. waitingUsers \in Seq(Users)
                BY <4>1
            <4>3. recent \in BOOLEAN
                BY <4>1
            <4> QED
                BY <4>2, <4>3
        <3>2. /\ owner \in [Conns -> Users \cup {NoUser}] /\ cqi \subseteq Users
              /\ waitingFiles \subseteq Users /\ connecting \subseteq Users
              /\ reserved \subseteq Users /\ online \subseteq Users
            BY <1>1 DEF Init
        <3>3. overlaps \in 0 .. MaxOverlaps /\ privileged \in 0 .. MaxPrivileged
            BY <1>1, ConstAssumption DEF Init
        <3> QED
            BY <3>1, <3>2, <3>3 DEF UserTypes
    <2>2. ConnsInv /\ uploads \subseteq Conns /\ HolderDoesNotWait
        BY <1>1 DEF Init, ConnsInv, Live, HolderDoesNotWait
    <2>3. WaitingAgree
        BY <1>1 DEF Init, WaitingAgree, ToSet, IsInjective
    <2> QED
        BY <2>1, <2>2, <2>3 DEF UserInv
<1>2. ASSUME SlotInv, UserInv, [Next]_vars PROVE UserInv'
    <2>1. Types /\ Phases
        BY <1>2 DEF SlotInv
    <2>2. CASE UNCHANGED vars
        <3>1. UNCHANGED <<st, owner, cqi, hasSlot, uploads, lists, reserved, recent, privileged,
                          online, overlaps>>
            BY <2>2 DEF vars, flags, counters, privileges
        <3>2. ConnsInv' /\ HolderDoesNotWait' /\ WaitingAgree'
            BY <1>2, <3>1 DEF UserInv, ConnsInv, Live, HolderDoesNotWait, WaitingAgree, lists
        <3> QED
            BY <1>2, <3>1, <3>2 DEF UserInv, UserTypes, lists
    <2>3. CASE Next
        BY <1>2, <2>1, <2>3, RequestUsers, GrantUsers, ConnUsers, TimerUsers DEF Next, Thread
    <2> QED
        BY <1>2, <2>2, <2>3
<1>3. ASSUME SlotInv, UserInv, [Next]_vars PROVE SlotInv'
    BY <1>3, SlotStep
<1>4. Init => SlotInv
    BY SlotInit
<1> QED
    BY <1>1, <1>2, <1>3, <1>4, PTL DEF Spec

\* Every variable keeps its type, and an Upload object belongs to a connection
\* that waits to send, sends or has failed.
THEOREM UploadTypes == Spec => []TypeOK
<1>1. SlotInv /\ UserInv => TypeOK
    BY DEF SlotInv, Types, UserInv, UserTypes, ConnsInv, TypeOK
<1> QED
    BY <1>1, UserInvHolds, PTL

\* prepareFile, clearUserFiles and notifyQueuedUsers keep waitingUsers and
\* waitingFiles about the same users, each of them once.
THEOREM WaitingListsAgree == Spec => []WaitingAgree
<1>1. UserInv => WaitingAgree
    BY DEF UserInv
<1> QED
    BY <1>1, UserInvHolds, PTL

\* Because ConnectionManager lets a user have one upload connection, a refusal
\* never puts a user on the list whose other connection holds a slot.
THEOREM HoldersDoNotWait == Spec => []HolderDoesNotWait
<1>1. UserInv => HolderDoesNotWait
    BY DEF UserInv
<1> QED
    BY <1>1, UserInvHolds, PTL
=============================================================================
