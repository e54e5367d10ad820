SPECIFICATION Spec
CONSTANTS
    Files = {f1, f2}
    Name <- SameName
    Settings <- DropOrKeep
    MaxFaults = 2
    MaxRechecks = 1
INVARIANTS
    NothingVanishes
    JoinIsShort
    EndsInOrder
    OnlyLateWait
SYMMETRY Symmetry
CHECK_DEADLOCK FALSE
