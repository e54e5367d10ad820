SPECIFICATION FairSpec
CONSTANTS
    Users = {u1, u2}
    NmdcUsers = {u1}
    Lowest = {u2}
    Highest = {u1}
    Conns = {c1, c2}
    Slots = 1
    MaxItems = 1
    MaxAsked = 1
    MaxEvents = 1
INVARIANTS
    TypeOK
    ActiveIsAssociated
    WantedIsPursued
PROPERTY
    WantedIsServed
