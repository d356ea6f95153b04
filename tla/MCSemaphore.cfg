\* Five calls on two slots.
CONSTANTS
    Calls = {c1, c2, c3, c4, c5}
    Concurrency = 2
SPECIFICATION SemFairSpec
INVARIANTS
    SlotsConserved
    NoLostWakeup
PROPERTIES
    EveryWaiterServed
CHECK_DEADLOCK FALSE
