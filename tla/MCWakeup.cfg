SPECIFICATION Spec
CONSTANTS
    Contracts = {c1, c2}
    Horizon = 2
    MaxFailures = 1
    MaxLapses = 1
SYMMETRY Symmetry
INVARIANTS
    TypeOK
    SleepsWithAnAlarm
    PressingWorkStaysAwake
CHECK_DEADLOCK FALSE
