SPECIFICATION Spec
CONSTANTS
    Conns = {c1, c2}
    IdleTime = 3
    CloseTime = 4
    Ms = 2
    Slack = 2
    MaxTime = 9
    MaxTimers = 4
INVARIANTS IInv CurrentTimers ClosedInTime HeapForgets SleepsForNextTimer
PROPERTIES NeverClosedEarly
SYMMETRY MCSymmetry
