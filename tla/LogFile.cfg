SPECIFICATION Spec
CONSTANTS
    MaxFiles = 3
    RollSize = 3
    Lens = {1, 2}
    FailCount = 1
    Torn = Torn
    MaxStarts = 2
    MaxLines = 6
    MaxFailures = 1
INVARIANTS IInv FilesBounded KeepsNewestLines RolledFilesAreFull
CHECK_DEADLOCK FALSE
