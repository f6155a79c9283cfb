SPECIFICATION FairSpec
CONSTANTS
    kBufferSize = 17
    kMaxNumericSize = 6
    Ints <- MCInts
    Numbers <- MCNumbers
    TextSizes = {0, 6, 11}
    DirectSizes = {20}
    Capacity = 20
    MaxFailures = 2
    NoBuffer = NoBuffer
INVARIANTS IInv NothingLostOrReordered FileReadsBack
PROPERTIES ImplementsLogQueue
CHECK_DEADLOCK FALSE
