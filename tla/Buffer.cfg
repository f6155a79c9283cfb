SPECIFICATION BufferSpec
CONSTANTS
    Bytes = {0, 1, 2}
    Zero = 0
    kCheapPrepend = 1
    InitialSize = 2
    ShrinkSize = 5
    LowWater = 2
    MaxPiece = 3
    MaxReadable = 4
INVARIANTS IndicesInBounds
PROPERTIES ImplementsByteQueue GrowsOnlyWhenFull
CHECK_DEADLOCK FALSE
