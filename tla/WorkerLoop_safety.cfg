SPECIFICATION Spec
CONSTANTS
    a = a
    b = b
    NoConn = NoConn
    Conns <- MCConns
    Tokens = {"keep", "close"}
    MaxTokens = 2
    Room = 1
SYMMETRY MCSymmetry
INVARIANTS IInv RegisteredChannelsExist WriteInterestMatchesOutput NoImmortalConnection ResponsesInOrder DestroyedIffDisconnected
PROPERTIES TimersDieWithConnection
CHECK_DEADLOCK FALSE
