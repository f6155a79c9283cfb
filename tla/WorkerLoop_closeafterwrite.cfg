SPECIFICATION Spec
CONSTANTS
    a = a
    b = b
    NoConn = NoConn
    Conns <- OneConn
    Tokens = {"keep", "close"}
    MaxTokens = 2
    Room = 1
INVARIANTS CloseAfterWrite
CHECK_DEADLOCK FALSE
