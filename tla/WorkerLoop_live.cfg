SPECIFICATION ReadingSpec
CONSTANTS
    a = a
    b = b
    NoConn = NoConn
    Conns <- OneConn
    Tokens = {"keep", "close", "part", "bad"}
    MaxTokens = 3
    Room = 1
PROPERTIES IdleConnectionsClose
INVARIANTS NoRequestForgotten
CHECK_DEADLOCK FALSE
