SPECIFICATION FairSpec
CONSTANTS
    a = a
    b = b
    NoConn = NoConn
    Conns <- OneConn
    Tokens = {"keep", "close"}
    MaxTokens = 2
    Room = 1
PROPERTIES IdleConnectionsClose
CHECK_DEADLOCK FALSE
