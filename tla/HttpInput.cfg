SPECIFICATION Spec
CONSTANTS
    RequestTexts <- MCRequestTexts
    PathOf <- MCPathOf
    VersionOf <- MCVersionOf
    LengthTexts = {"Content-Length: 0", "Content-Length: 2", "Content-Length: x"}
    LengthOf <- MCLengthOf
    NoLength <- MCNoLength
    CloseText = "Connection: close"
    KeepText = "Connection: keep-alive"
    OtherHeader = "Host: here"
    Junk = " junk"
    Files = {"/a.txt"}
    Messages <- MCMessages
    MaxMessages = 3
INVARIANTS IInv ResponsesAnswerMessages NothingHeldBack
CHECK_DEADLOCK FALSE
