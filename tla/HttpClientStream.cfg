SPECIFICATION FairSpec
CONSTANTS
    ResponseStreams = {TRUE, FALSE}
    MaxResp = 2
INVARIANTS TypeOK EndIsComplete ClosedMeansDone OneResponse
PROPERTIES EndIsFinal HttpGoroutineExits ReceiverIsReleased SenderIsReleased
