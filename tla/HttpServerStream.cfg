SPECIFICATION FairSpec
CONSTANTS
    ServerThreads = {main, helper}
    Main = main
    Unlocked = Unlocked
    Keys = {k}
    ClientStream = FALSE
    Outlive = FALSE
    MaxReq = 2
    MaxResp = 2
    SizeOf <- MCSizeOf
    maxMessageSize = 3
INVARIANTS TypeOK WireIsWhole TrailerIsHonest HeadersAreSent OneRequest WriterIsAlone StreamsDecode
PROPERTY ClientGoneReleasesServer
