SPECIFICATION Spec
CONSTANTS
    c1 = c1
    c2 = c2
    main = main
    helper = helper
    ClientThreads = {c1, c2}
    ServerThreads = {main, helper}
    Main = main
    Unlocked = Unlocked
    Keys = {k}
    ResponseStream = TRUE
    CopyMayFail = TRUE
    MaxReq = 1
    MaxResp = 2
    MaxHdr = 1
INVARIANT HeaderWaitsForFirstFrame
