SPECIFICATION FairSpec
CONSTANTS
    c1 = c1
    c2 = c2
    main = main
    helper = helper
    ClientThreads = {c1}
    ServerThreads = {main, helper}
    Main = main
    Unlocked = Unlocked
    Keys = {}
    ResponseStream = FALSE
    CopyMayFail = FALSE
    MaxReq = 2
    MaxResp = 2
    MaxHdr = 1
INVARIANT OneResponse
PROPERTIES CancelReleasesClient ReturnReleasesClient ServerGoroutineExits KeepsPromise
