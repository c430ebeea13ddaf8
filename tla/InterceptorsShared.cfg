SPECIFICATION Spec
CONSTANTS
    Names = {"i", "j", "k", "l", "x", "server"}
    Memory <- MCMemory
    CallerSlices <- MCShared
    Lists <- MCLists
    Services = {"s", "t"}
    Transport = "server"
    MaxViews = 4
INVARIANT CallsPassAllInterceptors
CHECK_DEADLOCK FALSE
