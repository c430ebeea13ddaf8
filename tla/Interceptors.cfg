SPECIFICATION Spec
CONSTANTS
    Names = {"i", "j", "k", "l", "x", "server"}
    Memory <- MCMemory
    CallerSlices <- MCFull
    Lists <- MCLists
    Services = {"s", "t"}
    Transport = "server"
    MaxViews = 4
INVARIANTS CallsPassAllInterceptors ServicesKeepInterceptors
CHECK_DEADLOCK FALSE
