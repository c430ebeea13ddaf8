SPECIFICATION FairSpec
CONSTANTS
    Keys = {k1, k2}
    CopyMayFail = TRUE
INVARIANTS TypeOK OutcomeIsHandlers MetadataIsComplete
PROPERTIES MetadataIsFinal InvokeReturns GoroutineExits
