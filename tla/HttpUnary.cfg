SPECIFICATION FairSpec
CONSTANTS
    Keys <- MCKeys
    Metadata <- MCMetadata
    Calls <- MCCalls
    NoDeadline = NoDeadline
    Milli = 4
    Half = 128
INVARIANTS OutcomeIsHandlers RequestArrives 
PROPERTY InvokeEnds
