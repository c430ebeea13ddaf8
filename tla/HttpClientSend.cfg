SPECIFICATION FairSpec
CONSTANTS
    ResponseStreams = {TRUE}
    MaxResp = 1
PROPERTY SendEndsWithStream
