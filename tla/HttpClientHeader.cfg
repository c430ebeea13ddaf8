SPECIFICATION Spec
CONSTANTS
    ResponseStreams = {TRUE}
    MaxResp = 1
PROPERTY HeaderIsFinal
