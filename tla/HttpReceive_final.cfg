SPECIFICATION FairSpec

CONSTANTS
    Messages <- MCFinal
    HeaderLen = 2
    HeaderSpace = 8
    SizeSpace = 8
    MaxLosses = 0

PROPERTIES
    FinalReceived
