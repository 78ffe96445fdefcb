CONSTANTS
    MaxQueued <- MCMaxQueued
    MaxDigits <- MCMaxDigits
    DtmfQueueSize <- MCDtmfQueueSize
    MaxIndicates <- MCMaxIndicates
    EchoCancel = TRUE
SPECIFICATION Spec
INVARIANT NoDoubleClose
