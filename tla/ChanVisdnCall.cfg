CONSTANTS
    MaxQueued <- MCMaxQueued
    MaxDigits <- MCCallMaxDigits
    DtmfQueueSize <- MCDtmfQueueSize
    MaxIndicates <- MCMaxIndicates
    EchoCancel = TRUE
SPECIFICATION Spec
INVARIANT TypeOK PathReleasedOnHangup
PROPERTIES
    PeerReleaseHangsUp
    RequestsDispatched
