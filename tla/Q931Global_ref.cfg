\* The restart procedure against the restart service it promises the peer,
\* on the interface and peer of Q931Global.cfg.
CONSTANTS
    b1 = b1
    b2 = b2
    b3 = b3
    Chans <- MCChans
    Unrestartable <- MCUnrestartable
    PeerClasses = {"INDICATED", "SINGLE_INTERFACE"}
    InitRI = "INDICATED"
SPECIFICATION Spec
PROPERTY RestartServiceRefined
