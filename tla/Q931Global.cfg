\* The restart procedure from an interface whose last peer RESTART left an
\* INDICATED restart indicator behind; the peer sends INDICATED or
\* SINGLE_INTERFACE restarts.
CONSTANTS
    b1 = b1
    b2 = b2
    b3 = b3
    Chans <- MCChans
    Unrestartable <- MCUnrestartable
    PeerClasses = {"INDICATED", "SINGLE_INTERFACE"}
    InitRI = "INDICATED"
SPECIFICATION Spec
INVARIANT TypeOK
INVARIANT RestartAwaitsCalls
INVARIANT AckNamesReleasedChannels
PROPERTY PeerRestartEnds
