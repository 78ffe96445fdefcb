\* Suspend, resume and hangup on three channels.  Every RESUME carries a
\* call identity IE: without one the scan dereferences NULL (a hazard).
CONSTANTS
    ch1 = ch1
    ch2 = ch2
    ch3 = ch3
    Chans <- MCChans
    Idents <- MCIdents
    Empty = ""
    NoCI = "NONE"
    SuspendCIs = {"NONE", "", "a", "b"}
    Deadlines <- MCDeadlines
    T307 = 180
    ResumeCIs = {"", "a", "b"}
SPECIFICATION Spec
INVARIANT TypeOK RegistryMatchesChannels SuspendedCallBounded
PROPERTY RegistryImplementsParking
