\* One port, 20 ms FIFO delay (two ticks of 10 ms), four ticks and four
\* line changes: enough for L1 to go up, down and up again within the
\* delay, in either role.
CONSTANTS
    LineStates <- MCLineStates
    Settle = 2
    MaxTime = 4
    MaxChanges = 4
    RoleInputs = {"NT", "TE", "other"}
SPECIFICATION Spec
INVARIANT TypeOK
PROPERTY DriverTracksLine ActivationConfigured
