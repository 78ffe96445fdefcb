\* The port stays in the role it starts in (TE); L1 may go up, down and
\* up again within the 20 ms FIFO delay.
CONSTANTS
    LineStates <- MCLineStates
    Settle = 2
    MaxTime = 4
    MaxChanges = 4
    RoleInputs = {"other"}
SPECIFICATION Spec
PROPERTY FifoSettled
